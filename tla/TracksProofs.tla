---------------------------- MODULE TracksProofs ----------------------------
(***************************************************************************)
(* What a run of the track pipeline gathers and what its reply lists, for  *)
(* all answers, in whatever order they come and whatever fails.            *)
(***************************************************************************)
EXTENDS Tracks, RankingProofs

-----------------------------------------------------------------------------
(* The inductive form of TypeOK.  What a later stage fills is empty before *)
(* it; an artist is gathered once, with one count and one list of tags; a  *)
(* track is scored once.                                                   *)

Candidate == [artist : Artists, title : Titles, count : Nat, tags : Seq(Tags)]
Marks == UNION {ToSet(score_candidate(c)) : c \in pool}

Unfilled ==
    /\ stage = "charts" => entries = << >> /\ tally = Empty
    /\ stage \in {"charts", "similar"} => pool = {}
    /\ stage \in {"charts", "similar", "tracks"} => scored = << >>

TalliedOnce ==
    \A k \in DOMAIN tally : tally[k] \in [name : Artists, count : Nat] /\ Norm[tally[k].name] = k

PooledOnce ==
    /\ pool \subseteq Candidate
    /\ \A c \in pool : c.artist = tally[Norm[c.artist]].name /\ c.count = tally[Norm[c.artist]].count
    /\ \A c, d \in pool : c.artist = d.artist => c.tags = d.tags
    /\ stage = "tracks" => /\ pending \subseteq DOMAIN tally
                           /\ \A c \in pool : Norm[c.artist] \notin pending

ScoredOnce ==
    /\ scored \in Seq(Marks)
    /\ \A i, j \in DOMAIN scored : scored[i].track = scored[j].track => i = j
    /\ stage = "info" =>
           \A i \in DOMAIN scored, c \in pending : scored[i].track # <<c.artist, c.title>>

Typed ==
    /\ TypeOK /\ Unfilled /\ TalliedOnce /\ PooledOnce /\ ScoredOnce
    /\ weights \in [DOMAIN weights -> Nat] /\ CountsOf(profile, Tags)

(* The inductive form of PoolTells: what has been gathered so far is       *)
(* determined by the calls that have answered.                             *)

Running == {"similar", "tracks", "info", "profile"}
Counted(seeds) ==
    /\ DOMAIN tally = {k \in Keys \ Known : Votes(seeds, k) # {}}
    /\ \A k \in DOMAIN tally : tally[k].count = Cardinality(Votes(seeds, k))
Pooled(top, got) == Bare(pool) = Bare(Gathered(got)) /\ (~degraded => got = top /\ pool = Gathered(top))
Rated(done) == ToSet(scored) = UNION {ToSet(score_candidate(c)) : c \in done}

Weighed ==
    /\ unknown => weights = Empty /\ stage \notin Running
    /\ ~unknown /\ ~degraded => /\ stage = "charts" => weights = WeightsOf(Asked \ pending)
                                /\ stage \in Running => weights = WeightsOf(Asked)
    /\ stage = "charts" => pending \subseteq Asked

Voters ==
    /\ stage = "similar" => pending \subseteq SeedArtists(entries) /\
           \E seeds \in SUBSET (SeedArtists(entries) \ pending) :
               Counted(seeds) /\ (~degraded => seeds = SeedArtists(entries) \ pending)
    /\ stage \in Running \ {"similar"} =>
           \E seeds \in SUBSET SeedArtists(entries) :
               Counted(seeds) /\ (~degraded => seeds = SeedArtists(entries))

Pools ==
    /\ stage = "tracks" =>
           \E top \in MostNamed : \E got \in SUBSET (top \ pending) :
               pending \subseteq top /\ Pooled(top \ pending, got)
    /\ stage \in {"info", "profile"} =>
           \E top \in MostNamed : \E got \in SUBSET top : Pooled(top, got)

Ratings ==
    ~degraded =>
        /\ stage = "info" => \E top \in MostVoted : pending \subseteq top /\ Rated(top \ pending)
        /\ stage = "profile" => \E top \in MostVoted : Rated(top)

Gathers == Weighed /\ Voters /\ Pools /\ Ratings

-----------------------------------------------------------------------------
(* Steps that leave what is gathered alone.                                *)

Booked ==
    /\ reply \in Seq(Seeds) /\ cache \in Seq(Seeds) /\ custom \in BOOLEAN
    /\ requests \in 0..MaxRequests /\ fails \in 0..MaxFails /\ degraded \in BOOLEAN

LEMMA TypedBooks == Typed => Booked
  BY DEF Typed, TypeOK, Booked

LEMMA NoTracks == << >> \in Seq(Seeds)
  OBVIOUS

LEMMA SameArtists == ASSUME UNCHANGED entries PROVE SeedArtists(entries)' = SeedArtists(entries) /\ Known' = Known
  BY DEF Known

LEMMA SameScores ==
    ASSUME UNCHANGED entries
    PROVE  \A c : score_candidate(c)' = score_candidate(c)
  BY SameArtists, Zenon DEF score_candidate

LEMMA SameMarks == ASSUME UNCHANGED <<entries, pool>> PROVE Marks' = Marks
<1>1. \A c : score_candidate(c)' = score_candidate(c)
  BY SameScores
<1> QED
  BY <1>1, Zenon DEF Marks

LEMMA StaysTyped ==
    ASSUME Typed, UNCHANGED <<setting, run>>, Booked',
           \/ stage' = "idle" /\ pending' = {}
           \/ stage' = stage /\ pending' \subseteq pending
           \/ stage' = "profile"
    PROVE  Typed'
<1>1. UNCHANGED <<period, unknown, weights, entries, tally, pool, scored, profile>>
  BY DEF setting, run
<1>2. Known' = Known /\ Marks' = Marks
  BY <1>1, SameArtists, SameMarks
<1>3. TypeOK'
  BY <1>1, <1>2 DEF Typed, TypeOK, Booked
<1>4. Unfilled' /\ TalliedOnce' /\ PooledOnce'
  BY <1>1 DEF Typed, Unfilled, TalliedOnce, PooledOnce
<1>5. ScoredOnce'
  BY <1>1, <1>2 DEF Typed, ScoredOnce
<1> QED
  BY <1>1, <1>3, <1>4, <1>5 DEF Typed, CountsOf

-----------------------------------------------------------------------------
(* The charts and the seeds.                                               *)

LEMMA ChartEntries ==
    ASSUME NEW w \in Windows
    PROVE  /\ Chart[w] \in Seq([track : Seeds, weight : Nat])
           /\ \A i \in DOMAIN Chart[w] : Chart[w][i].track \in Seeds /\ Chart[w][i].weight \in Nat
<1> DEFINE list == Chart[w]
<1>1. list \in Seq([track : Seeds, weight : Nat])
  BY TracksAssumption
<1> HIDE DEF list
<1>2. \A i \in DOMAIN list : list[i] \in [track : Seeds, weight : Nat]
  BY <1>1, ElementType
<1>3. \A i \in DOMAIN list : list[i].track \in Seeds /\ list[i].weight \in Nat
  BY <1>2
<1> QED
  BY <1>1, <1>3 DEF list

LEMMA ListedFinite ==
    ASSUME NEW w \in Windows, NEW t
    PROVE  /\ Listed(w, t) \subseteq DOMAIN Chart[w] /\ Listed(w, t) \subseteq Int
           /\ IsFiniteSet(Listed(w, t))
<1>1. Chart[w] \in Seq([track : Seeds, weight : Nat])
  BY ChartEntries
<1>2. Listed(w, t) \subseteq DOMAIN Chart[w]
  BY DEF Listed
<1> DEFINE I == Listed(w, t)
           list == Chart[w]
<1> HIDE DEF I, list
<1>3. IsFiniteSet(I) /\ DOMAIN list \subseteq Nat
  BY <1>1, <1>2, VectorFinite DEF I, list
<1> QED
  BY <1>2, <1>3 DEF I, list

(* What a chart says of a track is a count, and nothing when it does not   *)
(* list it.                                                                *)
LEMMA WeightIsCount ==
    ASSUME NEW w \in Windows, NEW t, Listed(w, t) # {}
    PROVE  Weight(w, t) \in Nat
<1> DEFINE g == [i \in Listed(w, t) |-> Chart[w][i].weight]
<1>1. Counts(g)
  BY ListedFinite, ChartEntries DEF Counts
<1>2. CASE Blend
  <2> HIDE DEF g
  <2>1. SumOf(g) \in Nat
    BY <1>1, SumIsNat
  <2> QED
    BY <1>2, <2>1 DEF Weight, g
<1>3. CASE ~Blend
  <2>1. Max(Listed(w, t)) \in Listed(w, t)
    BY ListedFinite, GreatestNumber
  <2>2. Chart[w][Max(Listed(w, t))].weight \in Nat
    BY <2>1, ListedFinite, ChartEntries
  <2> QED
    BY <1>3, <2>2 DEF Weight
<1> QED
  BY <1>2, <1>3

LEMMA AskedWindows == ASSUME Typed PROVE Asked \subseteq Windows /\ (~Blend => Asked = {period})
  BY DEF Typed, TypeOK, Asked, Blend

LEMMA TypedAsk == ASSUME Typed, NEW own \in BOOLEAN, Ask(own) PROVE Typed'
<1>1. /\ UNCHANGED <<setting, cache, fails>> /\ custom' \in BOOLEAN /\ requests' \in 0..MaxRequests
  <2>1. requests \in 0..MaxRequests /\ requests < MaxRequests /\ requests' = requests + 1 /\ custom' = own
    BY DEF Ask, Typed, TypeOK
  <2>2. requests' \in 0..MaxRequests
    BY <2>1, TracksAssumption
  <2> QED
    BY <2>1, <2>2 DEF Ask
<1>2. CASE UNCHANGED <<stage, pending, run, degraded>> /\ reply' = cache
  <2>1. Booked'
    BY <1>1, <1>2, TypedBooks DEF Booked
  <2> QED
    BY <1>1, <1>2, <2>1, StaysTyped
<1>3. CASE Send("charts", Asked) /\ Fresh /\ degraded' = FALSE /\ UNCHANGED reply
  <2>1. /\ stage' = "charts" /\ UNCHANGED <<period, unknown, reply, cache, fails>> /\ degraded' = FALSE
        /\ weights' = Empty /\ entries' = << >> /\ tally' = Empty /\ pool' = {} /\ scored' = << >>
        /\ profile' = Empty
    BY <1>1, <1>3 DEF Send, Fresh, setting
  <2>2. DOMAIN Empty = {} /\ Empty \in [DOMAIN Empty -> Nat]
    BY DEF Empty
  <2>3. TypeOK'
    <3>1. << >> \in Seq(DOMAIN Empty) /\ Len(<< >>) = 0 /\ MaxSeeds \in Nat
      BY TracksAssumption
    <3>2. entries' \in Seq(DOMAIN weights') /\ Len(entries') <= MaxSeeds
      BY <2>1, <3>1
    <3>3. DOMAIN weights' = {} /\ DOMAIN tally' = {}
      BY <2>1, <2>2
    <3>4. period' \in Windows \cup {"blend"} /\ unknown' \in BOOLEAN /\ fails' \in 0..MaxFails
      BY <2>1 DEF Typed, TypeOK
    <3>5. reply' \in Seq(Seeds) /\ cache' \in Seq(Seeds)
      BY <2>1 DEF Typed, TypeOK
    <3> QED
      BY <1>1, <2>1, <3>2, <3>3, <3>4, <3>5 DEF TypeOK
  <2>4. Unfilled' /\ TalliedOnce' /\ PooledOnce' /\ ScoredOnce' /\ CountsOf(profile, Tags)'
    BY <2>1, <2>2 DEF Unfilled, TalliedOnce, PooledOnce, ScoredOnce, CountsOf
  <2> QED
    BY <2>1, <2>2, <2>3, <2>4 DEF Typed
<1> QED
  BY <1>2, <1>3 DEF Ask

(* The tracks that a chart lists, and what they weigh with those before.   *)
LEMMA TypedChart == ASSUME Typed, NEW w \in Windows, ChartAnswer(w) PROVE Typed'
<1> DEFINE tracks == {Chart[w][i].track : i \in DOMAIN Chart[w]}
           weight(t) == IF Listed(w, t) = {} THEN weights[t]
                        ELSE Weight(w, t) + IF Blend THEN WeightOf(weights, t) ELSE 0
<1>1. /\ stage = "charts" /\ stage' = "charts"
      /\ UNCHANGED <<setting, custom, entries, tally, pool, scored, profile, results, requests, fails, degraded>>
      /\ weights' = [t \in DOMAIN weights \cup tracks |-> weight(t)]
  BY DEF ChartAnswer, Send
<1>2. CountsOf(weights, Seeds)
  BY DEF Typed, TypeOK, CountsOf
<1>3. ASSUME NEW t \in DOMAIN weights \cup tracks PROVE weight(t) \in Nat
  <2>1. CASE Listed(w, t) = {}
    <3>1. t \in DOMAIN weights
      BY <2>1 DEF Listed
    <3> QED
      BY <1>2, <2>1, <3>1 DEF CountsOf
  <2>2. CASE Listed(w, t) # {}
    <3>1. Weight(w, t) \in Nat
      BY <2>2, WeightIsCount
    <3>2. WeightOf(weights, t) \in Nat
      BY <1>2, WeightOfCounts
    <3> QED
      BY <2>2, <3>1, <3>2
  <2> QED
    BY <2>1, <2>2
<1>4. tracks \subseteq Seeds
  BY ChartEntries
<1> HIDE DEF weight, tracks
<1>5. DOMAIN weights' \subseteq Seeds /\ weights' \in [DOMAIN weights' -> Nat]
  BY <1>1, <1>2, <1>3, <1>4 DEF CountsOf
<1>6. entries = << >> /\ tally = Empty /\ pool = {} /\ scored = << >>
  BY <1>1 DEF Typed, Unfilled
<1>7. TypeOK'
  <2>1. Known' = Known
    BY <1>1, SameArtists
  <2> QED
    BY <1>1, <1>5, <1>6, <2>1 DEF Typed, TypeOK, setting, results
<1>8. Unfilled' /\ TalliedOnce' /\ PooledOnce' /\ ScoredOnce' /\ CountsOf(profile, Tags)'
  BY <1>1, <1>6 DEF Typed, Unfilled, TalliedOnce, PooledOnce, ScoredOnce, CountsOf
<1> QED
  BY <1>5, <1>7, <1>8 DEF Typed

LEMMA SeedsFinite == ASSUME Typed PROVE IsFiniteSet(DOMAIN weights) /\ Cardinality(DOMAIN weights) \in Nat
<1>1. IsFiniteSet(Seeds)
  BY FS_Product, TracksAssumption DEF Seeds
<1>2. DOMAIN weights \in SUBSET Seeds
  BY DEF Typed, TypeOK
<1>3. IsFiniteSet(DOMAIN weights)
  BY <1>1, <1>2, FS_Subset
<1> QED
  BY <1>3, FS_CardinalityType

LEMMA TypedSeeds == ASSUME Typed, build_seeds PROVE Typed'
<1>1. CASE Refuse /\ UNCHANGED entries
  <2>1. UNCHANGED <<setting, run>> /\ stage' = "idle" /\ pending' = {}
    BY <1>1 DEF build_seeds, Refuse, Send, run
  <2>2. Booked'
    BY <1>1, TypedBooks DEF Booked, build_seeds, Refuse
  <2> QED
    BY <2>1, <2>2, StaysTyped
<1>2. CASE \E s \in Orders : /\ entries' = Take(s, MaxSeeds)
                             /\ Send("similar", SeedArtists(Take(s, MaxSeeds)))
                             /\ UNCHANGED results
  <2>1. PICK s \in Orders : entries' = Take(s, MaxSeeds) /\ stage' = "similar"
    BY <1>2 DEF Send
  <2>2. /\ stage = "charts"
        /\ UNCHANGED <<setting, custom, weights, tally, pool, scored, profile, results, requests, fails, degraded>>
    BY <1>2 DEF build_seeds
  <2>3. s \in Seq(DOMAIN weights)
    <3>1. s \in [1..Cardinality(DOMAIN weights) -> DOMAIN weights]
      BY DEF Orders, SetToSeqs
    <3> QED
      BY <3>1, SeedsFinite
  <2>4. MaxSeeds \in Nat
    BY TracksAssumption
  <2>5. entries' \in Seq(DOMAIN weights) /\ Len(entries') <= MaxSeeds
    <3> DEFINE T == DOMAIN weights
    <3> HIDE DEF T
    <3>1. s \in Seq(T)
      BY <2>3 DEF T
    <3>2. \E k \in Nat :
             /\ k <= Len(s) /\ k <= MaxSeeds /\ (k = MaxSeeds \/ k = Len(s))
             /\ Take(s, MaxSeeds) \in Seq(T) /\ Len(Take(s, MaxSeeds)) = k /\ DOMAIN Take(s, MaxSeeds) = 1..k
             /\ \A i \in 1..k : Take(s, MaxSeeds)[i] = s[i]
      BY <2>4, <3>1, TakeElements
    <3> QED
      BY <2>1, <3>2 DEF T
  <2>6. tally = Empty /\ pool = {} /\ scored = << >> /\ DOMAIN Empty = {}
    BY <2>2 DEF Typed, Unfilled, Empty
  <2>7. TypeOK'
    BY <2>1, <2>2, <2>5, <2>6 DEF Typed, TypeOK, setting, results
  <2>8. Unfilled' /\ TalliedOnce' /\ PooledOnce' /\ ScoredOnce'
    BY <2>1, <2>2, <2>6 DEF Typed, Unfilled, TalliedOnce, PooledOnce, ScoredOnce
  <2> QED
    BY <2>2, <2>7, <2>8 DEF Typed, CountsOf
<1> QED
  BY <1>1, <1>2 DEF build_seeds

-----------------------------------------------------------------------------
(* The similar artists.                                                    *)

(* The mentions of an artist in a list.                                    *)
LEMMA SpellingNames ==
    ASSUME NEW a \in Artists, NEW k
    PROVE  /\ Spelling(k, Similar[a]) \subseteq DOMAIN Similar[a]
           /\ Cardinality(Spelling(k, Similar[a])) \in Nat /\ IsFiniteSet(Spelling(k, Similar[a]))
           /\ \A i \in DOMAIN Similar[a] : Similar[a][i] \in Artists /\ Norm[Similar[a][i]] \in Keys
           /\ \A i \in Spelling(k, Similar[a]) : Norm[Similar[a][i]] = k
           /\ k \in {Norm[s] : s \in ToSet(Similar[a])} <=> Spelling(k, Similar[a]) # {}
           /\ Spelling(k, Similar[a]) # {} => Min(Spelling(k, Similar[a])) \in Spelling(k, Similar[a])
<1> DEFINE list == Similar[a]
           S == {i \in DOMAIN list : Norm[list[i]] = k}
<1>1. list \in Seq(Artists) /\ Norm \in [Artists -> Keys]
  BY TracksAssumption
<1>2. Spelling(k, list) = S
  BY DEF Spelling
<1> HIDE DEF list
<1>3. \A i \in DOMAIN list : list[i] \in Artists /\ Norm[list[i]] \in Keys
  BY <1>1, ElementType
<1>4. IsFiniteSet(S) /\ Cardinality(S) \in Nat /\ DOMAIN list \subseteq Nat
  <2>1. S \subseteq DOMAIN list
    OBVIOUS
  <2> HIDE DEF S
  <2> QED
    BY <1>1, <2>1, VectorFinite
<1>5. k \in {Norm[s] : s \in ToSet(list)} <=> S # {}
  BY DEF ToSet
<1>6. ASSUME S # {} PROVE Min(S) \in S
  <2>1. S \subseteq Nat
    BY <1>4
  <2> HIDE DEF S
  <2>2. \E n \in S : \A m \in S : n <= m
    BY <1>6, <2>1, LeastNumber
  <2> QED
    BY <2>2 DEF Min
<1> QED
  BY <1>2, <1>3, <1>4, <1>5, <1>6 DEF list

LEMMA TypedSimilar == ASSUME Typed, NEW a \in Artists, SimilarAnswer(a) PROVE Typed'
<1> DEFINE keys == {Norm[s] : s \in ToSet(Similar[a])} \ Known
           list == Similar[a]
           heard(k) == Cardinality(Spelling(k, list))
           entry(k) == IF k \in DOMAIN tally THEN [tally[k] EXCEPT !.count = @ + heard(k)]
                       ELSE [name |-> list[Min(Spelling(k, list))], count |-> heard(k)]
<1>1. /\ stage = "similar" /\ stage' = "similar"
      /\ UNCHANGED <<setting, custom, weights, entries, pool, scored, profile, results, requests, fails, degraded>>
      /\ tally' = [k \in DOMAIN tally \cup keys |-> entry(k)]
  BY DEF SimilarAnswer, Send, Voted
<1>2. ASSUME NEW k \in DOMAIN tally \cup keys
      PROVE  entry(k) \in [name : Artists, count : Nat] /\ Norm[entry(k).name] = k /\ k \in Keys \ Known
  <2>1. CASE k \in DOMAIN tally
    <3>1. tally[k] \in [name : Artists, count : Nat] /\ Norm[tally[k].name] = k /\ k \in Keys \ Known
      BY <2>1 DEF Typed, TypeOK, TalliedOnce
    <3>2. heard(k) \in Nat
      BY SpellingNames
    <3>3. entry(k) = [tally[k] EXCEPT !.count = @ + heard(k)]
      BY <2>1
    <3> HIDE DEF heard, entry
    <3> QED
      BY <3>1, <3>2, <3>3
  <2>2. CASE k \notin DOMAIN tally
    <3> DEFINE m == Min(Spelling(k, list))
    <3>1. k \in keys /\ m \in Spelling(k, list) /\ m \in DOMAIN list
      BY <2>2, SpellingNames
    <3>2. list[m] \in Artists /\ Norm[list[m]] = k /\ heard(k) \in Nat /\ k \in Keys \ Known
      <4>1. k \notin Known
        BY <3>1
      <4>2. list[m] \in Artists /\ Norm[list[m]] \in Keys
        <5> HIDE DEF m
        <5> QED
          BY <3>1, SpellingNames
      <4>3. Norm[list[m]] = k
        <5> HIDE DEF m
        <5> QED
          BY <3>1, SpellingNames
      <4> QED
        BY <4>1, <4>2, <4>3, SpellingNames
    <3>3. entry(k) = [name |-> list[m], count |-> heard(k)]
      BY <2>2
    <3> HIDE DEF heard, m, entry
    <3> QED
      BY <3>1, <3>2, <3>3
  <2> QED
    BY <2>1, <2>2
<1> HIDE DEF entry, keys
<1>3. DOMAIN tally' \subseteq Keys \ Known /\ TalliedOnce'
  BY <1>1, <1>2 DEF TalliedOnce
<1>4. Known' = Known /\ pool = {} /\ scored = << >>
  BY <1>1, SameArtists DEF Typed, Unfilled
<1>5. TypeOK'
  BY <1>1, <1>3, <1>4 DEF Typed, TypeOK, setting, results
<1>6. Unfilled' /\ PooledOnce' /\ ScoredOnce' /\ CountsOf(profile, Tags)'
  BY <1>1, <1>4 DEF Typed, Unfilled, PooledOnce, ScoredOnce, CountsOf
<1> QED
  BY <1>1, <1>3, <1>5, <1>6 DEF Typed

(* A cut of a ranking is a part of what is ranked.                         *)
LEMMA CutsAreParts ==
    /\ \A top \in MostNamed : top \subseteq DOMAIN tally
    /\ \A top \in MostVoted : top \subseteq pool
  BY Zenon DEF MostNamed, MostVoted, Cuts, kSubset

LEMMA TypedExpand == ASSUME Typed, Expand PROVE Typed'
<1>1. PICK top \in MostNamed : stage' = "tracks" /\ pending' = top
  BY DEF Expand, Send
<1>2. /\ stage = "similar"
      /\ UNCHANGED <<setting, custom, run, results, requests, fails, degraded>>
  BY DEF Expand
<1>3. pending' \subseteq DOMAIN tally
  BY <1>1, CutsAreParts
<1>4. UNCHANGED <<period, unknown, weights, entries, tally, pool, scored, profile, reply, cache>>
  BY <1>2 DEF setting, run, results
<1>5. Known' = Known /\ Marks' = Marks /\ pool = {} /\ scored = << >>
  BY <1>2, <1>4, SameArtists, SameMarks DEF Typed, Unfilled
<1>6. TypeOK'
  BY <1>1, <1>2, <1>4, <1>5 DEF Typed, TypeOK
<1>7. Unfilled' /\ TalliedOnce' /\ PooledOnce' /\ ScoredOnce'
  BY <1>1, <1>3, <1>4, <1>5 DEF Typed, Unfilled, TalliedOnce, PooledOnce, ScoredOnce
<1> QED
  BY <1>4, <1>6, <1>7 DEF Typed, CountsOf

-----------------------------------------------------------------------------
(* The tracks.                                                             *)

(* What the answer about an artist adds to the pool.                       *)
TracksOf(k, tags) ==
    {[artist |-> tally[k].name, title |-> t, count |-> tally[k].count, tags |-> tags] : t \in TopTracks[tally[k].name]}

LEMMA TypedTracks == ASSUME Typed, NEW k \in Keys, NEW tagged \in BOOLEAN, TracksAnswer(k, tagged) PROVE Typed'
<1> DEFINE name == tally[k].name
           tags == IF tagged THEN ArtistTags[name] ELSE << >>
           new == TracksOf(k, tags)
<1>1. /\ stage = "tracks" /\ stage' = "tracks" /\ k \in pending /\ pending' = pending \ {k}
      /\ UNCHANGED <<setting, custom, weights, entries, tally, scored, profile, results, requests>>
      /\ pool' = pool \cup new
  BY DEF TracksAnswer, Send, TracksOf
<1>2. /\ k \in DOMAIN tally /\ scored = << >> /\ name \in Artists /\ Norm[name] = k /\ tally[k].count \in Nat
  BY <1>1 DEF Typed, Unfilled, PooledOnce, TalliedOnce
<1>3. tags \in Seq(Tags) /\ TopTracks[name] \subseteq Titles
  BY <1>2, TracksAssumption
<1> HIDE DEF tags
<1>4. \A c \in new : c \in Candidate /\ c.artist = name /\ c.count = tally[k].count /\ c.tags = tags
  BY <1>2, <1>3 DEF TracksOf, Candidate
<1> HIDE DEF new
<1>5. Known' = Known
  BY <1>1, SameArtists
<1>6. fails' \in 0..MaxFails /\ degraded' \in BOOLEAN
  <2>1. fails \in 0..MaxFails /\ degraded \in BOOLEAN /\ MaxFails \in Nat
    BY TracksAssumption DEF Typed, TypeOK
  <2>2. degraded' = (degraded \/ ~tagged) /\ fails' = (IF tagged THEN fails ELSE fails + 1)
        /\ (tagged \/ fails < MaxFails)
    BY DEF TracksAnswer
  <2> QED
    BY <2>1, <2>2
<1>7. \A c \in pool' : Norm[c.artist] \in DOMAIN tally'
  BY <1>1, <1>2, <1>4 DEF Typed, TypeOK
<1>8. TypeOK'
  BY <1>1, <1>5, <1>6, <1>7 DEF Typed, TypeOK, setting, results
<1>9. PooledOnce'
  <2>1. \A c \in pool : Norm[c.artist] # k /\ c.artist # name
    BY <1>1, <1>2 DEF Typed, PooledOnce
  <2>2. pool' \subseteq Candidate
    BY <1>1, <1>4 DEF Typed, PooledOnce
  <2>3. \A c \in pool' : c.artist = tally'[Norm[c.artist]].name /\ c.count = tally'[Norm[c.artist]].count
    BY <1>1, <1>2, <1>4 DEF Typed, PooledOnce
  <2>4. \A c, d \in pool' : c.artist = d.artist => c.tags = d.tags
    BY <1>1, <1>4, <2>1 DEF Typed, PooledOnce
  <2>5. pending' \subseteq DOMAIN tally' /\ \A c \in pool' : Norm[c.artist] \notin pending'
    BY <1>1, <1>2, <1>4 DEF Typed, PooledOnce
  <2> QED
    BY <1>1, <2>2, <2>3, <2>4, <2>5 DEF PooledOnce
<1>10. Unfilled' /\ TalliedOnce' /\ ScoredOnce'
  BY <1>1, <1>2 DEF Typed, Unfilled, TalliedOnce, ScoredOnce
<1> QED
  BY <1>1, <1>8, <1>9, <1>10 DEF Typed, CountsOf

LEMMA TypedInfo == ASSUME Typed, FetchInfo PROVE Typed'
<1>1. CASE Refuse
  <2>1. UNCHANGED <<setting, run>> /\ stage' = "idle" /\ pending' = {}
    BY <1>1 DEF FetchInfo, Refuse, Send
  <2>2. Booked'
    BY <1>1, TypedBooks DEF Booked, FetchInfo, Refuse
  <2> QED
    BY <2>1, <2>2, StaysTyped
<1>2. CASE ~Refuse
  <2>1. PICK top \in MostVoted : stage' = "info" /\ pending' = top
    BY <1>2 DEF FetchInfo, Send
  <2>2. /\ stage = "tracks"
        /\ UNCHANGED <<setting, custom, run, results, requests, fails, degraded>>
    BY <1>2 DEF FetchInfo
  <2>3. pending' \subseteq pool
    BY <2>1, CutsAreParts
  <2>4. UNCHANGED <<period, unknown, weights, entries, tally, pool, scored, profile, reply, cache>>
    BY <2>2 DEF setting, run, results
  <2>5. Known' = Known /\ Marks' = Marks /\ scored = << >>
    BY <2>2, <2>4, SameArtists, SameMarks DEF Typed, Unfilled
  <2>6. TypeOK'
    BY <2>1, <2>2, <2>3, <2>4, <2>5 DEF Typed, TypeOK
  <2>7. Unfilled' /\ TalliedOnce' /\ PooledOnce' /\ ScoredOnce'
    BY <2>1, <2>3, <2>4, <2>5 DEF Typed, Unfilled, TalliedOnce, PooledOnce, ScoredOnce
  <2> QED
    BY <2>4, <2>6, <2>7 DEF Typed, CountsOf
<1> QED
  BY <1>1, <1>2

-----------------------------------------------------------------------------
(* The scores.                                                             *)

Convictions == {(100 * c.count) \div Cardinality(SeedArtists(entries)) : c \in pool}
Entry == [track : Seeds, conviction : Convictions, composite : Nat, tags : Seq(Tags)]

(* A track that may be offered.                                            *)
Offerable(t) == Info[t].plays = 0 /\ Info[t].listeners <= Ceiling /\ Norm[t[1]] \notin Known

LEMMA EntryFields ==
    ASSUME NEW e \in Entry
    PROVE  e.track \in Seeds /\ e.conviction \in Convictions /\ e.composite \in Nat /\ e.tags \in Seq(Tags)
  BY DEF Entry

LEMMA CandidateFields ==
    ASSUME NEW c \in Candidate
    PROVE  c.artist \in Artists /\ c.title \in Titles /\ c.count \in Nat /\ c.tags \in Seq(Tags)
  BY DEF Candidate

(* A candidate scores once or not at all.                                  *)
LEMMA ScoreOf ==
    ASSUME Typed, NEW c \in pool
    PROVE  \/ score_candidate(c) = << >>
           \/ \E m \in Entry : score_candidate(c) = <<m>> /\ m.track = <<c.artist, c.title>> /\ Offerable(m.track)
<1> DEFINE t == <<c.artist, c.title>>
           info == Info[t]
           conv == (100 * c.count) \div Cardinality(SeedArtists(entries))
           tags == IF info.tags # << >> THEN info.tags ELSE c.tags
           stick == info.stickiness
           m == [track |-> t, conviction |-> conv, composite |-> c.count * stick, tags |-> tags]
<1>1. c.artist \in Artists /\ c.title \in Titles /\ c.count \in Nat /\ c.tags \in Seq(Tags)
  BY CandidateFields DEF Typed, PooledOnce
<1>2. t \in Seeds /\ Norm[t[1]] \notin Known
  BY <1>1 DEF Seeds, Typed, TypeOK
<1>3. conv \in Convictions
  BY DEF Convictions
<1> SUFFICES ASSUME ~(info = NoTrack \/ info.plays > 0 \/ info.listeners > Ceiling)
             PROVE  \E e \in Entry : score_candidate(c) = <<e>> /\ e.track = t /\ Offerable(e.track)
  BY Zenon DEF score_candidate
<1>4. {info.plays, info.listeners, stick} \subseteq Nat /\ info.tags \in Seq(Tags) /\ Ceiling \in Nat
  BY <1>2, TracksAssumption
<1>5. info.plays = 0 /\ info.listeners <= Ceiling
  BY <1>4
<1>6. score_candidate(c) = <<m>>
  BY Zenon DEF score_candidate
<1>7. c.count * stick \in Nat /\ tags \in Seq(Tags)
  <2>1. stick \in Nat
    BY <1>4
  <2> HIDE DEF stick
  <2> QED
    BY <1>1, <1>4, <2>1
<1>8. Offerable(t)
  BY <1>2, <1>5 DEF Offerable
<1> HIDE DEF t, conv, tags, stick
<1>9. m \in Entry /\ m.track = t
  BY <1>2, <1>3, <1>7 DEF Entry
<1> HIDE DEF m
<1> QED
  BY <1>6, <1>8, <1>9 DEF t

LEMMA MarksOffered == ASSUME Typed PROVE Marks \subseteq Entry /\ \A m \in Marks : Offerable(m.track)
<1> SUFFICES ASSUME NEW c \in pool, NEW m \in ToSet(score_candidate(c)) PROVE m \in Entry /\ Offerable(m.track)
  BY Zenon DEF Marks
<1> QED
  BY ScoreOf DEF ToSet

LEMMA TypedScore == ASSUME Typed, NEW c, InfoAnswer(c) PROVE Typed'
<1> DEFINE s == score_candidate(c)
<1>1. /\ stage = "info" /\ stage' = "info" /\ c \in pending /\ pending' = pending \ {c}
      /\ UNCHANGED <<setting, custom, weights, entries, tally, pool, profile, results, requests, fails, degraded>>
      /\ scored' = scored \o s
  BY DEF InfoAnswer, Send
<1>2. pending \subseteq pool /\ c \in pool
  BY <1>1 DEF Typed, TypeOK
<1>3. Known' = Known /\ Marks' = Marks
  BY <1>1, SameArtists, SameMarks
<1>4. s \in Seq(Marks) /\ Len(s) <= 1 /\ \A i \in DOMAIN s : i = 1 /\ s[i].track = <<c.artist, c.title>>
  <2>1. CASE s = << >>
    BY <2>1
  <2>2. ASSUME NEW m \in Entry, s = <<m>>, m.track = <<c.artist, c.title>>
        PROVE  s \in Seq(Marks) /\ Len(s) <= 1 /\ \A i \in DOMAIN s : i = 1 /\ s[i].track = <<c.artist, c.title>>
    <3>1. m \in ToSet(s)
      BY <2>2 DEF ToSet
    <3>2. m \in Marks
      BY <1>2, <3>1, Zenon DEF Marks
    <3> HIDE DEF s
    <3> QED
      BY <2>2, <3>2
  <2> QED
    BY <1>2, <2>1, <2>2, ScoreOf
<1> HIDE DEF s
<1>5. /\ scored \in Seq(Marks)
      /\ \A i, j \in DOMAIN scored : scored[i].track = scored[j].track => i = j
      /\ \A i \in DOMAIN scored, d \in pending : scored[i].track # <<d.artist, d.title>>
  BY <1>1 DEF Typed, ScoredOnce
<1>6. /\ scored' \in Seq(Marks) /\ Len(scored) \in Nat /\ Len(s) \in Nat
      /\ DOMAIN scored = 1..Len(scored) /\ DOMAIN scored' = 1..(Len(scored) + Len(s))
      /\ \A i \in DOMAIN scored : scored'[i] = scored[i]
      /\ \A i \in DOMAIN scored' \ DOMAIN scored : i = Len(scored) + 1 /\ scored'[i] = s[1] /\ 1 \in DOMAIN s
  BY <1>1, <1>4, <1>5
<1>7. \A i, j \in DOMAIN scored' : scored'[i].track = scored'[j].track => i = j
  <2> SUFFICES ASSUME NEW i \in DOMAIN scored', NEW j \in DOMAIN scored', scored'[i].track = scored'[j].track
               PROVE  i = j
    OBVIOUS
  <2>1. \A k \in DOMAIN scored' \ DOMAIN scored : scored'[k].track = <<c.artist, c.title>>
    BY <1>4, <1>6
  <2>2. \A k \in DOMAIN scored : scored'[k].track # <<c.artist, c.title>>
    BY <1>1, <1>5, <1>6
  <2>3. i \in DOMAIN scored <=> j \in DOMAIN scored
    BY <2>1, <2>2
  <2>4. CASE i \in DOMAIN scored
    BY <1>5, <1>6, <2>3, <2>4
  <2>5. CASE i \notin DOMAIN scored
    BY <1>6, <2>3, <2>5
  <2> QED
    BY <2>4, <2>5
<1>8. \A i \in DOMAIN scored', d \in pending' : scored'[i].track # <<d.artist, d.title>>
  <2> SUFFICES ASSUME NEW i \in DOMAIN scored', NEW d \in pending' PROVE scored'[i].track # <<d.artist, d.title>>
    OBVIOUS
  <2>1. d \in pending /\ d # c /\ d \in pool
    BY <1>1, <1>2
  <2>2. <<d.artist, d.title>> # <<c.artist, c.title>>
    <3> SUFFICES ASSUME d.artist = c.artist, d.title = c.title PROVE FALSE
      OBVIOUS
    <3>1. d.count = c.count /\ d.tags = c.tags /\ c \in Candidate /\ d \in Candidate
      BY <1>2, <2>1 DEF Typed, PooledOnce
    <3>2. c = d
      BY <3>1 DEF Candidate
    <3> QED
      BY <2>1, <3>2
  <2>3. CASE i \in DOMAIN scored
    BY <1>5, <1>6, <2>1, <2>3
  <2>4. CASE i \notin DOMAIN scored
    BY <1>4, <1>6, <2>2, <2>4
  <2> QED
    BY <2>3, <2>4
<1>9. TypeOK'
  BY <1>1, <1>2, <1>3 DEF Typed, TypeOK, setting, results
<1>10. Unfilled' /\ TalliedOnce' /\ PooledOnce' /\ CountsOf(profile, Tags)'
  BY <1>1 DEF Typed, Unfilled, TalliedOnce, PooledOnce, CountsOf
<1>11. ScoredOnce'
  BY <1>1, <1>3, <1>6, <1>7, <1>8 DEF ScoredOnce
<1> QED
  BY <1>1, <1>9, <1>10, <1>11 DEF Typed

-----------------------------------------------------------------------------
(* The profile.                                                            *)

LEMMA ArtistWeightIsCount == ASSUME Typed, NEW a PROVE ArtistWeight(a) \in Nat
<1> DEFINE I == {j \in DOMAIN entries : entries[j][1] = a}
           g == [i \in I |-> weights[entries[i]]]
<1>1. entries \in Seq(DOMAIN weights) /\ weights \in [DOMAIN weights -> Nat]
  BY DEF Typed, TypeOK
<1>2. I \subseteq DOMAIN entries
  OBVIOUS
<1>3. \A i \in I : g[i] \in Nat
  BY <1>1
<1>4. IsFiniteSet(I)
  <2> HIDE DEF I
  <2> QED
    BY <1>1, <1>2, VectorFinite
<1>5. DOMAIN g = I
  OBVIOUS
<1>6. ArtistWeight(a) = SumOf(g)
  BY DEF ArtistWeight
<1> HIDE DEF g, I
<1> QED
  BY <1>3, <1>4, <1>5, <1>6, SumIsNat DEF Counts

LEMMA TypedProfile == ASSUME Typed, NEW a \in Artists, ProfileAnswer(a) PROVE Typed'
<1> DEFINE tags == Take(ArtistTags[a], 5)
<1>1. /\ stage = "profile" /\ stage' = "profile"
      /\ UNCHANGED <<setting, custom, weights, entries, tally, pool, scored, results, requests, fails, degraded>>
      /\ profile' = Gained(profile, TagGain(tags, ArtistWeight(a)))
  BY DEF ProfileAnswer, Send
<1>2. tags \in Seq(Tags)
  <2>1. ArtistTags[a] \in Seq(Tags)
    BY TracksAssumption
  <2> QED
    BY <2>1, TakeElements
<1> HIDE DEF tags
<1>3. CountsOf(profile', Tags)
  BY <1>1, <1>2, ArtistWeightIsCount, TagGainCounts, GainedCounts DEF Typed
<1>4. Known' = Known /\ Marks' = Marks
  BY <1>1, SameArtists, SameMarks
<1>5. TypeOK'
  BY <1>1, <1>4 DEF Typed, TypeOK, setting, results
<1>6. Unfilled' /\ TalliedOnce' /\ PooledOnce' /\ ScoredOnce'
  BY <1>1, <1>4 DEF Typed, Unfilled, TalliedOnce, PooledOnce, ScoredOnce
<1> QED
  BY <1>1, <1>3, <1>5, <1>6 DEF Typed

-----------------------------------------------------------------------------
(* From the scored tracks to the reply.                                    *)

(* The tracks of t are tracks of s, each from a position of its own.       *)
Drawn(t, s) ==
    \E f \in [DOMAIN t -> DOMAIN s] :
        /\ \A k \in DOMAIN t : t[k].track = s[f[k]].track
        /\ \A k, l \in DOMAIN t : f[k] = f[l] => k = l

LEMMA DrawnTwice == ASSUME NEW s, NEW t, NEW u, Drawn(t, s), Drawn(u, t) PROVE Drawn(u, s)
<1>1. PICK f \in [DOMAIN t -> DOMAIN s] : /\ \A k \in DOMAIN t : t[k].track = s[f[k]].track
                                          /\ \A k, l \in DOMAIN t : f[k] = f[l] => k = l
  BY DEF Drawn
<1>2. PICK g \in [DOMAIN u -> DOMAIN t] : /\ \A k \in DOMAIN u : u[k].track = t[g[k]].track
                                          /\ \A k, l \in DOMAIN u : g[k] = g[l] => k = l
  BY DEF Drawn
<1> DEFINE h == [k \in DOMAIN u |-> f[g[k]]]
<1>3. h \in [DOMAIN u -> DOMAIN s]
  BY <1>1, <1>2
<1>4. \A k \in DOMAIN u : u[k].track = s[h[k]].track
  BY <1>1, <1>2
<1>5. \A k, l \in DOMAIN u : h[k] = h[l] => k = l
  BY <1>1, <1>2
<1> HIDE DEF h
<1> QED
  BY <1>3, <1>4, <1>5 DEF Drawn

LEMMA KeptDrawn ==
    ASSUME NEW T, NEW s \in Seq(T), NEW I, I \subseteq DOMAIN s
    PROVE  Kept(s, I) \in Seq(T) /\ Drawn(Kept(s, I), s)
<1> DEFINE t == Kept(s, I)
<1>1. /\ t \in Seq(T) /\ Len(t) = Cardinality(I) /\ Cardinality(I) \in 0..Len(s)
      /\ \E f : Along(t, s, I, f)
  BY KeptIsVector
<1> HIDE DEF t
<1>2. PICK f : Along(t, s, I, f)
  BY <1>1
<1>3. DOMAIN t = 1..Cardinality(I) /\ Cardinality(I) \in Nat
  BY <1>1
<1>4. f \in [DOMAIN t -> DOMAIN s] /\ \A k \in DOMAIN t : t[k] = s[f[k]]
  BY <1>2, <1>3 DEF Along, Increasing
<1>5. ASSUME NEW k \in DOMAIN t, NEW l \in DOMAIN t, f[k] = f[l] PROVE k = l
  <2>1. k \in Nat /\ l \in Nat /\ f[k] \in Nat /\ f[l] \in Nat
    BY <1>3, <1>4
  <2>2. k < l => f[k] < f[l]
    BY <1>2, <1>3 DEF Along, Increasing
  <2>3. l < k => f[l] < f[k]
    BY <1>2, <1>3 DEF Along, Increasing
  <2> QED
    BY <1>5, <2>1, <2>2, <2>3
<1>6. Drawn(t, s)
  BY <1>4, <1>5 DEF Drawn
<1> QED
  BY <1>1, <1>6 DEF t

LEMMA SameDrawn ==
    ASSUME NEW s, NEW t, DOMAIN t = DOMAIN s, \A i \in DOMAIN s : t[i].track = s[i].track
    PROVE  Drawn(t, s)
<1> DEFINE h == [i \in DOMAIN s |-> i]
<1>1. h \in [DOMAIN t -> DOMAIN s] /\ \A i \in DOMAIN s : h[i] = i
  OBVIOUS
<1> HIDE DEF h
<1> QED
  BY <1>1 DEF Drawn

(* Better is a ranking, and a sort by it is a permutation.                 *)
Ahead(s) == {p \in (DOMAIN s) \X (DOMAIN s) : Better(s[p[1]], s[p[2]])}

LEMMA AheadIsWeak == ASSUME NEW s \in Seq(Entry) PROVE WeakOrder(DOMAIN s, Ahead(s))
<1>1. \A i \in DOMAIN s : s[i].composite \in Nat
  BY ElementType, EntryFields
<1>2. \A i, j \in DOMAIN s : <<i, j>> \in Ahead(s) <=> s[i].composite > s[j].composite
  BY DEF Ahead, Better
<1>3. Ahead(s) \subseteq (DOMAIN s) \X (DOMAIN s)
  BY DEF Ahead
<1>4. \A i, j \in DOMAIN s : <<i, j>> \in Ahead(s) => <<j, i>> \notin Ahead(s)
  BY <1>1, <1>2
<1>5. \A i, j, k \in DOMAIN s : <<i, k>> \in Ahead(s) => <<i, j>> \in Ahead(s) \/ <<j, k>> \in Ahead(s)
  BY <1>1, <1>2
<1> QED
  BY <1>3, <1>4, <1>5 DEF WeakOrder

LEMMA SortedByIs == ASSUME NEW s PROVE SortedBy(s, Better) = Sorted(s, Ahead(s))
<1> DEFINE F(t) == Sorted(t, {p \in (DOMAIN t) \X (DOMAIN t) : Better(t[p[1]], t[p[2]])})
<1>1. {F(t) : t \in {s}} = {F(s)}
  OBVIOUS
<1>2. SortedBy(s, Better) = F(s)
  BY <1>1, OfOne DEF SortedBy
<1> QED
  BY <1>2 DEF Ahead

LEMMA SortedDrawn ==
    ASSUME NEW s \in Seq(Entry)
    PROVE  /\ SortedBy(s, Better) \in Seq(Entry) /\ Drawn(SortedBy(s, Better), s)
           /\ DOMAIN SortedBy(s, Better) = DOMAIN s
<1> DEFINE t == Sorted(s, Ahead(s))
           less == Ahead(s)
<1>1. t \in Seq(Entry) /\ DOMAIN t = DOMAIN s /\ \E f : Rearranged(t, s, f)
  <2>1. WeakOrder(DOMAIN s, less)
    BY AheadIsWeak
  <2> HIDE DEF less
  <2> QED
    BY <2>1, SortedElements DEF less
<1> HIDE DEF t
<1>2. Drawn(t, s)
  BY <1>1 DEF Rearranged, Drawn
<1> QED
  BY <1>1, <1>2, SortedByIs DEF t

(* The fit with the profile lifts a score and leaves the track.            *)
LEMMA UpliftIsEntry == ASSUME Typed, NEW a \in Entry PROVE uplift(a) \in Entry /\ uplift(a).track = a.track
<1> DEFINE full == Heaviest(profile)
           tags == a.tags
           g == [i \in DOMAIN tags |-> WeightOf(profile, tags[i])]
           more == 2 * full + Min({SumOf(g), full})
<1>1. a.composite \in Nat /\ tags \in Seq(Tags) /\ IsFiniteSet(Tags) /\ CountsOf(profile, Tags)
  BY EntryFields, TracksAssumption DEF Typed
<1>2. more \in Nat
  <2> HIDE DEF tags
  <2> QED
    BY <1>1, FactorCount
<1>3. uplift(a) = [a EXCEPT !.composite = @ * more]
  BY DEF uplift
<1> HIDE DEF more
<1>4. a.composite * more \in Nat
  BY <1>1, <1>2
<1> QED
  BY <1>3, <1>4 DEF Entry

Lifted(s) == Mapped(s, uplift)
Tagged(s, g) == Mapped(s, LAMBDA a : [track |-> a.track, genre |-> primary_genre(a, g)])
TracksIn(s) == Mapped(s, LAMBDA a : a.track)

LEMMA LiftedEntries ==
    ASSUME Typed, NEW s \in Seq(Entry)
    PROVE  Lifted(s) \in Seq(Entry) /\ Drawn(Lifted(s), s) /\ DOMAIN Lifted(s) = DOMAIN s
<1> DEFINE F(u) == [i \in DOMAIN u |-> uplift(u[i])] \o << >>
           t == [i \in DOMAIN s |-> uplift(s[i])]
<1>1. {F(u) : u \in {s}} = {F(s)}
  OBVIOUS
<1>2. Lifted(s) = t \o << >>
  BY <1>1, OfOne, Zenon DEF Lifted, Mapped
<1>3. \A i \in DOMAIN s : t[i] \in Entry /\ t[i].track = s[i].track
  BY ElementType, UpliftIsEntry
<1>4. DOMAIN s = 1..Len(s) /\ Len(s) \in Nat
  OBVIOUS
<1>5. t \in [1..Len(s) -> Entry]
  BY <1>3, <1>4
<1> HIDE DEF t
<1>6. t \in Seq(Entry) /\ DOMAIN t = DOMAIN s
  BY <1>4, <1>5
<1>7. Lifted(s) = t
  BY <1>2, <1>6, JoinedEmpty
<1> QED
  BY <1>3, <1>6, <1>7, SameDrawn

(* A ranked track with its genre.                                          *)
InGenre(g) == [track : Seeds, genre : {primary_genre(a, g) : a \in Entry}]

LEMMA TaggedElements ==
    ASSUME NEW s \in Seq(Entry), NEW g
    PROVE  Tagged(s, g) \in Seq(InGenre(g)) /\ Drawn(Tagged(s, g), s) /\ DOMAIN Tagged(s, g) = DOMAIN s
<1> DEFINE F(u) == [i \in DOMAIN u |-> [track |-> u[i].track, genre |-> primary_genre(u[i], g)]] \o << >>
           t == [i \in DOMAIN s |-> [track |-> s[i].track, genre |-> primary_genre(s[i], g)]]
<1>1. {F(u) : u \in {s}} = {F(s)}
  OBVIOUS
<1>2. Tagged(s, g) = t \o << >>
  BY <1>1, OfOne, Zenon DEF Tagged, Mapped
<1>3. \A i \in DOMAIN s : s[i] \in Entry /\ s[i].track \in Seeds
  BY ElementType, EntryFields
<1>4. \A i \in DOMAIN s : t[i] \in InGenre(g) /\ t[i].track = s[i].track
  BY <1>3 DEF InGenre
<1>5. DOMAIN s = 1..Len(s) /\ Len(s) \in Nat
  OBVIOUS
<1>6. t \in [1..Len(s) -> InGenre(g)]
  BY <1>4, <1>5
<1> HIDE DEF t
<1>7. t \in Seq(InGenre(g)) /\ DOMAIN t = DOMAIN s
  BY <1>5, <1>6
<1>8. Tagged(s, g) = t
  BY <1>2, <1>7, JoinedEmpty
<1> QED
  BY <1>4, <1>7, <1>8, SameDrawn

LEMMA TracksElements ==
    ASSUME NEW g, NEW s \in Seq(InGenre(g))
    PROVE  /\ TracksIn(s) \in Seq(Seeds) /\ DOMAIN TracksIn(s) = DOMAIN s
           /\ \A i \in DOMAIN s : TracksIn(s)[i] = s[i].track
<1> DEFINE F(u) == [i \in DOMAIN u |-> u[i].track] \o << >>
           t == [i \in DOMAIN s |-> s[i].track]
<1>1. {F(u) : u \in {s}} = {F(s)}
  OBVIOUS
<1>2. TracksIn(s) = t \o << >>
  BY <1>1, OfOne, Zenon DEF TracksIn, Mapped
<1>3. \A i \in DOMAIN s : s[i].track \in Seeds
  <2>1. \A i \in DOMAIN s : s[i] \in InGenre(g)
    BY ElementType
  <2>2. \A e \in InGenre(g) : e.track \in Seeds
    BY DEF InGenre
  <2> QED
    BY <2>1, <2>2
<1>4. DOMAIN s = 1..Len(s) /\ Len(s) \in Nat
  OBVIOUS
<1>5. t \in [1..Len(s) -> Seeds] /\ \A i \in DOMAIN s : t[i] = s[i].track
  BY <1>3, <1>4
<1> HIDE DEF t
<1>6. t \in Seq(Seeds) /\ DOMAIN t = DOMAIN s
  BY <1>4, <1>5
<1>7. TracksIn(s) = t
  BY <1>2, <1>6, JoinedEmpty
<1> QED
  BY <1>5, <1>6, <1>7

(* The positions with fewer than GenreSlots of the same genre before them; *)
(* the first is one of them.                                               *)
Above(t, i) == {j \in 1..(i - 1) : t[j].genre = t[i].genre}
Slots(t) == {i \in DOMAIN t : Cardinality(Above(t, i)) < GenreSlots}

LEMMA FirstHasSlot == ASSUME NEW T, NEW t \in Seq(T), t # << >> PROVE 1 \in Slots(t)
<1>1. 1 \in DOMAIN t
  OBVIOUS
<1>2. Above(t, 1) = {}
  BY DEF Above
<1>3. Cardinality(Above(t, 1)) = 0 /\ GenreSlots \in Nat \ {0}
  BY <1>2, FS_EmptySet, TracksAssumption
<1> QED
  BY <1>1, <1>3 DEF Slots

Ranked == SortedBy(Lifted(SortedBy(scored, Better)), Better)
Genred(g) == Tagged(Ranked, g)
Diverse(g) == Kept(Genred(g), Slots(Genred(g)))

LEMMA PostProcessIs == ASSUME NEW g PROVE post_process(g) = TracksIn(Take(Diverse(g), MaxResults))
<1> DEFINE F(t) == Kept(t, {i \in DOMAIN t :
                       Cardinality({j \in 1..(i - 1) : t[j].genre = t[i].genre}) < GenreSlots})
           tagged == Genred(g)
           diverse == Picked(tagged, LAMBDA t, i :
                       Cardinality({j \in 1..(i - 1) : t[j].genre = t[i].genre}) < GenreSlots)
<1>1. {F(t) : t \in {tagged}} = {F(tagged)}
  OBVIOUS
<1>2. diverse = F(tagged)
  BY <1>1, OfOne, Zenon DEF Picked
<1>3. post_process(g) = Mapped(Take(diverse, MaxResults), LAMBDA a : a.track)
  BY Zenon DEF post_process, Genred, Tagged, Ranked, Lifted
<1>4. post_process(g) = TracksIn(Take(diverse, MaxResults))
  BY <1>3, Zenon DEF TracksIn
<1> HIDE DEF tagged, diverse
<1>5. F(tagged) = Kept(tagged, Slots(tagged))
  BY DEF Slots, Above
<1> QED
  BY <1>2, <1>4, <1>5 DEF Diverse, tagged

LEMMA RankedEntries ==
    ASSUME Typed
    PROVE  Ranked \in Seq(Entry) /\ Drawn(Ranked, scored) /\ DOMAIN Ranked = DOMAIN scored
<1> DEFINE t == SortedBy(scored, Better)
           u == Lifted(t)
<1>1. scored \in Seq(Entry)
  <2>1. scored \in Seq(Marks) /\ Marks \subseteq Entry
    BY MarksOffered DEF Typed, ScoredOnce
  <2> HIDE DEF Entry, Marks
  <2> QED
    BY <2>1
<1>2. t \in Seq(Entry) /\ Drawn(t, scored) /\ DOMAIN t = DOMAIN scored
  BY <1>1, SortedDrawn
<1> HIDE DEF t
<1>3. u \in Seq(Entry) /\ Drawn(u, t) /\ DOMAIN u = DOMAIN t
  BY <1>2, LiftedEntries
<1> HIDE DEF u
<1>4. Ranked \in Seq(Entry) /\ Drawn(Ranked, u) /\ DOMAIN Ranked = DOMAIN u
  BY <1>3, SortedDrawn DEF Ranked, u, t
<1>5. Drawn(u, scored)
  BY <1>2, <1>3, DrawnTwice
<1> QED
  BY <1>2, <1>3, <1>4, <1>5, DrawnTwice

(* What a reply lists: scored tracks, each once; one when there is any.    *)
LEMMA ReplyListed ==
    ASSUME Typed, NEW g, NEW r, r = post_process(g)
    PROVE  /\ r \in Seq(Seeds)
           /\ \E f \in [DOMAIN r -> DOMAIN scored] :
                  /\ \A k \in DOMAIN r : r[k] = scored[f[k]].track
                  /\ \A k, l \in DOMAIN r : f[k] = f[l] => k = l
           /\ scored # << >> => r # << >>
<1> DEFINE t == Genred(g)
           I == Slots(t)
           u == Diverse(g)
           v == Take(u, MaxResults)
<1>1. t \in Seq(InGenre(g)) /\ Drawn(t, scored) /\ DOMAIN t = DOMAIN scored
  <2>1. t \in Seq(InGenre(g)) /\ Drawn(t, Ranked) /\ DOMAIN t = DOMAIN Ranked
    BY RankedEntries, TaggedElements DEF Genred
  <2> HIDE DEF t
  <2> QED
    BY <2>1, RankedEntries, DrawnTwice
<1>2. u = Kept(t, I) /\ I \subseteq DOMAIN t
  BY DEF Diverse, Slots
<1> HIDE DEF t, I, u
<1>3. /\ u \in Seq(InGenre(g)) /\ Drawn(u, t)
      /\ Len(u) = Cardinality(I) /\ Cardinality(I) \in 0..Len(t) /\ IsFiniteSet(I)
  BY <1>1, <1>2, KeptDrawn, KeptIsVector
<1>4. MaxResults \in Nat \ {0}
  BY TracksAssumption
<1>5. PICK k \in Nat : /\ k <= Len(u) /\ k <= MaxResults /\ (k = MaxResults \/ k = Len(u))
                       /\ v \in Seq(InGenre(g)) /\ Len(v) = k /\ DOMAIN v = 1..k
                       /\ \A i \in 1..k : v[i] = u[i]
  BY <1>3, <1>4, TakeElements
<1> HIDE DEF v
<1>6. Drawn(v, u)
  <2> DEFINE h == [i \in 1..k |-> i]
  <2>1. DOMAIN u = 1..Len(u) /\ Len(u) \in Nat
    BY <1>3
  <2>2. h \in [DOMAIN v -> DOMAIN u] /\ \A i \in DOMAIN v : h[i] = i
    BY <1>5, <2>1
  <2> HIDE DEF h
  <2> QED
    BY <1>5, <2>2 DEF Drawn
<1>7. Drawn(v, scored)
  BY <1>1, <1>3, <1>6, DrawnTwice
<1>8. r = TracksIn(v)
  BY PostProcessIs DEF u, v
<1>9. r \in Seq(Seeds) /\ DOMAIN r = DOMAIN v /\ \A i \in DOMAIN v : r[i] = v[i].track
  BY <1>5, <1>8, TracksElements
<1>10. ASSUME scored # << >> PROVE r # << >>
  <2>1. t # << >>
    <3>1. DOMAIN scored # {}
      <4>1. scored \in Seq(Marks)
        BY DEF Typed, ScoredOnce
      <4> QED
        BY <1>10, <4>1
    <3> QED
      BY <1>1, <3>1
  <2>2. 1 \in I
    BY <1>1, <2>1, FirstHasSlot DEF I
  <2>3. Cardinality(I) # 0
    BY <1>3, <2>2, FS_EmptySet
  <2>4. k # 0
    BY <1>3, <1>4, <1>5, <2>3
  <2>5. 1 \in DOMAIN r
    BY <1>5, <1>9, <2>4
  <2> QED
    BY <2>5
<1>11. PICK f \in [DOMAIN v -> DOMAIN scored] :
           /\ \A i \in DOMAIN v : v[i].track = scored[f[i]].track
           /\ \A i, j \in DOMAIN v : f[i] = f[j] => i = j
  BY <1>7 DEF Drawn
<1>12. /\ f \in [DOMAIN r -> DOMAIN scored]
       /\ \A i \in DOMAIN r : r[i] = scored[f[i]].track
       /\ \A i, j \in DOMAIN r : f[i] = f[j] => i = j
  BY <1>9, <1>11
<1> QED
  BY <1>9, <1>10, <1>12

LEMMA TypedReply == ASSUME Typed, Reply PROVE Typed'
<1>1. PICK g : reply' = post_process(g)
  BY Zenon DEF Reply
<1>2. /\ stage' = "idle" /\ pending' = {} /\ UNCHANGED <<setting, custom, run, requests, fails, degraded>>
      /\ cache' \in {reply', cache}
  BY DEF Reply, Send
<1>3. reply' \in Seq(Seeds) /\ cache' \in Seq(Seeds)
  BY <1>1, <1>2, ReplyListed DEF Typed, TypeOK
<1>4. Booked'
  BY <1>2, <1>3, TypedBooks DEF Booked
<1> QED
  BY <1>2, <1>4, StaysTyped

LEMMA TypedStep == ASSUME Typed, [Next]_vars PROVE Typed'
<1>1. ASSUME NEW own \in BOOLEAN, Ask(own) PROVE Typed'
  BY <1>1, TypedAsk
<1>2. ASSUME NEW w \in Windows, UserUnknown(w) PROVE Typed'
  <2>1. /\ UNCHANGED <<setting, custom, run, requests, fails, degraded>>
        /\ \/ stage' = stage /\ pending' = pending \ {w} /\ UNCHANGED results
           \/ stage' = "idle" /\ pending' = {} /\ reply' = << >> /\ UNCHANGED cache
    BY <1>2 DEF UserUnknown, Refuse, Send
  <2>2. Booked'
    <3>1. reply' \in Seq(Seeds) /\ cache' \in Seq(Seeds)
      BY <2>1, NoTracks DEF results, Typed, TypeOK
    <3> QED
      BY <2>1, <3>1, TypedBooks DEF Booked
  <2> QED
    BY <2>1, <2>2, StaysTyped
<1>3. ASSUME NEW c, CallFails(c) PROVE Typed'
  <2>1. /\ UNCHANGED <<setting, custom, run, requests>> /\ fails < MaxFails /\ fails' = fails + 1 /\ degraded' = TRUE
        /\ \/ stage' = stage /\ pending' = pending \ {c} /\ UNCHANGED results
           \/ stage' = "idle" /\ pending' = {} /\ reply' = << >> /\ UNCHANGED cache
    BY <1>3 DEF CallFails, Refuse, Send
  <2>2. fails' \in 0..MaxFails
    <3>1. fails \in 0..MaxFails /\ MaxFails \in Nat
      BY TracksAssumption DEF Typed, TypeOK
    <3> QED
      BY <2>1, <3>1
  <2>3. Booked'
    <3>1. reply' \in Seq(Seeds) /\ cache' \in Seq(Seeds)
      BY <2>1, NoTracks DEF results, Typed, TypeOK
    <3> QED
      BY <2>1, <2>2, <3>1, TypedBooks DEF Booked
  <2> QED
    BY <2>1, <2>3, StaysTyped
<1>4. ASSUME Expire PROVE Typed'
  <2>1. cache' = << >> /\ UNCHANGED <<setting, stage, pending, custom, run, reply, requests, fails, degraded>>
    BY <1>4 DEF Expire
  <2>2. Booked'
    BY <2>1, TypedBooks DEF Booked
  <2> QED
    BY <2>1, <2>2, StaysTyped
<1>5. ASSUME Profile PROVE Typed'
  <2>1. stage' = "profile" /\ UNCHANGED <<setting, custom, run, results, requests, fails, degraded>>
    BY <1>5, Zenon DEF Profile, Send
  <2>2. Booked'
    BY <2>1, TypedBooks DEF Booked, results
  <2> QED
    BY <2>1, <2>2, StaysTyped
<1>6. ASSUME UNCHANGED vars PROVE Typed'
  <2>1. UNCHANGED <<setting, stage, pending, custom, run, reply, cache, requests, fails, degraded>>
    BY <1>6 DEF vars, results
  <2>2. Booked'
    BY <2>1, TypedBooks DEF Booked
  <2> QED
    BY <2>1, <2>2, StaysTyped
<1> QED
  BY <1>1, <1>2, <1>3, <1>4, <1>5, <1>6, TypedChart, TypedSeeds, TypedSimilar, TypedExpand, TypedTracks,
     TypedInfo, TypedScore, TypedProfile, TypedReply DEF Next, Progress

LEMMA TypedAlways == Spec => []Typed
<1>1. Init => Typed
  <2> SUFFICES ASSUME Init PROVE Typed
    OBVIOUS
  <2>1. Empty \in [DOMAIN Empty -> Nat] /\ DOMAIN Empty = {}
    BY DEF Empty
  <2>2. << >> \in Seq(DOMAIN Empty) /\ << >> \in Seq(Seeds) /\ Len(<< >>) = 0
    OBVIOUS
  <2>3. {MaxSeeds, MaxRequests, MaxFails} \subseteq Nat
    BY TracksAssumption
  <2>4. TypeOK
    <3>1. entries \in Seq(DOMAIN weights) /\ Len(entries) <= MaxSeeds
      BY <2>2, <2>3 DEF Init
    <3>2. requests \in 0..MaxRequests /\ fails \in 0..MaxFails
      BY <2>3 DEF Init
    <3>3. DOMAIN weights = {} /\ DOMAIN tally = {} /\ pool = {} /\ reply = << >> /\ cache = << >>
      BY <2>1 DEF Init
    <3> QED
      BY <2>2, <3>1, <3>2, <3>3 DEF Init, TypeOK
  <2> QED
    BY <2>1, <2>4 DEF Init, Typed, Unfilled, TalliedOnce, PooledOnce, ScoredOnce, CountsOf
<1>2. Typed /\ [Next]_vars => Typed'
  BY TypedStep
<1> QED
  BY <1>1, <1>2, PTL DEF Spec

(* Every variable keeps its type: a call asks for a candidate of the pool, *)
(* every candidate has a count, none is of the artists of the seeds.       *)
THEOREM TracksTypes == Spec => []TypeOK
<1>1. Typed => TypeOK
  BY DEF Typed
<1> QED
  BY <1>1, TypedAlways, PTL

(* A vector without repetition has as many elements as it is long.         *)
LEMMA ElementsCounted ==
    ASSUME NEW T, NEW s \in Seq(T), \A k, l \in DOMAIN s : s[k] = s[l] => k = l
    PROVE  Cardinality(ToSet(s)) = Len(s)
<1> DEFINE V == ToSet(s)
<1>1. DOMAIN s = 1..Len(s) /\ Len(s) \in Nat /\ s \in [DOMAIN s -> V]
  BY DEF ToSet
<1>2. s \in Surjection(DOMAIN s, V)
  BY <1>1 DEF Surjection, ToSet
<1>3. s \in Injection(DOMAIN s, V)
  BY <1>1 DEF Injection, IsInjective
<1>4. IsFiniteSet(DOMAIN s) /\ Cardinality(DOMAIN s) = Len(s)
  <2>1. Len(s) \in Nat /\ DOMAIN s = 1..Len(s)
    BY <1>1
  <2> QED
    BY <2>1, FS_Interval
<1> HIDE DEF V
<1> QED
  BY <1>2, <1>3, <1>4, FS_Surjection DEF V

LEMMA ReplyIsSound ==
    ASSUME Typed, Reply
    PROVE  /\ Cardinality(ToSet(reply')) = Len(reply')
           /\ \A t \in ToSet(reply') : Offerable(t)
           /\ scored # << >> => reply' # << >>
<1>1. PICK g : reply' = post_process(g)
  BY Zenon DEF Reply
<1> DEFINE r == post_process(g)
<1>2. r \in Seq(Seeds) /\ scored # << >> => r # << >>
  BY ReplyListed
<1>3. PICK f \in [DOMAIN r -> DOMAIN scored] :
          /\ \A k \in DOMAIN r : r[k] = scored[f[k]].track
          /\ \A k, l \in DOMAIN r : f[k] = f[l] => k = l
  BY ReplyListed
<1>4. r \in Seq(Seeds)
  BY ReplyListed
<1> HIDE DEF r
<1>5. /\ \A i, j \in DOMAIN scored : scored[i].track = scored[j].track => i = j
      /\ \A i \in DOMAIN scored : Offerable(scored[i].track)
  <2>1. \A i \in DOMAIN scored : scored[i] \in Marks
    BY ElementType DEF Typed, ScoredOnce
  <2> QED
    BY <2>1, MarksOffered DEF Typed, ScoredOnce
<1>6. \A k, l \in DOMAIN r : r[k] = r[l] => k = l
  BY <1>3, <1>5
<1>7. Cardinality(ToSet(r)) = Len(r)
  BY <1>4, <1>6, ElementsCounted
<1>8. \A t \in ToSet(r) : Offerable(t)
  BY <1>3, <1>5 DEF ToSet
<1>9. scored # << >> => r # << >>
  BY ReplyListed DEF r
<1> QED
  BY <1>1, <1>7, <1>8, <1>9 DEF r

(* No reply lists a track twice, one that the user has played or that is   *)
(* too well known, or one by an artist of the seeds; and whoever has       *)
(* scored tracks gets some, whatever their genres are.                     *)
THEOREM RepliesAreSound == Spec => ReplySound
<1>1. Typed /\ [Next]_vars =>
          [stage = "profile" /\ stage' = "idle" =>
              /\ Cardinality(ToSet(reply')) = Len(reply')
              /\ \A t \in ToSet(reply') : /\ Info[t].plays = 0 /\ Info[t].listeners <= Ceiling
                                          /\ Norm[t[1]] \notin Known
              /\ scored # << >> => reply' # << >>]_vars
  <2> SUFFICES ASSUME Typed, [Next]_vars, stage = "profile", stage' = "idle"
               PROVE  /\ Cardinality(ToSet(reply')) = Len(reply')
                      /\ \A t \in ToSet(reply') : Offerable(t)
                      /\ scored # << >> => reply' # << >>
    BY Zenon DEF Offerable
  <2>1. Reply
    <3>1. ~UNCHANGED vars
      BY DEF vars
    <3>2. ~(\E own \in BOOLEAN : Ask(own)) /\ ~Expire
      BY DEF Ask, Expire
    <3>3. ~(\E w \in Windows : ChartAnswer(w) \/ UserUnknown(w)) /\ ~build_seeds
      BY DEF ChartAnswer, UserUnknown, build_seeds
    <3>4. ~(\E a \in Artists : SimilarAnswer(a) \/ ProfileAnswer(a))
      BY DEF SimilarAnswer, ProfileAnswer, Send
    <3>5. ~(\E k \in Keys, tagged \in BOOLEAN : TracksAnswer(k, tagged))
      BY DEF TracksAnswer, Send
    <3>6. ~(\E c \in pending : InfoAnswer(c) \/ CallFails(c))
      BY DEF InfoAnswer, CallFails, Send
    <3>7. ~Expand /\ ~FetchInfo /\ ~Profile
      BY Zenon DEF Expand, FetchInfo, Profile
    <3> QED
      BY <3>1, <3>2, <3>3, <3>4, <3>5, <3>6, <3>7 DEF Next, Progress
  <2> QED
    BY <2>1, ReplyIsSound
<1> QED
  BY <1>1, TypedAlways, PTL DEF Spec, ReplySound

-----------------------------------------------------------------------------
(* What the charts weigh.                                                  *)

ChartTracks(w) == {Chart[w][i].track : i \in DOMAIN Chart[w]}
Says(w, t) == IF Listed(w, t) = {} THEN 0 ELSE Weight(w, t)
SaysAll(windows, t) == [w \in windows |-> Says(w, t)]

LEMMA WeightsOfIs ==
    ASSUME NEW windows
    PROVE  /\ DOMAIN WeightsOf(windows) = UNION {ChartTracks(w) : w \in windows}
           /\ \A t \in DOMAIN WeightsOf(windows) : WeightsOf(windows)[t] = SumOf(SaysAll(windows, t))
           /\ WeightsOf(windows) = [t \in DOMAIN WeightsOf(windows) |-> WeightsOf(windows)[t]]
  BY DEF WeightsOf, ChartTracks, Says, SaysAll

LEMMA SaysCounts == ASSUME NEW windows \in SUBSET Windows, NEW t PROVE Counts(SaysAll(windows, t))
<1>1. IsFiniteSet(windows)
  BY FS_Subset, TracksAssumption
<1>2. \A w \in windows : Says(w, t) \in Nat
  BY WeightIsCount DEF Says
<1> QED
  BY <1>1, <1>2 DEF Counts, SaysAll

(* One more chart.                                                         *)
LEMMA SaysMore ==
    ASSUME NEW windows \in SUBSET Windows, NEW w \in Windows \ windows, NEW t
    PROVE  SumOf(SaysAll(windows \cup {w}, t)) = Says(w, t) + SumOf(SaysAll(windows, t))
<1> DEFINE g == SaysAll(windows \cup {w}, t)
           h == SaysAll(windows, t)
<1>1. Counts(g)
  BY SaysCounts
<1>2. w \in DOMAIN g /\ DOMAIN h = DOMAIN g \ {w} /\ \A x \in DOMAIN h : h[x] = g[x]
  BY DEF SaysAll
<1>3. g[w] = Says(w, t)
  BY DEF SaysAll
<1> HIDE DEF g, h
<1>4. SumOf(g) = g[w] + SumOf(h)
  BY <1>1, <1>2, SumOfMore
<1> QED
  BY <1>3, <1>4 DEF g, h

(* A track that no chart lists weighs nothing.                             *)
LEMMA SaysNothing ==
    ASSUME NEW windows \in SUBSET Windows, NEW t, t \notin DOMAIN WeightsOf(windows)
    PROVE  SumOf(SaysAll(windows, t)) = 0
<1>1. \A w \in windows : Listed(w, t) = {}
  <2>1. \A w \in windows : t \notin ChartTracks(w)
    BY WeightsOfIs
  <2> QED
    BY <2>1 DEF Listed, ChartTracks
<1> DEFINE g == SaysAll(windows, t)
<1>2. IsFiniteSet(DOMAIN g) /\ \A w \in DOMAIN g : g[w] = 0
  <2>1. Counts(g)
    BY SaysCounts
  <2> QED
    BY <1>1, <2>1 DEF Counts, SaysAll, Says
<1> HIDE DEF g
<1> QED
  BY <1>2, SumOfNoughts DEF g

(* The answer of one more window: its tracks, and what they weigh together *)
(* with the windows before.  A single period asks for one window only.     *)
LEMMA WeightsOfMore ==
    ASSUME NEW windows \in SUBSET Windows, NEW w \in Windows \ windows, Blend \/ windows = {}
    PROVE  LET old == WeightsOf(windows)
           IN  WeightsOf(windows \cup {w}) =
                   [t \in DOMAIN old \cup ChartTracks(w) |->
                       IF Listed(w, t) = {} THEN old[t]
                       ELSE Weight(w, t) + IF Blend THEN WeightOf(old, t) ELSE 0]
<1> DEFINE old == WeightsOf(windows)
           new == WeightsOf(windows \cup {w})
           more(t) == IF Listed(w, t) = {} THEN old[t]
                      ELSE Weight(w, t) + IF Blend THEN WeightOf(old, t) ELSE 0
<1>1. DOMAIN new = DOMAIN old \cup ChartTracks(w)
  <2>1. DOMAIN new = UNION {ChartTracks(x) : x \in windows \cup {w}}
    BY WeightsOfIs
  <2>2. DOMAIN old = UNION {ChartTracks(x) : x \in windows}
    BY WeightsOfIs
  <2> HIDE DEF new, old
  <2> QED
    BY <2>1, <2>2
<1>2. ASSUME NEW t \in DOMAIN old \cup ChartTracks(w) PROVE new[t] = more(t)
  <2> DEFINE sum == SumOf(SaysAll(windows, t))
  <2>1. new[t] = Says(w, t) + sum
    <3>1. new[t] = SumOf(SaysAll(windows \cup {w}, t))
      BY <1>1, <1>2, WeightsOfIs
    <3>2. SumOf(SaysAll(windows \cup {w}, t)) = Says(w, t) + sum
      BY SaysMore
    <3> HIDE DEF new, sum
    <3> QED
      BY <3>1, <3>2
  <2>2. sum \in Nat
    BY SaysCounts, SumIsNat
  <2>3. t \in DOMAIN old => old[t] = sum
    BY WeightsOfIs
  <2>4. t \notin DOMAIN old => sum = 0
    BY SaysNothing
  <2>5. CASE Listed(w, t) = {}
    <3>1. t \in DOMAIN old
      BY <1>2, <2>5 DEF Listed, ChartTracks
    <3> HIDE DEF old, new, sum
    <3> QED
      BY <2>1, <2>2, <2>3, <2>5, <3>1 DEF Says
  <2>6. CASE Listed(w, t) # {} /\ Blend
    <3>1. WeightOf(old, t) = sum
      BY <2>3, <2>4 DEF WeightOf
    <3> HIDE DEF old, new, sum
    <3> QED
      BY <2>1, <2>6, <3>1 DEF Says
  <2>7. CASE Listed(w, t) # {} /\ ~Blend
    <3>1. t \notin DOMAIN old
      BY <2>7, WeightsOfIs
    <3>2. sum = 0 /\ Weight(w, t) \in Nat
      BY <2>4, <2>7, <3>1, WeightIsCount
    <3> HIDE DEF old, new, sum
    <3> QED
      BY <2>1, <2>7, <3>2 DEF Says
  <2> QED
    BY <2>5, <2>6, <2>7
<1>3. new = [t \in DOMAIN new |-> new[t]]
  BY WeightsOfIs
<1> HIDE DEF new, more
<1>4. new = [t \in DOMAIN old \cup ChartTracks(w) |-> more(t)]
  BY <1>1, <1>2, <1>3
<1> QED
  BY <1>4 DEF new, more

LEMMA WeightsOfNone == WeightsOf({}) = Empty
  BY DEF WeightsOf, Empty

LEMMA SameWeights ==
    ASSUME UNCHANGED period
    PROVE  /\ Asked' = Asked /\ WeightsOf(Asked)' = WeightsOf(Asked)
           /\ WeightsOf(Asked \ pending)' = WeightsOf(Asked \ pending')
  BY DEF WeightsOf, Weight, Blend, Asked

LEMMA WeighedStays ==
    ASSUME Weighed, UNCHANGED <<setting, weights>>, degraded => degraded',
           \/ stage' = "idle"
           \/ stage \in Running /\ stage' \in Running
           \/ stage = "charts" /\ stage' = "charts" /\ pending' \subseteq pending
              /\ (unknown \/ degraded' \/ pending' = pending)
    PROVE  Weighed'
<1>1. UNCHANGED <<period, unknown, weights>>
  BY DEF setting
<1>2. /\ Asked' = Asked /\ WeightsOf(Asked)' = WeightsOf(Asked)
      /\ WeightsOf(Asked \ pending)' = WeightsOf(Asked \ pending')
  BY <1>1, SameWeights
<1>3. unknown' => weights' = Empty /\ stage' \notin Running
  BY <1>1 DEF Weighed, Running
<1>4. stage' = "charts" => pending' \subseteq Asked'
  BY <1>2 DEF Weighed, Running
<1>5. ASSUME ~unknown', ~degraded', stage' = "charts" PROVE weights' = WeightsOf(Asked \ pending)'
  BY <1>1, <1>2, <1>5 DEF Weighed, Running
<1>6. ASSUME ~unknown', ~degraded', stage' \in Running PROVE weights' = WeightsOf(Asked)'
  BY <1>1, <1>2, <1>6 DEF Weighed, Running
<1> QED
  BY <1>3, <1>4, <1>5, <1>6 DEF Weighed

LEMMA WeighedChart == ASSUME Typed, Weighed, NEW w \in Windows, ChartAnswer(w) PROVE Weighed'
<1>1. /\ stage = "charts" /\ stage' = "charts" /\ w \in pending /\ pending' = pending \ {w} /\ ~unknown
      /\ UNCHANGED <<period, unknown, degraded>>
      /\ weights' = [t \in DOMAIN weights \cup ChartTracks(w) |->
             IF Listed(w, t) = {} THEN weights[t]
             ELSE Weight(w, t) + IF Blend THEN WeightOf(weights, t) ELSE 0]
  BY DEF ChartAnswer, Send, setting, ChartTracks
<1>2. /\ Asked' = Asked /\ WeightsOf(Asked \ pending)' = WeightsOf(Asked \ pending')
  BY <1>1, SameWeights
<1>3. pending \subseteq Asked /\ Asked \subseteq Windows /\ (~Blend => Asked = {period})
  BY <1>1, AskedWindows DEF Weighed
<1>4. ASSUME ~degraded' PROVE weights' = WeightsOf(Asked \ pending')
  <2> DEFINE windows == Asked \ pending
  <2>1. weights = WeightsOf(windows)
    BY <1>1, <1>4 DEF Weighed
  <2>2. windows \in SUBSET Windows /\ w \in Windows \ windows /\ (Blend \/ windows = {})
    BY <1>1, <1>3
  <2>3. Asked \ pending' = windows \cup {w}
    BY <1>1, <1>3
  <2> HIDE DEF windows
  <2>4. weights' = WeightsOf(windows \cup {w})
    BY <1>1, <2>1, <2>2, WeightsOfMore
  <2> QED
    BY <2>3, <2>4
<1> QED
  BY <1>1, <1>2, <1>3, <1>4 DEF Weighed, Running

LEMMA WeighedStep == ASSUME Typed, Weighed, [Next]_vars PROVE Weighed'
<1>1. ASSUME NEW own \in BOOLEAN, Ask(own) PROVE Weighed'
  <2>1. CASE UNCHANGED <<stage, pending, run, degraded>>
    <3>1. UNCHANGED <<setting, weights>> /\ stage' = "idle"
      BY <1>1, <2>1 DEF Ask, run
    <3> QED
      BY <2>1, <3>1, WeighedStays
  <2>2. CASE Send("charts", Asked) /\ Fresh
    <3>1. stage' = "charts" /\ pending' = Asked /\ weights' = Empty /\ UNCHANGED <<period, unknown>>
      BY <1>1, <2>2 DEF Ask, Send, Fresh, setting
    <3>2. /\ Asked' = Asked /\ WeightsOf(Asked \ pending)' = WeightsOf(Asked \ pending')
      BY <3>1, SameWeights
    <3>3. Asked \ pending' = {}
      BY <3>1
    <3>4. weights' = WeightsOf(Asked \ pending)'
      BY <3>1, <3>2, <3>3, WeightsOfNone
    <3> QED
      BY <3>1, <3>2, <3>4 DEF Weighed, Running
  <2> QED
    BY <1>1, <2>1, <2>2 DEF Ask
<1>2. ASSUME build_seeds PROVE Weighed'
  <2>1. /\ stage = "charts" /\ pending = {} /\ UNCHANGED <<period, unknown, weights, degraded>>
        /\ \/ stage' = "idle"
           \/ stage' = "similar" /\ weights # Empty
    BY <1>2 DEF build_seeds, Refuse, Send, setting
  <2>2. CASE stage' = "idle"
    <3>1. UNCHANGED <<setting, weights>> /\ (degraded => degraded')
      BY <2>1 DEF setting
    <3> QED
      BY <2>2, <3>1, WeighedStays
  <2>3. CASE stage' = "similar" /\ weights # Empty
    <3>1. Asked \ pending = Asked /\ ~unknown
      BY <2>1, <2>3 DEF Weighed
    <3>2. WeightsOf(Asked)' = WeightsOf(Asked)
      BY <2>1, SameWeights
    <3> QED
      BY <2>1, <2>3, <3>1, <3>2 DEF Weighed, Running
  <2> QED
    BY <2>1, <2>2, <2>3
<1>3. ASSUME NEW w \in Windows, UserUnknown(w) PROVE Weighed'
  <2>1. /\ stage = "charts" /\ UNCHANGED <<setting, weights, degraded>> /\ unknown
        /\ \/ stage' = "idle"
           \/ stage' = "charts" /\ pending' \subseteq pending
    BY <1>3 DEF UserUnknown, Refuse, Send, run
  <2> QED
    BY <2>1, WeighedStays
<1>4. ASSUME NEW c, CallFails(c) PROVE Weighed'
  <2>1. /\ UNCHANGED <<setting, weights>> /\ degraded' = TRUE
        /\ \/ stage' = "idle"
           \/ stage' = stage /\ pending' \subseteq pending
    BY <1>4 DEF CallFails, Refuse, Send, run
  <2>2. stage' = stage => stage \in Running \/ stage \in {"idle", "charts"}
    BY DEF Typed, TypeOK, Running
  <2> QED
    BY <2>1, <2>2, WeighedStays
<1>5. ASSUME \/ \E a \in Artists : SimilarAnswer(a) \/ ProfileAnswer(a)
             \/ \E k \in Keys, tagged \in BOOLEAN : TracksAnswer(k, tagged)
             \/ \E c \in pending : InfoAnswer(c)
             \/ Expand \/ FetchInfo \/ Profile \/ Reply
      PROVE  Weighed'
  <2>1. /\ UNCHANGED <<setting, weights>> /\ (degraded => degraded')
        /\ stage \in Running /\ stage' \in Running \cup {"idle"}
    <3>1. ASSUME NEW a \in Artists, SimilarAnswer(a) \/ ProfileAnswer(a)
          PROVE  /\ UNCHANGED <<setting, weights, degraded>> /\ stage \in Running /\ stage' = stage
      BY <3>1 DEF SimilarAnswer, ProfileAnswer, Send, Running
    <3>2. ASSUME NEW k \in Keys, NEW tagged \in BOOLEAN, TracksAnswer(k, tagged)
          PROVE  UNCHANGED <<setting, weights>> /\ (degraded => degraded') /\ stage \in Running /\ stage' = stage
      BY <3>2 DEF TracksAnswer, Send, Running
    <3>3. ASSUME NEW c, InfoAnswer(c)
          PROVE  UNCHANGED <<setting, weights, degraded>> /\ stage \in Running /\ stage' = stage
      BY <3>3 DEF InfoAnswer, Send, Running
    <3>4. ASSUME Expand \/ FetchInfo \/ Profile \/ Reply
          PROVE  UNCHANGED <<setting, run, degraded>> /\ stage \in Running /\ stage' \in Running \cup {"idle"}
      BY <3>4, Zenon DEF Expand, FetchInfo, Profile, Reply, Refuse, Send, Running
    <3> QED
      BY <1>5, <3>1, <3>2, <3>3, <3>4 DEF run
  <2> QED
    BY <2>1, WeighedStays
<1>6. ASSUME Expire \/ UNCHANGED vars PROVE Weighed'
  <2>1. UNCHANGED <<setting, stage, pending, run, degraded>>
    BY <1>6 DEF Expire, vars
  <2>2. UNCHANGED <<setting, weights>> /\ (stage \in Running \/ stage \in {"idle", "charts"})
    BY <2>1 DEF run, Typed, TypeOK, Running
  <2> QED
    BY <2>1, <2>2, WeighedStays
<1> QED
  BY <1>1, <1>2, <1>3, <1>4, <1>5, <1>6, WeighedChart DEF Next, Progress

-----------------------------------------------------------------------------
(* Who leads to whom.                                                      *)

LEMMA SeedArtistsAre == ASSUME NEW s \in Seq(Seeds) PROVE SeedArtists(s) \subseteq Artists
<1> DEFINE F(t) == Kept(t, {i \in DOMAIN t : \A j \in 1..(i - 1) : Norm[t[j][1]] # Norm[t[i][1]]})
           I == {i \in DOMAIN s : \A j \in 1..(i - 1) : Norm[s[j][1]] # Norm[s[i][1]]}
           first == Picked(s, LAMBDA t, i : \A j \in 1..(i - 1) : Norm[t[j][1]] # Norm[t[i][1]])
<1>1. {F(t) : t \in {s}} = {F(s)}
  OBVIOUS
<1>2. first = Kept(s, I)
  BY <1>1, OfOne, Zenon DEF Picked
<1>3. I \subseteq DOMAIN s
  OBVIOUS
<1>4. SeedArtists(s) = {e[1] : e \in ToSet(Take(first, MaxSeedArtists))}
  BY Zenon DEF SeedArtists
<1> HIDE DEF first, I
<1>5. first \in Seq(Seeds)
  BY <1>2, <1>3, KeptIsVector
<1>6. Take(first, MaxSeedArtists) \in Seq(Seeds)
  <2>1. MaxSeedArtists \in Nat
    BY TracksAssumption
  <2> QED
    BY <1>5, <2>1, TakeElements
<1>7. ToSet(Take(first, MaxSeedArtists)) \subseteq Seeds
  BY <1>6 DEF ToSet
<1>8. \A e \in Seeds : e[1] \in Artists
  BY DEF Seeds
<1> QED
  BY <1>4, <1>7, <1>8

LEMMA SeedsAreArtists == ASSUME Typed PROVE SeedArtists(entries) \subseteq Artists /\ IsFiniteSet(SeedArtists(entries))
<1>1. entries \in Seq(DOMAIN weights) /\ DOMAIN weights \subseteq Seeds
  BY DEF Typed, TypeOK
<1>2. entries \in Seq(Seeds)
  <2> DEFINE S == Seeds
  <2> HIDE DEF S
  <2>1. entries \in Seq(S)
    BY <1>1 DEF S
  <2> QED
    BY <2>1 DEF S
<1>3. SeedArtists(entries) \in SUBSET Artists
  BY <1>2, SeedArtistsAre
<1> QED
  BY <1>3, FS_Subset, TracksAssumption

Ballot(a, k) == {a} \X Spelling(k, Similar[a])

LEMMA VotesAre == ASSUME NEW seeds, NEW k PROVE Votes(seeds, k) = UNION {Ballot(a, k) : a \in seeds}
  BY DEF Votes, Ballot

LEMMA BallotFinite ==
    ASSUME NEW a \in Artists, NEW k
    PROVE  /\ IsFiniteSet(Ballot(a, k)) /\ Cardinality(Ballot(a, k)) = Cardinality(Spelling(k, Similar[a]))
           /\ Ballot(a, k) # {} <=> Spelling(k, Similar[a]) # {}
           /\ \A b : b # a => Ballot(a, k) \cap Ballot(b, k) = {}
<1> DEFINE S == Spelling(k, Similar[a])
<1>1. IsFiniteSet(S) /\ Cardinality(S) \in Nat
  BY SpellingNames
<1>2. IsFiniteSet({a}) /\ Cardinality({a}) = 1
  BY FS_Singleton
<1>3. \A b : b # a => Ballot(a, k) \cap Ballot(b, k) = {}
  BY DEF Ballot
<1>4. Ballot(a, k) = {a} \X S
  BY DEF Ballot
<1> HIDE DEF S
<1>5. IsFiniteSet({a} \X S) /\ Cardinality({a} \X S) = 1 * Cardinality(S)
  BY <1>1, <1>2, FS_Product
<1>6. {a} \X S # {} <=> S # {}
  <2>1. ASSUME NEW x \in S PROVE <<a, x>> \in {a} \X S
    OBVIOUS
  <2>2. ASSUME NEW p \in {a} \X S PROVE p[2] \in S
    OBVIOUS
  <2> QED
    BY <2>1, <2>2
<1>7. Cardinality({a} \X S) = Cardinality(S)
  BY <1>1, <1>5
<1> QED
  BY <1>3, <1>4, <1>5, <1>6, <1>7 DEF S

LEMMA VotesFinite ==
    ASSUME NEW seeds \in SUBSET Artists, NEW k
    PROVE  IsFiniteSet(Votes(seeds, k)) /\ Cardinality(Votes(seeds, k)) \in Nat
<1> DEFINE f == [a \in seeds |-> Ballot(a, k)]
           V == {Ballot(a, k) : a \in seeds}
<1>1. IsFiniteSet(seeds)
  BY FS_Subset, TracksAssumption
<1>2. DOMAIN f = seeds /\ (\A v \in V : \E a \in seeds : f[a] = v) /\ (\A a \in seeds : f[a] \in V)
  OBVIOUS
<1>3. \A v \in V : IsFiniteSet(v)
  BY BallotFinite
<1>4. Votes(seeds, k) = UNION V
  BY VotesAre
<1> HIDE DEF f, V
<1>5. IsFiniteSet(V)
  BY <1>1, <1>2, ValuesFinite
<1>6. IsFiniteSet(UNION V)
  BY <1>3, <1>5, FS_UNION
<1> QED
  BY <1>4, <1>6, FS_CardinalityType

(* One more seed adds its own votes.                                       *)
LEMMA VotesMore ==
    ASSUME NEW seeds \in SUBSET Artists, NEW a \in Artists \ seeds, NEW k
    PROVE  /\ Cardinality(Votes(seeds \cup {a}, k)) =
                  Cardinality(Votes(seeds, k)) + Cardinality(Spelling(k, Similar[a]))
           /\ Votes(seeds \cup {a}, k) # {} <=> Votes(seeds, k) # {} \/ Spelling(k, Similar[a]) # {}
<1> DEFINE V == Votes(seeds, k)
           B == Ballot(a, k)
           W == Votes(seeds \cup {a}, k)
<1>1. W = V \cup B
  BY VotesAre
<1>2. V \cap B = {}
  <2>1. \A b \in seeds : Ballot(b, k) \cap B = {}
    BY BallotFinite
  <2> HIDE DEF B
  <2> QED
    BY <2>1, VotesAre
<1>3. IsFiniteSet(V) /\ Cardinality(V) \in Nat
  BY VotesFinite
<1>4. /\ IsFiniteSet(B) /\ Cardinality(B) = Cardinality(Spelling(k, Similar[a]))
      /\ B # {} <=> Spelling(k, Similar[a]) # {}
  BY BallotFinite
<1> HIDE DEF V, B, W
<1>5. Cardinality(V \cap B) = 0
  BY <1>2, FS_EmptySet
<1>6. Cardinality(V \cup B) = Cardinality(V) + Cardinality(B) - Cardinality(V \cap B)
  BY <1>3, <1>4, FS_Union
<1>7. Cardinality(B) \in Nat
  BY <1>4, FS_CardinalityType
<1>8. Cardinality(W) = Cardinality(V) + Cardinality(B)
  BY <1>1, <1>3, <1>5, <1>6, <1>7
<1> QED
  BY <1>1, <1>4, <1>8 DEF V, W

LEMMA VotesOfNone == ASSUME NEW k PROVE Votes({}, k) = {}
  BY DEF Votes

(* A part of the seeds has a part of the votes.                            *)
LEMMA VotesOfSome ==
    ASSUME NEW all \in SUBSET Artists, NEW seeds \in SUBSET all, NEW k
    PROVE  /\ Votes(seeds, k) \subseteq Votes(all, k)
           /\ Cardinality(Votes(seeds, k)) <= Cardinality(Votes(all, k))
<1>1. Votes(seeds, k) \in SUBSET Votes(all, k)
  BY VotesAre
<1>2. IsFiniteSet(Votes(all, k))
  BY VotesFinite
<1> QED
  BY <1>1, <1>2, FS_Subset

LEMMA SameCounted ==
    ASSUME UNCHANGED <<entries, tally>>
    PROVE  /\ SeedArtists(entries)' = SeedArtists(entries)
           /\ \A seeds : Counted(seeds)' <=> Counted(seeds)
<1>1. SeedArtists(entries)' = SeedArtists(entries) /\ Known' = Known /\ tally' = tally
  BY SameArtists
<1> QED
  BY <1>1, Zenon DEF Counted

LEMMA VotersStay ==
    ASSUME Voters, UNCHANGED <<entries, tally>>, degraded => degraded',
           \/ stage' \notin Running
           \/ stage \in Running \ {"similar"} /\ stage' \in Running \ {"similar"}
           \/ stage = "similar" /\ pending = {} /\ stage' = "tracks"
           \/ stage = "similar" /\ stage' = "similar" /\ pending' \subseteq pending
              /\ (degraded' \/ pending' = pending)
    PROVE  Voters'
<1> DEFINE all == SeedArtists(entries)
<1>1. all' = all /\ \A seeds : Counted(seeds)' <=> Counted(seeds)
  BY SameCounted
<1>2. ASSUME NEW seeds, seeds \subseteq all \ pending', Counted(seeds), ~degraded' => seeds = all \ pending',
             pending' \subseteq all, stage' = "similar"
      PROVE  Voters'
  <2>1. stage' \notin Running \ {"similar"}
    BY <1>2
  <2>2. seeds \in SUBSET (all' \ pending') /\ Counted(seeds)' /\ (~degraded' => seeds = all' \ pending')
    BY <1>1, <1>2
  <2>3. pending' \subseteq all'
    BY <1>1, <1>2
  <2> HIDE DEF all
  <2> QED
    BY <2>1, <2>2, <2>3 DEF Voters, all
<1>3. ASSUME NEW seeds, seeds \subseteq all, Counted(seeds), ~degraded' => seeds = all, stage' # "similar"
      PROVE  Voters'
  <2>1. seeds \in SUBSET all' /\ Counted(seeds)' /\ (~degraded' => seeds = all')
    BY <1>1, <1>3
  <2> HIDE DEF all
  <2> QED
    BY <1>3, <2>1 DEF Voters, all
<1>4. CASE stage' \notin Running
  BY <1>4 DEF Voters, Running
<1>5. CASE stage \in Running \ {"similar"} /\ stage' \in Running \ {"similar"}
  <2>1. PICK seeds \in SUBSET all : Counted(seeds) /\ (~degraded => seeds = all)
    BY <1>5 DEF Voters
  <2> QED
    BY <1>3, <1>5, <2>1
<1>6. CASE stage = "similar" /\ pending = {} /\ stage' = "tracks"
  <2>1. PICK seeds \in SUBSET (all \ pending) : Counted(seeds) /\ (~degraded => seeds = all \ pending)
    BY <1>6 DEF Voters
  <2> QED
    BY <1>3, <1>6, <2>1
<1>7. CASE /\ stage = "similar" /\ stage' = "similar" /\ pending' \subseteq pending
           /\ (degraded' \/ pending' = pending)
  <2>1. PICK seeds \in SUBSET (all \ pending) : Counted(seeds) /\ (~degraded => seeds = all \ pending)
    BY <1>7 DEF Voters
  <2>2. pending \subseteq all
    BY <1>7 DEF Voters
  <2> QED
    BY <1>2, <1>7, <2>1, <2>2
<1> QED
  BY <1>4, <1>5, <1>6, <1>7

(* The votes of a seed are counted with those before it.                   *)
LEMMA VotersSimilar == ASSUME Typed, Voters, NEW a \in Artists, SimilarAnswer(a) PROVE Voters'
<1> DEFINE all == SeedArtists(entries)
           keys == {Norm[s] : s \in ToSet(Similar[a])} \ Known
           heard(k) == Cardinality(Spelling(k, Similar[a]))
<1>1. /\ stage = "similar" /\ stage' = "similar" /\ a \in pending /\ pending' = pending \ {a}
      /\ UNCHANGED <<entries, degraded>> /\ DOMAIN tally' = DOMAIN tally \cup keys
      /\ \A k \in DOMAIN tally : tally'[k] = [tally[k] EXCEPT !.count = @ + heard(k)]
      /\ \A k \in keys \ DOMAIN tally : tally'[k].count = heard(k)
  BY DEF SimilarAnswer, Send, Voted
<1>2. /\ pending \subseteq all /\ all \subseteq Artists
      /\ all' = all /\ Known' = Known
  BY <1>1, SeedsAreArtists, SameArtists DEF Voters
<1>3. PICK seeds \in SUBSET (all \ pending) : Counted(seeds) /\ (~degraded => seeds = all \ pending)
  BY <1>1 DEF Voters
<1> DEFINE more == seeds \cup {a}
<1>4. seeds \in SUBSET Artists /\ a \in Artists \ seeds /\ more \in SUBSET Artists
  BY <1>1, <1>2, <1>3
<1>5. more \in SUBSET (all \ pending') /\ (~degraded' => more = all \ pending')
  BY <1>1, <1>2, <1>3
<1>6. ASSUME NEW k
      PROVE  /\ Cardinality(Votes(more, k)) = Cardinality(Votes(seeds, k)) + heard(k)
             /\ Votes(more, k) # {} <=> Votes(seeds, k) # {} \/ Spelling(k, Similar[a]) # {}
             /\ Cardinality(Votes(seeds, k)) \in Nat /\ heard(k) \in Nat
             /\ k \in keys <=> Spelling(k, Similar[a]) # {} /\ k \notin Known
             /\ Spelling(k, Similar[a]) # {} => k \in Keys
  <2>1. /\ Cardinality(Votes(more, k)) = Cardinality(Votes(seeds, k)) + heard(k)
        /\ Votes(more, k) # {} <=> Votes(seeds, k) # {} \/ Spelling(k, Similar[a]) # {}
    BY <1>4, VotesMore
  <2>2. Cardinality(Votes(seeds, k)) \in Nat
    BY <1>4, VotesFinite
  <2>3. /\ heard(k) \in Nat /\ (k \in keys <=> Spelling(k, Similar[a]) # {} /\ k \notin Known)
    BY SpellingNames
  <2>4. ASSUME Spelling(k, Similar[a]) # {} PROVE k \in Keys
    <3>1. PICK i \in Spelling(k, Similar[a]) : TRUE
      BY <2>4
    <3>2. i \in DOMAIN Similar[a] /\ Norm[Similar[a][i]] = k
      BY <3>1 DEF Spelling
    <3>3. Norm[Similar[a][i]] \in Keys
      BY <3>2, SpellingNames
    <3> QED
      BY <3>2, <3>3
  <2> QED
    BY <2>1, <2>2, <2>3, <2>4
<1> HIDE DEF keys, heard, more, all
<1>7. /\ DOMAIN tally = {k \in Keys \ Known : Votes(seeds, k) # {}}
      /\ \A k \in DOMAIN tally : tally[k].count = Cardinality(Votes(seeds, k))
      /\ \A k \in DOMAIN tally : tally[k] \in [name : Artists, count : Nat]
  BY <1>3 DEF Counted, Typed, TalliedOnce
<1>8. DOMAIN tally' = {k \in Keys \ Known : Votes(more, k) # {}}
  BY <1>1, <1>6, <1>7
<1>9. ASSUME NEW k \in DOMAIN tally' PROVE tally'[k].count = Cardinality(Votes(more, k))
  <2>1. CASE k \in DOMAIN tally
    <3>1. tally'[k].count = tally[k].count + heard(k)
      BY <1>1, <1>7, <2>1
    <3> QED
      BY <1>6, <1>7, <2>1, <3>1
  <2>2. CASE k \notin DOMAIN tally
    <3>1. k \in keys /\ tally'[k].count = heard(k)
      BY <1>1, <2>2
    <3>2. Votes(seeds, k) = {}
      BY <1>6, <1>7, <1>8, <2>2
    <3>3. Cardinality(Votes(seeds, k)) = 0
      BY <3>2, FS_EmptySet
    <3> QED
      BY <1>6, <3>1, <3>3
  <2> QED
    BY <2>1, <2>2
<1>10. Counted(more)'
  BY <1>2, <1>8, <1>9 DEF Counted
<1>11. pending' \subseteq all' /\ more \in SUBSET (all' \ pending') /\ (~degraded' => more = all' \ pending')
  BY <1>1, <1>2, <1>5
<1> QED
  BY <1>1, <1>10, <1>11 DEF Voters, all

LEMMA VotersSeeds == ASSUME Typed, Voters, build_seeds PROVE Voters'
<1>1. CASE stage' = "idle"
  BY <1>1 DEF Voters, Running
<1>2. CASE stage' # "idle"
  <2>1. PICK s \in Orders : /\ entries' = Take(s, MaxSeeds) /\ stage' = "similar"
                            /\ pending' = SeedArtists(Take(s, MaxSeeds))
    BY <1>2 DEF build_seeds, Refuse, Send
  <2>2. stage = "charts" /\ UNCHANGED tally
    BY DEF build_seeds
  <2>3. tally' = Empty
    BY <2>2 DEF Typed, Unfilled
  <2> DEFINE all == SeedArtists(entries')
  <2>4. pending' = all
    BY <2>1
  <2>5. Counted({})'
    <3>1. DOMAIN tally' = {}
      BY <2>3 DEF Empty
    <3>2. \A k : Votes({}, k) = {}
      BY VotesOfNone
    <3> QED
      BY <3>1, <3>2 DEF Counted
  <2> HIDE DEF all
  <2>6. {} \in SUBSET (all \ pending') /\ {} = all \ pending' /\ pending' \subseteq all
    BY <2>4
  <2> QED
    BY <2>1, <2>5, <2>6 DEF Voters, all
<1> QED
  BY <1>1, <1>2

-----------------------------------------------------------------------------
(* What the pool holds.                                                    *)

(* The same, of the tally and the pool as they are given.                  *)
NamedIn(table) == Cuts(DOMAIN table, MaxExpand, LAMBDA k, l : table[k].count > table[l].count)
VotedIn(tracks) == Cuts(tracks, MaxInfo, LAMBDA c, d : c.count > d.count)
GatheredIn(table, top) ==
    UNION {{[artist |-> table[k].name, title |-> t, count |-> table[k].count,
             tags |-> ArtistTags[table[k].name]] : t \in TopTracks[table[k].name]} : k \in top}

LEMMA SameTally ==
    ASSUME UNCHANGED tally
    PROVE  MostNamed' = MostNamed /\ \A got : Gathered(got)' = Gathered(got)
<1>1. tally' = tally
  OBVIOUS
<1>2. MostNamed = NamedIn(tally) /\ MostNamed' = NamedIn(tally')
  <2>1. MostNamed = NamedIn(tally)
    BY Zenon DEF MostNamed, NamedIn
  <2>2. MostNamed' = NamedIn(tally')
    BY Zenon DEF MostNamed, NamedIn, Cuts
  <2> QED
    BY <2>1, <2>2
<1>3. \A got : Gathered(got) = GatheredIn(tally, got) /\ Gathered(got)' = GatheredIn(tally', got)
  BY Zenon DEF Gathered, GatheredIn
<1> QED
  BY <1>1, <1>2, <1>3

LEMMA SameVoted == ASSUME UNCHANGED pool PROVE MostVoted' = MostVoted
<1>1. MostVoted = VotedIn(pool) /\ MostVoted' = VotedIn(pool')
  <2>1. MostVoted = VotedIn(pool)
    BY Zenon DEF MostVoted, VotedIn
  <2>2. MostVoted' = VotedIn(pool')
    BY SMT DEF MostVoted, VotedIn, Cuts
  <2> QED
    BY <2>1, <2>2
<1> QED
  BY <1>1

LEMMA SameGathered ==
    ASSUME UNCHANGED <<tally, pool>>
    PROVE  /\ MostNamed' = MostNamed /\ MostVoted' = MostVoted
           /\ \A got : Gathered(got)' = Gathered(got)
<1>1. tally' = tally /\ pool' = pool
  OBVIOUS
<1> QED
  BY <1>1, SameTally, SameVoted

LEMMA GatheredMore ==
    ASSUME NEW got, NEW k
    PROVE  /\ Gathered(got \cup {k}) = Gathered(got) \cup TracksOf(k, ArtistTags[tally[k].name])
           /\ \A S, T : Bare(S \cup T) = Bare(S) \cup Bare(T)
           /\ \A tags, more : Bare(TracksOf(k, tags)) = Bare(TracksOf(k, more))
<1> DEFINE ripe(x) == TracksOf(x, ArtistTags[tally[x].name])
<1>1. \A some : Gathered(some) = UNION {ripe(x) : x \in some}
  BY DEF Gathered, TracksOf
<1>2. Gathered(got \cup {k}) = Gathered(got) \cup ripe(k)
  <2> HIDE DEF ripe
  <2>1. ASSUME NEW c PROVE c \in Gathered(got \cup {k}) <=> c \in Gathered(got) \cup ripe(k)
    <3>1. c \in Gathered(got \cup {k}) <=> \E x \in got \cup {k} : c \in ripe(x)
      BY <1>1
    <3>2. c \in Gathered(got) <=> \E x \in got : c \in ripe(x)
      BY <1>1
    <3> QED
      BY <3>1, <3>2
  <2> QED
    BY <2>1
<1>3. \A S, T : Bare(S \cup T) = Bare(S) \cup Bare(T)
  BY DEF Bare
<1>4. ASSUME NEW tags
      PROVE  Bare(TracksOf(k, tags)) = {<<tally[k].name, t, tally[k].count>> : t \in TopTracks[tally[k].name]}
  <2> DEFINE name == tally[k].name
             count == tally[k].count
             titles == TopTracks[name]
             B == Bare(TracksOf(k, tags))
             C == {<<name, t, count>> : t \in titles}
  <2>1. TracksOf(k, tags) = {[artist |-> name, title |-> t, count |-> count, tags |-> tags] : t \in titles}
    BY DEF TracksOf
  <2>2. B = {<<c.artist, c.title, c.count>> : c \in TracksOf(k, tags)}
    BY DEF Bare
  <2> HIDE DEF name, count, titles, B
  <2>3. ASSUME NEW c \in TracksOf(k, tags) PROVE <<c.artist, c.title, c.count>> \in C
    BY <2>1
  <2>4. ASSUME NEW t \in titles PROVE <<name, t, count>> \in B
    <3> DEFINE c == [artist |-> name, title |-> t, count |-> count, tags |-> tags]
    <3>1. c \in TracksOf(k, tags) /\ c.artist = name /\ c.title = t /\ c.count = count
      BY <2>1
    <3> HIDE DEF c
    <3> QED
      BY <2>2, <3>1
  <2>5. B = C
    BY <2>2, <2>3, <2>4
  <2> QED
    BY <2>5 DEF B, name, count, titles
<1> QED
  BY <1>2, <1>3, <1>4

LEMMA PoolsStay ==
    ASSUME Pools, UNCHANGED <<tally, pool>>, degraded => degraded',
           \/ stage' \notin {"tracks", "info", "profile"}
           \/ stage \in {"info", "profile"} /\ stage' \in {"info", "profile"}
           \/ stage = "tracks" /\ pending = {} /\ stage' = "info"
           \/ stage = "tracks" /\ stage' = "tracks" /\ pending' \subseteq pending
              /\ (degraded' \/ pending' = pending)
    PROVE  Pools'
<1>1. /\ MostNamed' = MostNamed
      /\ \A top, got : Pooled(top, got)' <=> Bare(pool) = Bare(Gathered(got)) /\ (~degraded' => got = top /\ pool = Gathered(top))
  <2>1. pool' = pool
    OBVIOUS
  <2> QED
    BY <2>1, SameGathered DEF Pooled
<1>2. \A top, got : Pooled(top, got) <=> Bare(pool) = Bare(Gathered(got)) /\ (~degraded => got = top /\ pool = Gathered(top))
  BY DEF Pooled
<1>3. CASE stage' \notin {"tracks", "info", "profile"}
  BY <1>3 DEF Pools
<1>4. CASE stage \in {"info", "profile"} /\ stage' \in {"info", "profile"}
  <2>1. PICK top \in MostNamed : \E got \in SUBSET top : Pooled(top, got)
    BY <1>4 DEF Pools
  <2>2. PICK got \in SUBSET top : Pooled(top, got)
    BY <2>1
  <2>3. Pooled(top, got)'
    BY <1>1, <1>2, <2>2
  <2> QED
    BY <1>1, <1>4, <2>3 DEF Pools
<1>5. CASE stage = "tracks" /\ pending = {} /\ stage' = "info"
  <2>1. PICK top \in MostNamed : \E got \in SUBSET (top \ pending) : Pooled(top \ pending, got)
    BY <1>5 DEF Pools
  <2>2. PICK got \in SUBSET top : Pooled(top, got)
    <3>1. top \ pending = top
      BY <1>5
    <3> QED
      BY <2>1, <3>1
  <2>3. Pooled(top, got)'
    BY <1>1, <1>2, <2>2
  <2> QED
    BY <1>1, <1>5, <2>3 DEF Pools
<1>6. CASE /\ stage = "tracks" /\ stage' = "tracks" /\ pending' \subseteq pending
           /\ (degraded' \/ pending' = pending)
  <2>1. PICK top \in MostNamed :
            pending \subseteq top /\ \E got \in SUBSET (top \ pending) : Pooled(top \ pending, got)
    BY <1>6 DEF Pools
  <2>2. PICK got \in SUBSET (top \ pending) : Pooled(top \ pending, got)
    BY <2>1
  <2>3. pending' \subseteq top /\ got \in SUBSET (top \ pending')
    BY <1>6, <2>1, <2>2
  <2>4. Bare(pool) = Bare(Gathered(got)) /\ (~degraded => got = top \ pending /\ pool = Gathered(top \ pending))
    BY <2>2 DEF Pooled
  <2>5. ~degraded' => got = top \ pending' /\ pool = Gathered(top \ pending')
    BY <1>6, <2>4
  <2>6. PICK left : left = top \ pending'
    OBVIOUS
  <2>7. got \in SUBSET left /\ Pooled(left, got)'
    BY <1>1, <2>3, <2>4, <2>5, <2>6
  <2> QED
    BY <1>1, <1>6, <2>3, <2>6, <2>7 DEF Pools, Pooled
<1> QED
  BY <1>3, <1>4, <1>5, <1>6

LEMMA PoolsExpand == ASSUME Typed, Expand PROVE Pools'
<1>1. PICK top \in MostNamed : stage' = "tracks" /\ pending' = top
  BY DEF Expand, Send
<1>2. stage = "similar" /\ UNCHANGED <<tally, pool, degraded>>
  BY DEF Expand, run
<1>3. pool' = {} /\ MostNamed' = MostNamed
  BY <1>2, SameGathered DEF Typed, Unfilled
<1>4. \A some : Gathered(some)' = Gathered(some)
  BY <1>2, SameGathered
<1>5. Gathered({}) = {}
  BY DEF Gathered
<1>6. Pooled({}, {})'
  <2>1. Gathered({})' = {}
    BY <1>4, <1>5
  <2> QED
    BY <1>3, <2>1 DEF Pooled
<1>7. top \ pending' = {} /\ pending' \subseteq top
  BY <1>1
<1> QED
  BY <1>1, <1>3, <1>6, <1>7 DEF Pools

(* An artist's tracks come into the pool at once, with its tags or with    *)
(* none.                                                                   *)
LEMMA PoolsTracks ==
    ASSUME Typed, Pools, NEW k \in Keys, NEW tagged \in BOOLEAN, TracksAnswer(k, tagged)
    PROVE  Pools'
<1> DEFINE all == ArtistTags[tally[k].name]
           tags == IF tagged THEN all ELSE << >>
           new == TracksOf(k, tags)
           full == TracksOf(k, all)
<1>1. /\ stage = "tracks" /\ stage' = "tracks" /\ k \in pending /\ pending' = pending \ {k}
      /\ tally' = tally /\ pool' = pool \cup new /\ degraded' = (degraded \/ ~tagged)
  BY DEF TracksAnswer, Send, TracksOf
<1>2. PICK top \in MostNamed :
          pending \subseteq top /\ \E got \in SUBSET (top \ pending) : Pooled(top \ pending, got)
  BY <1>1 DEF Pools
<1>3. PICK got \in SUBSET (top \ pending) : Pooled(top \ pending, got)
  BY <1>2
<1>4. PICK more : more = got \cup {k}
  OBVIOUS
<1>5. PICK left : left = top \ pending'
  OBVIOUS
<1>6. more \in SUBSET left /\ pending' \subseteq top
  BY <1>1, <1>2, <1>3, <1>4, <1>5
<1>7. Gathered(more) = Gathered(got) \cup full /\ Bare(full) = Bare(new)
  BY <1>4, GatheredMore
<1>8. Bare(pool \cup new) = Bare(Gathered(got)) \cup Bare(new) /\ Bare(Gathered(more)) = Bare(Gathered(got)) \cup Bare(full)
  <2>1. Bare(pool \cup new) = Bare(pool) \cup Bare(new)
    BY GatheredMore
  <2>2. Bare(Gathered(got) \cup full) = Bare(Gathered(got)) \cup Bare(full)
    BY GatheredMore
  <2>3. Bare(pool) = Bare(Gathered(got))
    BY <1>3 DEF Pooled
  <2> HIDE DEF new, full
  <2> QED
    BY <1>7, <2>1, <2>2, <2>3
<1>9. \A some : Gathered(some)' = Gathered(some)
  BY <1>1, SameTally
<1>10. MostNamed' = MostNamed
  BY <1>1, SameTally
<1>11. Bare(pool') = Bare(Gathered(more)')
  <2>1. Gathered(more)' = Gathered(more)
    BY <1>9
  <2> HIDE DEF new, full
  <2> QED
    BY <1>1, <1>7, <1>8, <2>1
<1>12. ASSUME ~degraded' PROVE more = left /\ pool' = Gathered(left)'
  <2>1. tagged /\ ~degraded
    BY <1>1, <1>12
  <2>2. got = top \ pending /\ pool = Gathered(got)
    BY <1>3, <2>1 DEF Pooled
  <2>3. more = left
    BY <1>1, <1>2, <1>4, <1>5, <2>2
  <2>4. new = full
    BY <2>1
  <2>5. Gathered(left)' = Gathered(left)
    BY <1>9
  <2> HIDE DEF new, full
  <2> QED
    BY <1>1, <1>7, <2>2, <2>3, <2>4, <2>5
<1> HIDE DEF new, full
<1>13. Pooled(left, more)'
  BY <1>11, <1>12 DEF Pooled
<1> QED
  BY <1>1, <1>5, <1>6, <1>10, <1>13 DEF Pools

-----------------------------------------------------------------------------
(* What has been scored.                                                   *)

LEMMA JoinedSet ==
    ASSUME NEW S, NEW T, NEW u \in Seq(S), NEW v \in Seq(T)
    PROVE  ToSet(u \o v) = ToSet(u) \cup ToSet(v)
<1>1. /\ DOMAIN u = 1..Len(u) /\ DOMAIN v = 1..Len(v) /\ Len(u) \in Nat /\ Len(v) \in Nat
      /\ DOMAIN (u \o v) = 1..(Len(u) + Len(v))
      /\ \A i \in 1..(Len(u) + Len(v)) : (u \o v)[i] = IF i <= Len(u) THEN u[i] ELSE v[i - Len(u)]
  OBVIOUS
<1> DEFINE w == u \o v
<1> HIDE DEF w
<1>2. ToSet(w) \subseteq ToSet(u) \cup ToSet(v)
  <2> SUFFICES ASSUME NEW i \in DOMAIN w PROVE w[i] \in ToSet(u) \cup ToSet(v)
    BY DEF ToSet
  <2>1. CASE i <= Len(u)
    BY <1>1, <2>1 DEF w, ToSet
  <2>2. CASE ~(i <= Len(u))
    <3>1. i - Len(u) \in DOMAIN v /\ w[i] = v[i - Len(u)]
      BY <1>1, <2>2 DEF w
    <3> QED
      BY <3>1 DEF ToSet
  <2> QED
    BY <2>1, <2>2
<1>3. ToSet(u) \subseteq ToSet(w)
  <2> SUFFICES ASSUME NEW i \in DOMAIN u PROVE i \in DOMAIN w /\ w[i] = u[i]
    BY DEF ToSet
  <2> QED
    BY <1>1 DEF w
<1>4. ToSet(v) \subseteq ToSet(w)
  <2> SUFFICES ASSUME NEW i \in DOMAIN v PROVE v[i] \in ToSet(w)
    BY DEF ToSet
  <2>1. i + Len(u) \in DOMAIN w /\ w[i + Len(u)] = v[i]
    BY <1>1 DEF w
  <2> QED
    BY <2>1 DEF ToSet
<1> QED
  BY <1>2, <1>3, <1>4 DEF w

MarksOf(done) == UNION {ToSet(score_candidate(c)) : c \in done}

LEMMA MarksMore == ASSUME NEW done, NEW c PROVE MarksOf(done \cup {c}) = MarksOf(done) \cup ToSet(score_candidate(c))
<1> DEFINE f(d) == ToSet(score_candidate(d))
<1>1. \A some : MarksOf(some) = UNION {f(d) : d \in some}
  BY DEF MarksOf
<1> HIDE DEF f
<1>2. ASSUME NEW m PROVE m \in MarksOf(done \cup {c}) <=> m \in MarksOf(done) \cup f(c)
  <2>1. m \in MarksOf(done \cup {c}) <=> \E d \in done \cup {c} : m \in f(d)
    BY <1>1
  <2>2. m \in MarksOf(done) <=> \E d \in done : m \in f(d)
    BY <1>1
  <2> QED
    BY <2>1, <2>2
<1>3. MarksOf(done \cup {c}) = MarksOf(done) \cup f(c)
  BY <1>2
<1> QED
  BY <1>3 DEF f

LEMMA SameRated ==
    ASSUME UNCHANGED <<entries, scored>>
    PROVE  \A done : Rated(done)' <=> Rated(done)
<1>1. scored' = scored /\ \A c : score_candidate(c)' = score_candidate(c)
  BY SameScores
<1> QED
  BY <1>1, Zenon DEF Rated

LEMMA RatingsStay ==
    ASSUME Ratings, UNCHANGED <<entries, pool, scored>>, degraded => degraded',
           \/ stage' \notin {"info", "profile"}
           \/ stage = "profile" /\ stage' = "profile"
           \/ stage = "info" /\ pending = {} /\ stage' = "profile"
           \/ stage = "info" /\ stage' = "info" /\ (degraded' \/ pending' = pending)
    PROVE  Ratings'
<1>1. \A done : Rated(done)' <=> Rated(done)
  BY SameRated
<1>2. MostVoted' = MostVoted
  BY SameVoted
<1> SUFFICES ASSUME ~degraded', ~degraded, stage' \in {"info", "profile"} PROVE Ratings'
  BY DEF Ratings
<1>3. CASE stage = "profile" /\ stage' = "profile"
  <2>1. PICK top \in MostVoted : Rated(top)
    BY <1>3 DEF Ratings
  <2> QED
    BY <1>1, <1>2, <1>3, <2>1 DEF Ratings
<1>4. CASE stage = "info" /\ pending = {} /\ stage' = "profile"
  <2>1. PICK top \in MostVoted : Rated(top \ pending)
    BY <1>4 DEF Ratings
  <2>2. top \ pending = top
    BY <1>4
  <2>3. Rated(top)
    BY <2>1, <2>2
  <2> QED
    BY <1>1, <1>2, <1>4, <2>3 DEF Ratings
<1>5. CASE stage = "info" /\ stage' = "info" /\ pending' = pending
  <2>1. PICK top \in MostVoted : pending \subseteq top /\ Rated(top \ pending)
    BY <1>5 DEF Ratings
  <2>2. PICK done : done = top \ pending
    OBVIOUS
  <2>3. Rated(done)'
    BY <1>1, <2>1, <2>2
  <2> QED
    BY <1>2, <1>5, <2>1, <2>2, <2>3 DEF Ratings
<1> QED
  BY <1>3, <1>4, <1>5

LEMMA RatingsFetch == ASSUME Typed, FetchInfo, stage' = "info" PROVE Ratings'
<1>1. PICK top \in MostVoted : pending' = top
  BY DEF FetchInfo, Refuse, Send
<1>2. stage = "tracks" /\ UNCHANGED <<pool, scored>>
  BY DEF FetchInfo, run
<1>3. MostVoted' = MostVoted
  BY <1>2, SameVoted
<1>4. scored' = << >>
  BY <1>2 DEF Typed, Unfilled
<1>5. Rated({})'
  BY <1>4 DEF Rated, ToSet
<1>6. top \ pending' = {} /\ pending' \subseteq top
  BY <1>1
<1> QED
  BY <1>3, <1>5, <1>6 DEF Ratings

LEMMA RatingsInfo == ASSUME Typed, Ratings, NEW c, InfoAnswer(c) PROVE Ratings'
<1> DEFINE s == score_candidate(c)
<1>1. /\ stage = "info" /\ stage' = "info" /\ c \in pending /\ pending' = pending \ {c}
      /\ UNCHANGED <<entries, pool, degraded>> /\ scored' = scored \o s
  BY DEF InfoAnswer, Send
<1> SUFFICES ASSUME ~degraded PROVE Ratings'
  BY <1>1 DEF Ratings
<1>2. PICK top \in MostVoted : pending \subseteq top /\ Rated(top \ pending)
  BY <1>1 DEF Ratings
<1>3. PICK done : done = top \ pending'
  OBVIOUS
<1>4. done = (top \ pending) \cup {c}
  BY <1>1, <1>2, <1>3
<1>5. ToSet(scored \o s) = ToSet(scored) \cup ToSet(s)
  <2>1. scored \in Seq(Marks)
    BY DEF Typed, ScoredOnce
  <2>2. s \in Seq(Entry)
    <3>1. c \in pool
      BY <1>1 DEF Typed, TypeOK
    <3>2. \/ s = << >>
          \/ \E m \in Entry : s = <<m>>
      BY <3>1, ScoreOf
    <3>3. << >> \in Seq(Entry) /\ \A m \in Entry : <<m>> \in Seq(Entry)
      OBVIOUS
    <3> HIDE DEF s
    <3> QED
      BY <3>2, <3>3
  <2> HIDE DEF s
  <2> QED
    BY <2>1, <2>2, JoinedSet
<1>6. MostVoted' = MostVoted /\ \A d : score_candidate(d)' = score_candidate(d)
  BY <1>1, SameVoted, SameScores
<1>7. ToSet(scored) = MarksOf(top \ pending)
  BY <1>2, Zenon DEF Rated, MarksOf
<1>8. ToSet(scored') = MarksOf(done)
  <2>1. MarksOf(done) = MarksOf(top \ pending) \cup ToSet(s)
    BY <1>4, MarksMore
  <2> HIDE DEF s
  <2> QED
    BY <1>1, <1>5, <1>7, <2>1
<1>9. Rated(done)'
  <2>1. MarksOf(done)' = MarksOf(done)
    BY <1>6, Zenon DEF MarksOf
  <2>2. ToSet(scored)' = ToSet(scored')
    BY Zenon DEF ToSet
  <2>3. ToSet(scored)' = MarksOf(done)'
    BY <1>8, <2>1, <2>2, Zenon
  <2> QED
    BY <2>3, Zenon DEF Rated, MarksOf
<1> QED
  BY <1>1, <1>2, <1>3, <1>6, <1>9 DEF Ratings

-----------------------------------------------------------------------------
(* A step keeps what has been gathered determined.                         *)

(* Before a stage is reached there is nothing to say of it.                *)
LEMMA OutsideRuns ==
    ASSUME stage' \notin Running
    PROVE  Voters' /\ Pools' /\ Ratings'
<1>1. stage' \notin {"similar", "tracks", "info", "profile"}
  BY DEF Running
<1>2. Voters'
  BY <1>1 DEF Voters, Running
<1>3. Pools'
  BY <1>1 DEF Pools
<1>4. Ratings'
  BY <1>1 DEF Ratings
<1> QED
  BY <1>2, <1>3, <1>4

LEMMA GathersStays ==
    ASSUME Gathers, UNCHANGED <<run, stage>>, degraded => degraded',
           \/ UNCHANGED pending
           \/ degraded' /\ pending' \subseteq pending
    PROVE  Voters' /\ Pools' /\ Ratings'
<1>1. UNCHANGED <<entries, tally, pool, scored>>
  BY DEF run
<1>2. pending' \subseteq pending /\ (degraded' \/ pending' = pending) /\ stage' = stage
  OBVIOUS
<1>3. CASE stage \notin Running
  BY <1>2, <1>3, OutsideRuns
<1>4. CASE stage \in Running
  <2>1. stage \in {"similar", "tracks", "info", "profile"}
    BY <1>4 DEF Running
  <2>2. Voters'
    BY <1>1, <1>2, <2>1, VotersStay DEF Gathers
  <2>3. Pools'
    BY <1>1, <1>2, <2>1, PoolsStay DEF Gathers
  <2>4. Ratings'
    BY <1>1, <1>2, <2>1, RatingsStay DEF Gathers
  <2> QED
    BY <2>2, <2>3, <2>4
<1> QED
  BY <1>3, <1>4

LEMMA GathersStep == ASSUME Typed, Gathers, [Next]_vars PROVE Gathers'
<1>1. Weighed'
  BY WeighedStep DEF Gathers
<1> SUFFICES Voters' /\ Pools' /\ Ratings'
  BY <1>1 DEF Gathers
<1>2. ASSUME NEW own \in BOOLEAN, Ask(own) PROVE Voters' /\ Pools' /\ Ratings'
  <2>1. stage' \in {"idle", "charts"}
    BY <1>2 DEF Ask, Send
  <2> QED
    BY <2>1, OutsideRuns DEF Running
<1>3. ASSUME NEW w \in Windows, ChartAnswer(w) \/ UserUnknown(w) PROVE Voters' /\ Pools' /\ Ratings'
  <2>1. stage' \in {"idle", "charts"}
    BY <1>3 DEF ChartAnswer, UserUnknown, Refuse, Send
  <2> QED
    BY <2>1, OutsideRuns DEF Running
<1>4. ASSUME build_seeds PROVE Voters' /\ Pools' /\ Ratings'
  <2>1. Voters'
    BY <1>4, VotersSeeds DEF Gathers
  <2>2. stage' \in {"idle", "similar"}
    BY <1>4 DEF build_seeds, Refuse, Send
  <2> QED
    BY <2>1, <2>2 DEF Pools, Ratings
<1>5. ASSUME NEW a \in Artists, SimilarAnswer(a) PROVE Voters' /\ Pools' /\ Ratings'
  <2>1. Voters'
    BY <1>5, VotersSimilar DEF Gathers
  <2>2. stage' = "similar"
    BY <1>5 DEF SimilarAnswer, Send
  <2> QED
    BY <2>1, <2>2 DEF Pools, Ratings
<1>6. ASSUME Expand PROVE Voters' /\ Pools' /\ Ratings'
  <2>1. Pools'
    BY <1>6, PoolsExpand
  <2>2. /\ stage = "similar" /\ pending = {} /\ stage' = "tracks"
        /\ UNCHANGED <<entries, tally, degraded>>
    BY <1>6 DEF Expand, Send, run
  <2>3. Voters'
    BY <2>2, VotersStay DEF Gathers, Running
  <2> QED
    BY <2>1, <2>2, <2>3 DEF Ratings
<1>7. ASSUME NEW k \in Keys, NEW tagged \in BOOLEAN, TracksAnswer(k, tagged)
      PROVE  Voters' /\ Pools' /\ Ratings'
  <2>1. Pools'
    BY <1>7, PoolsTracks DEF Gathers
  <2>2. /\ stage = "tracks" /\ stage' = "tracks" /\ UNCHANGED <<entries, tally>>
        /\ degraded => degraded'
    BY <1>7 DEF TracksAnswer, Send
  <2>3. Voters'
    BY <2>2, VotersStay DEF Gathers, Running
  <2> QED
    BY <2>1, <2>2, <2>3 DEF Ratings
<1>8. ASSUME FetchInfo PROVE Voters' /\ Pools' /\ Ratings'
  <2>1. /\ stage = "tracks" /\ pending = {} /\ stage' \in {"idle", "info"}
        /\ UNCHANGED <<entries, tally, pool, degraded>>
    BY <1>8 DEF FetchInfo, Refuse, Send, run
  <2>2. CASE stage' = "idle"
    BY <2>2, OutsideRuns DEF Running
  <2>3. CASE stage' = "info"
    <3>1. Voters'
      BY <2>1, <2>3, VotersStay DEF Gathers, Running
    <3>2. Pools'
      BY <2>1, <2>3, PoolsStay DEF Gathers
    <3>3. Ratings'
      BY <1>8, <2>3, RatingsFetch
    <3> QED
      BY <3>1, <3>2, <3>3
  <2> QED
    BY <2>1, <2>2, <2>3
<1>9. ASSUME NEW c, InfoAnswer(c) PROVE Voters' /\ Pools' /\ Ratings'
  <2>1. stage = "info" /\ stage' = "info" /\ UNCHANGED <<entries, tally, pool, degraded>>
    BY <1>9 DEF InfoAnswer, Send
  <2>2. Voters'
    BY <2>1, VotersStay DEF Gathers, Running
  <2>3. Pools'
    BY <2>1, PoolsStay DEF Gathers
  <2>4. Ratings'
    BY <1>9, RatingsInfo DEF Gathers
  <2> QED
    BY <2>2, <2>3, <2>4
<1>10. ASSUME Profile PROVE Voters' /\ Pools' /\ Ratings'
  <2>1. /\ stage = "info" /\ pending = {} /\ stage' = "profile"
        /\ UNCHANGED <<entries, tally, pool, scored, degraded>>
    BY <1>10, Zenon DEF Profile, Send, run
  <2>2. Voters'
    BY <2>1, VotersStay DEF Gathers, Running
  <2>3. Pools'
    BY <2>1, PoolsStay DEF Gathers
  <2>4. Ratings'
    BY <2>1, RatingsStay DEF Gathers
  <2> QED
    BY <2>2, <2>3, <2>4
<1>11. ASSUME NEW a \in Artists, ProfileAnswer(a) PROVE Voters' /\ Pools' /\ Ratings'
  <2>1. /\ stage = "profile" /\ stage' = "profile"
        /\ UNCHANGED <<entries, tally, pool, scored, degraded>>
    BY <1>11 DEF ProfileAnswer, Send
  <2>2. Voters'
    BY <2>1, VotersStay DEF Gathers, Running
  <2>3. Pools'
    BY <2>1, PoolsStay DEF Gathers
  <2>4. Ratings'
    BY <2>1, RatingsStay DEF Gathers
  <2> QED
    BY <2>2, <2>3, <2>4
<1>12. ASSUME Reply PROVE Voters' /\ Pools' /\ Ratings'
  <2>1. stage' = "idle"
    BY <1>12, Zenon DEF Reply, Send
  <2> QED
    BY <2>1, OutsideRuns DEF Running
<1>13. ASSUME NEW c, CallFails(c) PROVE Voters' /\ Pools' /\ Ratings'
  <2>1. /\ degraded' = TRUE /\ UNCHANGED <<setting, custom, run, requests>>
        /\ \/ stage' = "idle"
           \/ stage' = stage /\ pending' = pending \ {c}
    BY <1>13 DEF CallFails, Refuse, Send
  <2>2. CASE stage' = "idle"
    BY <2>2, OutsideRuns DEF Running
  <2>3. CASE stage' = stage /\ pending' = pending \ {c}
    BY <2>1, <2>3, GathersStays
  <2> QED
    BY <2>1, <2>2, <2>3
<1>14. ASSUME Expire \/ UNCHANGED vars PROVE Voters' /\ Pools' /\ Ratings'
  <2>1. UNCHANGED <<run, stage, pending, degraded>>
    BY <1>14 DEF Expire, vars
  <2> QED
    BY <2>1, GathersStays
<1> QED
  BY <1>2, <1>3, <1>4, <1>5, <1>6, <1>7, <1>8, <1>9, <1>10, <1>11, <1>12, <1>13, <1>14 DEF Next, Progress

-----------------------------------------------------------------------------
(* What PoolTells says of a state follows.                                 *)

LEMMA CountsBounded ==
    ASSUME Typed, NEW seeds \in SUBSET SeedArtists(entries), Counted(seeds)
    PROVE  LET all == SeedArtists(entries)
               ref == RefTally(all)
           IN  /\ \A k \in DOMAIN tally : k \in DOMAIN ref /\ tally[k].count <= ref[k]
               /\ seeds = all => [k \in DOMAIN tally |-> tally[k].count] = ref
<1> DEFINE all == SeedArtists(entries)
           ref == RefTally(all)
           counts == [k \in DOMAIN tally |-> tally[k].count]
<1>1. all \subseteq Artists /\ IsFiniteSet(all)
  BY SeedsAreArtists
<1>2. /\ DOMAIN tally = {k \in Keys \ Known : Votes(seeds, k) # {}}
      /\ \A k \in DOMAIN tally : tally[k].count = Cardinality(Votes(seeds, k))
  BY DEF Counted
<1>3. /\ DOMAIN ref = {k \in Keys \ Known : Votes(all, k) # {}}
      /\ \A k \in DOMAIN ref : ref[k] = Cardinality(Votes(all, k))
      /\ ref = [k \in DOMAIN ref |-> ref[k]]
  BY DEF RefTally
<1> HIDE DEF ref
<1>4. ASSUME NEW k \in DOMAIN tally PROVE k \in DOMAIN ref /\ tally[k].count <= ref[k]
  <2>1. Votes(seeds, k) \subseteq Votes(all, k) /\ Cardinality(Votes(seeds, k)) <= Cardinality(Votes(all, k))
    BY <1>1, VotesOfSome
  <2> QED
    BY <1>2, <1>3, <2>1
<1>5. ASSUME seeds = all PROVE counts = ref
  <2>1. DOMAIN counts = DOMAIN ref /\ \A k \in DOMAIN ref : counts[k] = ref[k]
    BY <1>2, <1>3, <1>5
  <2>2. counts = [k \in DOMAIN counts |-> counts[k]]
    OBVIOUS
  <2> HIDE DEF counts
  <2> QED
    BY <1>3, <2>1, <2>2
<1> QED
  BY <1>4, <1>5 DEF ref

LEMMA GatheredTells == ASSUME Typed, Gathers PROVE PoolTells
<1> DEFINE all == SeedArtists(entries)
           ref == RefTally(all)
           counts == [k \in DOMAIN tally |-> tally[k].count]
<1> SUFFICES ASSUME stage \in {"info", "profile"}
             PROVE  /\ \A k \in DOMAIN tally : k \in DOMAIN ref /\ counts[k] <= ref[k]
                    /\ \E top \in MostNamed : \E got \in SUBSET top : Bare(pool) = Bare(Gathered(got))
                    /\ ~degraded => /\ weights = WeightsOf(Asked) /\ counts = ref
                                    /\ \E top \in MostNamed : pool = Gathered(top)
                                    /\ stage = "profile" =>
                                           \E top \in MostVoted :
                                               ToSet(scored) = UNION {ToSet(score_candidate(c)) : c \in top}
  BY Zenon DEF PoolTells
<1>1. PICK seeds \in SUBSET all : Counted(seeds) /\ (~degraded => seeds = all)
  <2>1. stage \in Running \ {"similar"}
    BY DEF Running
  <2> QED
    BY <2>1 DEF Gathers, Voters
<1>2. /\ \A k \in DOMAIN tally : k \in DOMAIN ref /\ counts[k] <= ref[k]
      /\ ~degraded => counts = ref
  <2>1. /\ \A k \in DOMAIN tally : k \in DOMAIN ref /\ tally[k].count <= ref[k]
        /\ seeds = all => counts = ref
    BY <1>1, CountsBounded
  <2>2. \A k \in DOMAIN tally : counts[k] = tally[k].count
    OBVIOUS
  <2> HIDE DEF counts, ref
  <2> QED
    BY <1>1, <2>1, <2>2
<1>3. PICK top \in MostNamed : \E got \in SUBSET top : Pooled(top, got)
  BY DEF Gathers, Pools
<1>4. PICK got \in SUBSET top : Pooled(top, got)
  BY <1>3
<1>5. Bare(pool) = Bare(Gathered(got)) /\ (~degraded => pool = Gathered(top))
  BY <1>4 DEF Pooled
<1>6. ~degraded => weights = WeightsOf(Asked)
  <2>1. stage \in Running
    BY DEF Running
  <2> QED
    BY <2>1 DEF Gathers, Weighed
<1>7. ASSUME ~degraded, stage = "profile"
      PROVE  \E best \in MostVoted : ToSet(scored) = UNION {ToSet(score_candidate(c)) : c \in best}
  <2>1. PICK best \in MostVoted : Rated(best)
    BY <1>7 DEF Gathers, Ratings
  <2> QED
    BY <2>1, Zenon DEF Rated
<1> HIDE DEF counts, ref
<1> QED
  BY <1>2, <1>5, <1>6, <1>7, Zenon

(* What a run gathers is determined by the calls that answered, whatever   *)
(* the order they came in; a failed call only leaves something out.        *)
THEOREM GatheringIsDetermined == Spec => []PoolTells
<1>1. Init => Gathers
  BY WeightsOfNone DEF Init, Gathers, Weighed, Voters, Pools, Ratings, Running
<1>2. Typed /\ Gathers /\ [Next]_vars => Gathers'
  BY GathersStep
<1>3. Typed /\ Gathers => PoolTells
  BY GatheredTells
<1> QED
  BY <1>1, <1>2, <1>3, TypedAlways, PTL DEF Spec
=============================================================================
