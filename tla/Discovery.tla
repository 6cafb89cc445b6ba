----------------------------- MODULE Discovery -----------------------------
(***************************************************************************)
(* One run of the artist pipeline (backend/src/pipeline: mod.rs, seeds.rs, *)
(* tag_graph.rs, candidates.rs and scoring.rs).  Every stage sends its     *)
(* calls to Last.fm at once and takes the answers in the order in which    *)
(* they come; the ListenBrainz arm runs beside the similar-artist calls.   *)
(* A call answers, is refused for good (Refused: the item is skipped) or   *)
(* fails for now (the run fails, so that nothing partial is shown or       *)
(* cached).  ListenBrainz calls never fail the run.                        *)
(*                                                                         *)
(* The answers are constants: what the upstreams would say does not change *)
(* during a run.  What remains open is their order, what fails, and how    *)
(* far ListenBrainz gets.                                                  *)
(***************************************************************************)
EXTENDS Scoring

CONSTANTS
    Keys,           \* normalized names
    Tags,
    Windows, Year,  \* the windows of the blend and of single periods; that of "ytd"
    Chart,          \* what a window answers: its entries, best first, and its total
    Clean,          \* normalize_seed_name
    UserInfo,       \* what user.getinfo answers
    Refused,        \* calls that are refused for good: <<stage, item>>
    TopTags,        \* artist.gettoptags of a seed
    TagTop,         \* tag.gettopartists of a tag
    Similar,        \* artist.getsimilar of a seed
    LbSimilar,      \* its ListenBrainz neighbours
    Page,           \* autocorrect: the page that answers for a spelling
    Appetites,      \* multipliers of the appetite slider; NoThreshold is "new"
    MaxSeeds, TagSeeds, TagsDerived, ProfileSeeds, MaxInfo,
    MaxVetoed,      \* bound: artists that the vetoes drop
    NoName

VARIABLES
    period,     \* "blend" or the window
    source,     \* CANDIDATE_SOURCE
    stage,      \* the stage that is under way
    pending,    \* its calls without an answer
    weights,    \* Seeds.weights
    totals,     \* Seeds.total_artist_count and total_scrobbles
    threshold,  \* under_threshold
    freq,       \* tag_freq
    tagPool,    \* the keys of the tag graph
    lf, lb,     \* the arms: <<key, seed, spelling>> of every push
    lfName,     \* the display names of the Last.fm arm
    lbName,     \* the display names of the ListenBrainz arm
    lbPending,  \* seeds the ListenBrainz arm is at; {} when the arm is done
    lbGot,      \* history: the seeds whose neighbours came in time
    profile,    \* the seed tag profile
    raw,        \* answered pages with their recommenders, in arrival order
    scored,     \* the ranked list
    vetoed,     \* history: what the vetoes dropped
    reply       \* the response and its reserve

seedVars == <<weights, totals>>
tagVars == <<freq, tagPool>>
armVars == <<lf, lb, lfName, lbName, lbPending, lbGot>>
scoreVars == <<profile, raw, scored, vetoed, reply>>
setting == <<period, source>>
vars == <<setting, stage, pending, seedVars, threshold, tagVars, armVars, scoreVars>>

None == << >>
NoReply == [shown |-> None, reserve |-> None, genres |-> {}]

ASSUME DiscoveryAssumption ==
    /\ Norm \in [Names -> Keys] /\ NoName \notin Names
    /\ Keys \cup Tags \subseteq Int /\ IsFiniteSet(Keys) /\ IsFiniteSet(Windows)
    /\ {MaxSeeds, TagSeeds, TagsDerived, ProfileSeeds, MaxInfo} \subseteq Nat
    /\ \A s \in Names : Similar[s] \in Seq(Names) /\ LbSimilar[s] \in Seq(Names)
    /\ Clean \in [Names -> Names] /\ Page \in [Names -> Names]
    /\ IsFiniteSet(Tags) /\ \A t \in Tags : TagTop[t] \subseteq Names
    /\ \A n \in Names : Info[n].tags \in Seq(Tags) /\ TopTags[n] \in Seq(Tags)
    /\ \A w \in Windows \cup {Year} : <<"charts", w>> \notin Refused =>
          Chart[w].entries \in Seq([name : Names, weight : Nat, plays : Nat])
    /\ "blend" \notin Windows \cup {Year}

\* The stage that fails the whole run when one of its calls fails for now;
\* user.getinfo is the exception (.ok()).
FailsClosed == {"charts", "seed_info", "tag_top", "similar", "profile", "pages"}

Send(st, calls) == stage' = st /\ pending' = calls

-----------------------------------------------------------------------------
(* Phase 1: the seeds.                                                     *)

Periods == Windows \cup {Year, "blend"}
Asked(p) == IF p = "blend" THEN Windows ELSE {p}

Init ==
    /\ period \in Periods
    /\ source \in {"lastfm", "listenbrainz", "blend"}
    /\ stage = "charts" /\ pending = Asked(period)
    /\ weights = Empty /\ totals = [artists |-> 0, scrobbles |-> 0]
    /\ threshold = NoThreshold
    /\ freq = Empty /\ tagPool = {}
    /\ lf = {} /\ lb = {} /\ lbPending = {} /\ lbGot = {}
    /\ lfName = [k \in Keys |-> NoName] /\ lbName = [k \in Keys |-> NoName]
    /\ profile = Empty /\ raw = None /\ scored = None /\ vetoed = {} /\ reply = NoReply

\* The chart entries that count, with the scrobbler's suffix removed.
SeedGain(entries) ==
    LET top == {i \in DOMAIN entries : i <= MaxSeeds}
    IN  [n \in {Clean[entries[i].name] : i \in top} |->
            SumOf([i \in {j \in top : Clean[entries[j].name] = n} |-> entries[i].weight])]

accumulate_seed(f, entries) == Gained(f, SeedGain(entries))

\* A window of the blend that is refused is skipped; the only chart of
\* the other periods is not.
ChartAnswer(w) ==
    /\ stage = "charts" /\ w \in pending
    /\ IF <<"charts", w>> \in Refused
       THEN /\ IF period = "blend" THEN Send(stage, pending \ {w}) ELSE Send("failed", {})
            /\ UNCHANGED seedVars
       ELSE /\ weights' = accumulate_seed(weights, Chart[w].entries)
            /\ totals' = [artists |-> Max({totals.artists,
                              IF period = Year THEN Len(Chart[w].entries) ELSE Chart[w].total}),
                          scrobbles |-> IF period = Year
                              THEN SumOf([i \in DOMAIN Chart[w].entries |-> Chart[w].entries[i].plays]) ELSE 0]
            /\ Send(stage, pending \ {w})
    /\ UNCHANGED <<setting, threshold, tagVars, armVars, scoreVars>>

\* Equal weights are ranked by name, so that the cut is always the same.
HeavierSeed(w, m, n) == w[m] > w[n] \/ (w[m] = w[n] /\ m < n)

SeedCuts(w, n) == Cuts(DOMAIN w, n, LAMBDA s, t : HeavierSeed(w, s, t))

SeedsChosen ==
    /\ stage = "charts" /\ pending = {}
    /\ IF weights = Empty
       THEN Send("failed", {}) /\ UNCHANGED weights
       ELSE /\ IF period = "blend"
               THEN \E top \in SeedCuts(weights, MaxSeeds) : weights' = [s \in top |-> weights[s]]
               ELSE UNCHANGED weights
            /\ Send("user_info", {"user"})
    /\ UNCHANGED <<setting, totals, threshold, tagVars, armVars, scoreVars>>

\* Rounded mean of plays per artist, times the appetite.
Threshold(info, mult) ==
    IF mult = NoThreshold \/ info.scrobbles = 0 \/ info.artists = 0 THEN NoThreshold
    ELSE (2 * info.scrobbles * mult + info.artists) \div (2 * info.artists)

\* Without user.getinfo the totals of the charts stand in; 0 is unknown.
\* Then the seeds that the tags are derived from are chosen.
UserAnswer(ok) ==
    /\ stage = "user_info"
    /\ \E mult \in Appetites :
          threshold' = Threshold([f \in {"artists", "scrobbles"} |->
              IF ok /\ UserInfo[f] # 0 THEN UserInfo[f] ELSE totals[f]], mult)
    /\ \E top \in SeedCuts(weights, TagSeeds) : Send("seed_info", top)
    /\ UNCHANGED <<setting, seedVars, tagVars, armVars, scoreVars>>

-----------------------------------------------------------------------------
(* Phase 1.5: the tag graph.                                               *)

SeedInfo(s) ==
    /\ stage = "seed_info" /\ s \in pending
    /\ freq' = IF <<stage, s>> \in Refused THEN freq
               ELSE Gained(freq, TagGain(GenreTags(Page[s]), 1))
    /\ Send(stage, pending \ {s})
    /\ UNCHANGED <<setting, seedVars, threshold, tagPool, armVars, scoreVars>>

MoreFrequent(f, t, u) == f[t] > f[u] \/ (f[t] = f[u] /\ t < u)

TagCuts(f, n) == Cuts(DOMAIN f, n, LAMBDA t, u : MoreFrequent(f, t, u))

derive_genre_tags ==
    /\ stage = "seed_info" /\ pending = {}
    /\ \E top \in TagCuts(freq, TagsDerived) : Send("tag_top", top)
    /\ UNCHANGED <<setting, seedVars, threshold, tagVars, armVars, scoreVars>>

fetch_tag_artists(t) ==
    /\ stage = "tag_top" /\ t \in pending
    /\ tagPool' = IF <<stage, t>> \in Refused THEN tagPool
                  ELSE tagPool \cup {Norm[a] : a \in TagTop[t]}
    /\ Send(stage, pending \ {t})
    /\ UNCHANGED <<setting, seedVars, threshold, freq, armVars, scoreVars>>

-----------------------------------------------------------------------------
(* Phase 2: the candidates, from two arms.                                 *)

StartArms ==
    /\ stage = "tag_top" /\ pending = {}
    /\ Send("similar", IF source = "listenbrainz" THEN {} ELSE DOMAIN weights)
    /\ lbPending' = IF source = "lastfm" THEN {} ELSE DOMAIN weights
    /\ UNCHANGED <<setting, seedVars, threshold, tagVars, lf, lb, lfName, lbName, lbGot, scoreVars>>

Pushes(s, list) == {<<Norm[list[i]], s, list[i]>> : i \in DOMAIN list}

\* The first spelling of a key is the one that is shown.
Spelled(names, list) ==
    [k \in Keys |-> IF names[k] # NoName \/ \A i \in DOMAIN list : Norm[list[i]] # k
                    THEN names[k]
                    ELSE list[CHOOSE i \in DOMAIN list :
                                 /\ Norm[list[i]] = k
                                 /\ \A j \in 1..(i - 1) : Norm[list[j]] # k]]

\* build and build_lastfm_prov.
SimilarAnswer(s) ==
    /\ stage = "similar" /\ s \in pending
    /\ IF <<stage, s>> \in Refused THEN UNCHANGED <<lf, lfName>>
       ELSE /\ lf' = lf \cup Pushes(s, Similar[s])
            /\ lfName' = Spelled(lfName, Similar[s])
    /\ Send(stage, pending \ {s})
    /\ UNCHANGED <<setting, seedVars, threshold, tagVars, lb, lbName, lbPending, lbGot, scoreVars>>

\* Not the code: a seed that has answered is still waited for.
Mut_AskAgain(s) ==
    /\ stage = "similar" /\ s \in lbPending
    /\ lb' = lb \cup Pushes(s, LbSimilar[s])
    /\ lbName' = Spelled(lbName, LbSimilar[s])
    /\ lbGot' = lbGot \cup {s}
    /\ UNCHANGED <<setting, stage, pending, seedVars, threshold, tagVars, lf, lfName, lbPending, scoreVars>>

\* A seed without an mbid, or whose calls fail, has no neighbours.
LbAnswer(s) ==
    /\ stage = "similar" /\ s \in lbPending
    /\ \/ /\ lb' = lb \cup Pushes(s, LbSimilar[s])
          /\ lbName' = Spelled(lbName, LbSimilar[s])
          /\ lbGot' = lbGot \cup {s}
       \/ UNCHANGED <<lb, lbName, lbGot>>
    /\ lbPending' = lbPending \ {s}
    /\ UNCHANGED <<setting, stage, pending, seedVars, threshold, tagVars, lf, lfName, scoreVars>>

\* Not the code: the budget cuts nothing off.
Mut_NoBudget == FALSE /\ UNCHANGED vars

\* Not the code: a budget that ends takes the partial result with it.
Mut_BudgetDropsAll ==
    /\ stage = "similar" /\ lbPending # {}
    /\ lbPending' = {} /\ lb' = {}
    /\ UNCHANGED <<setting, stage, pending, seedVars, threshold, tagVars,
                   lf, lfName, lbName, lbGot, scoreVars>>

\* The deadline: what has come in is kept, the rest is dropped.
LbBudgetEnds ==
    /\ stage = "similar" /\ lbPending # {}
    /\ lbPending' = {}
    /\ UNCHANGED <<setting, stage, pending, seedVars, threshold, tagVars,
                   lf, lb, lfName, lbName, lbGot, scoreVars>>

\* race_arms returns when both arms are done.
ArmsDone ==
    /\ stage = "similar" /\ pending = {} /\ lbPending = {}
    /\ \E top \in SeedCuts(weights, ProfileSeeds) : Send("profile", top)
    /\ UNCHANGED <<setting, seedVars, threshold, tagVars, armVars, scoreVars>>

\* merge_prov and prov_to_map.
Candidates == {p[1] : p \in lf \cup lb}
Recommenders(k) == {p[2] : p \in {q \in lf \cup lb : q[1] = k}}
Display(k) == IF lfName[k] # NoName THEN lfName[k] ELSE lbName[k]

-----------------------------------------------------------------------------
(* Phase 3 and 4: the tag profile, the pages and the reply.                *)

ProfileAnswer(s) ==
    /\ stage = "profile" /\ s \in pending
    /\ profile' = IF <<stage, s>> \in Refused THEN profile
                  ELSE Gained(profile, TagGain(TopTags[s], weights[s]))
    /\ Send(stage, pending \ {s})
    /\ UNCHANGED <<setting, seedVars, threshold, tagVars, armVars, raw, scored, vetoed, reply>>

\* The Last.fm-only build pushes a seed once per spelling it lists.
Count(k) == IF source = "lastfm" THEN Cardinality({p \in lf : p[1] = k})
            ELSE Cardinality(Recommenders(k))

MoreRecommended(k, l) == Count(k) > Count(l) \/ (Count(k) = Count(l) /\ k < l)

\* Only the most recommended candidates are looked up.
FetchPages ==
    /\ stage = "profile" /\ pending = {}
    /\ \E top \in Cuts(Candidates, MaxInfo, MoreRecommended) : Send("pages", top)
    /\ UNCHANGED <<setting, seedVars, threshold, tagVars, armVars, scoreVars>>

PageAnswer(k) ==
    /\ stage = "pages" /\ k \in pending
    /\ raw' = IF <<stage, Display(k)>> \in Refused THEN raw
              ELSE Append(raw, [page |-> Page[Display(k)], seeds |-> Recommenders(k)])
    /\ Send(stage, pending \ {k})
    /\ UNCHANGED <<setting, seedVars, threshold, tagVars, armVars, profile, scored, vetoed, reply>>

Score ==
    /\ stage = "pages" /\ pending = {}
    /\ scored' = score_all(raw, weights, tagPool, profile, threshold)
    /\ Send("vetoes", {})
    /\ UNCHANGED <<setting, seedVars, threshold, tagVars, armVars, profile, raw, vetoed, reply>>

WithoutVetoed(s, out) == Picked(s, LAMBDA t, i : t[i].name \notin out)

\* Not the code: the list is cut before the vetoes.
Mut_CutFirst ==
    /\ stage = "vetoes"
    /\ \E out \in SUBSET {scored[i].name : i \in DOMAIN scored} :
          /\ Cardinality(out) <= MaxVetoed
          /\ vetoed' = out
          /\ LET cut == post_process(scored, profile)
                 keep(s) == SelectSeq(s, LAMBDA n : n \notin out)
             IN  reply' = [cut EXCEPT !.shown = keep(@), !.reserve = keep(@)]
    /\ Send("done", {})
    /\ UNCHANGED <<setting, seedVars, threshold, tagVars, armVars, profile, raw, scored>>

\* The vetoes drop what they decide in time; then the list is cut.
score_and_rank ==
    /\ stage = "vetoes"
    /\ \E out \in SUBSET {scored[i].name : i \in DOMAIN scored} :
          /\ Cardinality(out) <= MaxVetoed
          /\ vetoed' = out
          /\ \E kept \in {WithoutVetoed(scored, out)} : reply' = post_process(kept, profile)
    /\ Send("done", {})
    /\ UNCHANGED <<setting, seedVars, threshold, tagVars, armVars, profile, raw, scored>>

-----------------------------------------------------------------------------
(* A call that fails for now, after its retries.                           *)

\* Not the code: the item is skipped.
Mut_SkipFailed(c) ==
    /\ stage \in FailsClosed /\ c \in pending
    /\ Send(stage, pending \ {c})
    /\ UNCHANGED <<setting, seedVars, threshold, tagVars, armVars, scoreVars>>

CallFails(c) ==
    /\ stage \in FailsClosed /\ c \in pending
    /\ Send("failed", {})
    /\ UNCHANGED <<setting, seedVars, threshold, tagVars, armVars, scoreVars>>

SeedStep == (\E w \in Windows \cup {Year} : ChartAnswer(w)) \/ SeedsChosen
            \/ (\E ok \in BOOLEAN : UserAnswer(ok))
TagStep == (\E s \in Names : SeedInfo(s)) \/ derive_genre_tags \/ (\E t \in Tags : fetch_tag_artists(t))
ArmStep == StartArms \/ (\E s \in Names : SimilarAnswer(s)) \/ LbBudgetEnds \/ ArmsDone
ScoreStep == (\E s \in Names : ProfileAnswer(s)) \/ FetchPages
             \/ (\E k \in Keys : PageAnswer(k)) \/ Score \/ score_and_rank

\* What the run does by itself or gets within the client's timeouts.
Progress == SeedStep \/ TagStep \/ ArmStep \/ ScoreStep \/ (\E c \in pending : CallFails(c))

Next == Progress \/ (\E s \in Names : LbAnswer(s))

Spec == Init /\ [][Next]_vars
FairSpec == Spec /\ WF_vars(Progress)

-----------------------------------------------------------------------------
(* What a run computes, said without an order of arrival.                  *)

Heard == {w \in Asked(period) : <<"charts", w>> \notin Refused}
AddedUp(gain) == [x \in UNION {DOMAIN gain[c] : c \in DOMAIN gain} |->
                     SumOf([c \in DOMAIN gain |-> WeightOf(gain[c], x)])]
RefMerged == AddedUp([w \in Heard |-> SeedGain(Chart[w].entries)])
RefSeeds == IF period = "blend"
            THEN Best(DOMAIN RefMerged, MaxSeeds, LAMBDA m, n : HeavierSeed(RefMerged, m, n))
            ELSE DOMAIN RefMerged
RefWeights == [s \in RefSeeds |-> RefMerged[s]]
TopSeeds(n) == Best(RefSeeds, n, LAMBDA s, t : HeavierSeed(RefMerged, s, t))

RefFreq ==
    AddedUp([s \in {t \in TopSeeds(TagSeeds) : <<"seed_info", t>> \notin Refused} |->
                TagGain(GenreTags(Page[s]), 1)])
RefTagPool ==
    {Norm[a] : a \in UNION {TagTop[t] : t \in
        {u \in Best(DOMAIN RefFreq, TagsDerived, LAMBDA v, w : MoreFrequent(RefFreq, v, w)) :
             <<"tag_top", u>> \notin Refused}}}

RefLf(seeds) == IF source = "listenbrainz" THEN {}
                ELSE UNION {Pushes(s, Similar[s]) : s \in {t \in seeds : <<"similar", t>> \notin Refused}}
RefLb == UNION {Pushes(s, LbSimilar[s]) : s \in lbGot}

RefProfile ==
    AddedUp([s \in {t \in TopSeeds(ProfileSeeds) : <<"profile", t>> \notin Refused} |->
                TagGain(TopTags[s], RefMerged[s])])
Asks == {k \in Best(Candidates, MaxInfo, MoreRecommended) : <<"pages", Display(k)>> \notin Refused}
RefRaw == Kept([k \in Asks |-> [page |-> Page[Display(k)], seeds |-> Recommenders(k)]], Asks)
RefScored == score_all(RefRaw, RefWeights, RefTagPool, RefProfile, threshold)

\* Pages that share a key are on the same side of the ceiling, and two keys
\* that resolve to one page get a score that tells their seeds apart.
\* Otherwise it depends on the order of the pages whether a collaboration
\* has a star inside, and which of two equal scores is kept.
Unambiguous ==
    \A m, n \in Names :
        /\ Norm[Page[m]] = Norm[Page[n]] =>
              (Info[Page[m]].listeners > Ceiling <=> Info[Page[n]].listeners > Ceiling)
        /\ Page[m] = Page[n] /\ Norm[m] # Norm[n] => Info[Page[m]].stickiness > 0

-----------------------------------------------------------------------------
(* The types of the variables.                                             *)
TypeOK ==
    /\ period \in Periods /\ source \in {"lastfm", "listenbrainz", "blend"}
    /\ stage \in FailsClosed \cup {"user_info", "vetoes", "done", "failed"}
    /\ DOMAIN weights \subseteq Names /\ weights \in [DOMAIN weights -> Nat] /\ lbPending \subseteq DOMAIN weights
    /\ lbGot \subseteq DOMAIN weights \ lbPending
    /\ lf \subseteq Keys \X (DOMAIN weights) \X Names /\ lb \subseteq Keys \X (DOMAIN weights) \X Names
    /\ lfName \in [Keys -> Names \cup {NoName}] /\ lbName \in [Keys -> Names \cup {NoName}]
    /\ DOMAIN freq \subseteq Tags /\ freq \in [DOMAIN freq -> Nat] /\ tagPool \subseteq Keys
    /\ DOMAIN profile \subseteq Tags /\ profile \in [DOMAIN profile -> Nat]
    /\ raw \in Seq([page : Names, seeds : SUBSET Names])

(* The arms are merged when both are done: the pool then holds what        *)
(* Last.fm says of every seed that is not refused, and of ListenBrainz     *)
(* exactly the seeds that came in before the budget ended, whichever arm   *)
(* was first (race_arms, merge_prov).                                      *)
PoolExact ==
    stage \in {"profile", "pages", "vetoes", "done"} =>
        lf = RefLf(DOMAIN weights) /\ lb = RefLb

(* A run that is not failed gives what the answers determine, whatever     *)
(* order they came in: the same seeds, tags, candidates and ranking.  Left *)
(* open are the threshold (user.getinfo fails open), the ListenBrainz      *)
(* seeds in time, the spelling under which a candidate is looked up, and   *)
(* the vetoes.  "#candidates and the obscurity score are reproducible".    *)
ReplyReproducible ==
    /\ stage \in {"vetoes", "done"} => weights = RefWeights /\ scored = RefScored
    /\ stage = "done" => reply = post_process(WithoutVetoed(RefScored, vetoed), RefProfile)

Offered == ToSet(reply.shown) \cup ToSet(reply.reserve)

(* Nobody is offered twice, also when two candidates turn out to be one    *)
(* page (autocorrect), and nobody whom the user listens to: no seed under  *)
(* any spelling, nobody played beyond the threshold.                       *)
NobodyTwiceNorKnown ==
    stage = "done" =>
        /\ \A m, n \in Offered : Norm[m] = Norm[n] => m = n
        /\ Cardinality(Offered) = Len(reply.shown) + Len(reply.reserve)
        /\ \A n \in Offered : /\ \A s \in DOMAIN weights : Norm[s] # Norm[n]
                              /\ ~TooPlayed(n, threshold)

(* Diversity and the cap waste nothing: whoever is ranked and neither      *)
(* vetoed nor offered has a genre whose slots are taken, and the reserve   *)
(* is empty unless the reply is full.  So every drop is made up for by the *)
(* next-ranked candidate.                                                  *)
NobodyWasted ==
    stage = "done" =>
        LET kept == WithoutVetoed(scored, vetoed)
            genre(n) == primary_genre(n, aggregate_genres(kept))
        IN  /\ \A i \in DOMAIN kept : kept[i].name \notin Offered =>
                   Cardinality({n \in Offered : genre(n) = genre(kept[i].name)}) >= GenreSlots
            /\ reply.reserve # None => Len(reply.shown) = MaxShown

(* Every run ends: an arm that hangs is cut off by its budget, and calls   *)
(* to Last.fm answer or fail after their retries.                          *)
RunEnds == <>(stage \in {"done", "failed"})
=============================================================================
