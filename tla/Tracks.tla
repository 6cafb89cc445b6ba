------------------------------- MODULE Tracks -------------------------------
(***************************************************************************)
(* The track pipeline (backend/src/pipeline: track_seeds.rs,               *)
(* track_candidates.rs, track_scoring.rs) behind track_discovery_handler,  *)
(* for one user and period: requests follow each other, and a reply may    *)
(* come from the cache.  Unlike the artist pipeline it never fails for a   *)
(* call that fails, except for the only chart of a single period: what     *)
(* does not come is left out.                                              *)
(*                                                                         *)
(* As in Discovery the answers are constants, weights are in hundredths    *)
(* and stickiness is a whole number.  Nothing here breaks ties.            *)
(***************************************************************************)
EXTENDS Ranking

CONSTANTS
    Artists, Titles,    \* in lower case
    Keys, Norm,         \* normalize_artist_name
    Windows,            \* the windows of the blend
    Chart,              \* user.gettoptracks of a window
    Similar,            \* artist.getsimilar of an artist
    TopTracks,          \* artist.gettoptracks
    Tags,
    ArtistTags,         \* artist.gettoptags
    Info,               \* track.getinfo of <<artist, title>>; NoTrack
    Ceiling, MaxSeeds, MaxSeedArtists, MaxExpand, MaxInfo, ProfileSeeds,
    GenreSlots, MaxGenres, MaxResults,
    MaxRequests,        \* bound: requests
    MaxFails,           \* bound: failed calls
    NoTrack

VARIABLES
    period,     \* "blend" or a window
    unknown,    \* whether Last.fm does not know the user
    stage,      \* the stage that is under way
    pending,    \* its calls without an answer
    custom,     \* the request brings an api key of its own: no cache
    weights,    \* TrackSeeds.weights
    entries,    \* TrackSeeds.entries
    tally,      \* similar artists: display name and how many seeds led there
    pool,       \* TrackCandidateMap
    scored,     \* scored tracks in arrival order
    profile,    \* the seed tag profile
    reply,      \* the tracks of the last reply
    cache,      \* the cached reply; << >> without one
    requests, fails,
    degraded    \* history: calls of this run failed

setting == <<period, unknown>>
results == <<reply, cache>>
run == <<weights, entries, tally, pool, scored, profile>>
vars == <<setting, stage, pending, custom, run, results, requests, fails, degraded>>

Seeds == Artists \X Titles
Send(st, calls) == stage' = st /\ pending' = calls
Blend == period = "blend"
Asked == IF Blend THEN Windows ELSE {period}

ASSUME TracksAssumption ==
    /\ IsFiniteSet(Artists) /\ IsFiniteSet(Titles) /\ IsFiniteSet(Tags) /\ IsFiniteSet(Windows)
    /\ Norm \in [Artists -> Keys] /\ "blend" \notin Windows
    /\ \A w \in Windows : Chart[w] \in Seq([track : Seeds, weight : Nat])
    /\ \A a \in Artists : /\ Similar[a] \in Seq(Artists) /\ TopTracks[a] \subseteq Titles
                          /\ ArtistTags[a] \in Seq(Tags)
    /\ \A t \in Seeds : Info[t] # NoTrack =>
           /\ {Info[t].plays, Info[t].listeners, Info[t].stickiness} \subseteq Nat
           /\ Info[t].tags \in Seq(Tags)
    /\ {MaxSeeds, MaxSeedArtists, MaxExpand, MaxInfo, GenreSlots, MaxResults} \subseteq Nat \ {0}
    /\ {Ceiling, MaxRequests, MaxFails} \subseteq Nat

Fresh == /\ weights' = Empty /\ entries' = << >> /\ tally' = Empty
         /\ pool' = {} /\ scored' = << >> /\ profile' = Empty

Init ==
    /\ period \in Windows \cup {"blend"} /\ unknown \in BOOLEAN
    /\ stage = "idle" /\ pending = {} /\ custom = FALSE
    /\ weights = Empty /\ entries = << >> /\ tally = Empty
    /\ pool = {} /\ scored = << >> /\ profile = Empty
    /\ reply = << >> /\ cache = << >>
    /\ requests = 0 /\ fails = 0 /\ degraded = FALSE

-----------------------------------------------------------------------------

\* track_discovery_handler: the cache answers, or a run starts.
Ask(own) ==
    /\ stage = "idle" /\ requests < MaxRequests
    /\ requests' = requests + 1 /\ custom' = own
    /\ IF cache # << >> /\ ~own
       THEN reply' = cache /\ UNCHANGED <<stage, pending, run, degraded>>
       ELSE Send("charts", Asked) /\ Fresh /\ degraded' = FALSE /\ UNCHANGED reply
    /\ UNCHANGED <<setting, cache, fails>>

\* An error or the empty reply: nothing is cached.
Refuse == Send("idle", {}) /\ reply' = << >> /\ UNCHANGED cache

Listed(w, t) == {i \in DOMAIN Chart[w] : Chart[w][i].track = t}
Weight(w, t) == IF Blend THEN SumOf([i \in Listed(w, t) |-> Chart[w][i].weight])
                ELSE Chart[w][Max(Listed(w, t))].weight

\* A track that the chart lists twice counts once in a single period.
ChartAnswer(w) ==
    /\ stage = "charts" /\ w \in pending /\ ~unknown
    /\ weights' = [t \in DOMAIN weights \cup {Chart[w][i].track : i \in DOMAIN Chart[w]} |->
           IF Listed(w, t) = {} THEN weights[t]
           ELSE Weight(w, t) + IF Blend THEN WeightOf(weights, t) ELSE 0]
    /\ Send(stage, pending \ {w})
    /\ UNCHANGED <<setting, custom, entries, tally, pool, scored, profile, results, requests, fails, degraded>>

\* The blend passes over an unknown user like over any other error.
UserUnknown(w) ==
    /\ stage = "charts" /\ w \in pending /\ unknown
    /\ IF Blend THEN Send(stage, pending \ {w}) /\ UNCHANGED results ELSE Refuse
    /\ UNCHANGED <<setting, custom, run, requests, fails, degraded>>

\* build_seeds: all orders of the tracks by weight.
Orders == {s \in SetToSeqs(DOMAIN weights) :
              \A i, j \in DOMAIN s : i < j => weights[s[i]] >= weights[s[j]]}

\* The first artists of the seeds, without those of the same key.
SeedArtists(s) ==
    {e[1] : e \in ToSet(Take(Picked(s, LAMBDA t, i : \A j \in 1..(i - 1) : Norm[t[j][1]] # Norm[t[i][1]]),
                             MaxSeedArtists))}

\* Not the code: an empty chart is waited for.
Mut_NoEarlyReturn ==
    /\ stage = "charts" /\ pending = {} /\ weights # Empty
    /\ \E s \in Orders : /\ entries' = Take(s, MaxSeeds)
                         /\ Send("similar", SeedArtists(Take(s, MaxSeeds)))
    /\ UNCHANGED <<setting, custom, weights, tally, pool, scored, profile, results, requests, fails, degraded>>

build_seeds ==
    /\ stage = "charts" /\ pending = {}
    /\ IF weights = Empty THEN Refuse /\ UNCHANGED entries
       ELSE \E s \in Orders : /\ entries' = Take(s, MaxSeeds)
                              /\ Send("similar", SeedArtists(Take(s, MaxSeeds)))
                              /\ UNCHANGED results
    /\ UNCHANGED <<setting, custom, weights, tally, pool, scored, profile, requests, fails, degraded>>

Known == {Norm[a] : a \in SeedArtists(entries)}

\* Every mention counts; the first spelling of a key stays.
Spelling(k, list) == {i \in DOMAIN list : Norm[list[i]] = k}
Voted(keys, list) ==
    [k \in DOMAIN tally \cup keys |->
        IF k \in DOMAIN tally THEN [tally[k] EXCEPT !.count = @ + Cardinality(Spelling(k, list))]
        ELSE [name |-> list[Min(Spelling(k, list))], count |-> Cardinality(Spelling(k, list))]]

\* Not the code: an artist of the seeds is a candidate.
Mut_KeepKnown(a) ==
    /\ stage = "similar" /\ a \in pending
    /\ tally' = Voted({Norm[s] : s \in ToSet(Similar[a])}, Similar[a])
    /\ Send(stage, pending \ {a})
    /\ UNCHANGED <<setting, custom, weights, entries, pool, scored, profile, results, requests, fails, degraded>>

\* Not the code: a second seed that leads to an artist starts its count anew.
Mut_CountOnce(a) ==
    /\ stage = "similar" /\ a \in pending
    /\ tally' = [k \in DOMAIN tally \cup {Norm[s] : s \in {t \in ToSet(Similar[a]) : Norm[t] \notin Known}} |->
           IF \E s \in ToSet(Similar[a]) : Norm[s] = k
           THEN [name |-> CHOOSE s \in ToSet(Similar[a]) : Norm[s] = k, count |-> 1] ELSE tally[k]]
    /\ Send(stage, pending \ {a})
    /\ UNCHANGED <<setting, custom, weights, entries, pool, scored, profile, results, requests, fails, degraded>>

\* The similar artists of a seed, without those of the seeds.
SimilarAnswer(a) ==
    /\ stage = "similar" /\ a \in pending
    /\ tally' = Voted({Norm[s] : s \in ToSet(Similar[a])} \ Known, Similar[a])
    /\ Send(stage, pending \ {a})
    /\ UNCHANGED <<setting, custom, weights, entries, pool, scored, profile, results, requests, fails, degraded>>

MostNamed == Cuts(DOMAIN tally, MaxExpand, LAMBDA k, l : tally[k].count > tally[l].count)

Expand ==
    /\ stage = "similar" /\ pending = {}
    /\ \E top \in MostNamed : Send("tracks", top)
    /\ UNCHANGED <<setting, custom, run, results, requests, fails, degraded>>

\* The tracks of an artist, then its tags; tags that fail are none.
TracksAnswer(k, tagged) ==
    /\ stage = "tracks" /\ k \in pending /\ (tagged \/ fails < MaxFails)
    /\ fails' = IF tagged THEN fails ELSE fails + 1
    /\ degraded' = (degraded \/ ~tagged)
    /\ LET name == tally[k].name
       IN  pool' = pool \cup
               {[artist |-> name, title |-> t, count |-> tally[k].count,
                 tags |-> IF tagged THEN ArtistTags[name] ELSE << >>] : t \in TopTracks[name]}
    /\ Send(stage, pending \ {k})
    /\ UNCHANGED <<setting, custom, weights, entries, tally, scored, profile, results, requests>>

MostVoted == Cuts(pool, MaxInfo, LAMBDA c, d : c.count > d.count)

FetchInfo ==
    /\ stage = "tracks" /\ pending = {}
    /\ IF pool = {} THEN Refuse
       ELSE /\ \E top \in MostVoted : Send("info", top)
            /\ UNCHANGED results
    /\ UNCHANGED <<setting, custom, run, requests, fails, degraded>>

\* Not the code: whether the user played a track does not matter.
Mut_IgnorePlays(c) ==
    LET info == Info[<<c.artist, c.title>>]
        seeds == Cardinality(SeedArtists(entries))
    IN  IF info = NoTrack \/ info.listeners > Ceiling THEN << >>
        ELSE << [track |-> <<c.artist, c.title>>,
                 conviction |-> (100 * c.count) \div seeds,
                 composite |-> c.count * info.stickiness,
                 tags |-> IF info.tags # << >> THEN info.tags ELSE c.tags] >>

\* score_candidate: nothing that Last.fm does not know, that is played or too
\* well known.
score_candidate(c) ==
    LET info == Info[<<c.artist, c.title>>]
        seeds == Cardinality(SeedArtists(entries))
    IN  IF info = NoTrack \/ info.plays > 0 \/ info.listeners > Ceiling THEN << >>
        ELSE << [track |-> <<c.artist, c.title>>,
                 conviction |-> (100 * c.count) \div seeds,
                 composite |-> c.count * info.stickiness,
                 tags |-> IF info.tags # << >> THEN info.tags ELSE c.tags] >>

InfoAnswer(c) ==
    /\ stage = "info" /\ c \in pending
    /\ scored' = scored \o score_candidate(c)
    /\ Send(stage, pending \ {c})
    /\ UNCHANGED <<setting, custom, weights, entries, tally, pool, profile, results, requests, fails, degraded>>

\* build_seed_tag_profile: the artists that weigh most in the seeds.
ArtistWeight(a) ==
    SumOf([i \in {j \in DOMAIN entries : entries[j][1] = a} |-> weights[entries[i]]])

Profile ==
    /\ stage = "info" /\ pending = {}
    /\ \E top \in Cuts({entries[i][1] : i \in DOMAIN entries}, ProfileSeeds,
                       LAMBDA a, b : ArtistWeight(a) > ArtistWeight(b)) : Send("profile", top)
    /\ UNCHANGED <<setting, custom, run, results, requests, fails, degraded>>

ProfileAnswer(a) ==
    /\ stage = "profile" /\ a \in pending
    /\ profile' = Gained(profile, TagGain(Take(ArtistTags[a], 5), ArtistWeight(a)))
    /\ Send(stage, pending \ {a})
    /\ UNCHANGED <<setting, custom, weights, entries, tally, pool, scored, results, requests, fails, degraded>>

-----------------------------------------------------------------------------

Better(a, b) == a.composite > b.composite

\* aggregate_genres: every tag with its share, counted at least once.
GenreWeights ==
    [t \in UNION {ToSet(Take(scored[i].tags, 3)) : i \in DOMAIN scored} |->
        SumOf([i \in DOMAIN scored |-> Max({scored[i].conviction, 1}) * Occurs(t, Take(scored[i].tags, 3))])]

uplift(a) ==
    LET full == Heaviest(profile)
        fit == SumOf([i \in DOMAIN a.tags |-> WeightOf(profile, a.tags[i])])
    IN  [a EXCEPT !.composite = @ * (2 * full + Min({fit, full}))]

\* The last of the heaviest tags; the artist when there are no tags.
primary_genre(a, genres) ==
    IF a.tags = << >> THEN <<"untagged", a.track[1]>>
    ELSE <<"tag", a.tags[CHOOSE i \in DOMAIN a.tags : \A j \in DOMAIN a.tags :
             \/ WeightOf(genres, a.tags[j]) < WeightOf(genres, a.tags[i])
             \/ WeightOf(genres, a.tags[j]) = WeightOf(genres, a.tags[i]) /\ j <= i]>>

\* post_process: genre fit, diversity and the cap.
post_process(genres) ==
    LET ranked == SortedBy(Mapped(SortedBy(scored, Better), uplift), Better)
        tagged == Mapped(ranked, LAMBDA a : [track |-> a.track, genre |-> primary_genre(a, genres)])
        diverse == Picked(tagged, LAMBDA t, i :
                       Cardinality({j \in 1..(i - 1) : t[j].genre = t[i].genre}) < GenreSlots)
    IN  Mapped(Take(diverse, MaxResults), LAMBDA a : a.track)

\* The reply is cached unless it is empty.
Reply ==
    /\ stage = "profile" /\ pending = {}
    /\ \E top \in Cuts(DOMAIN GenreWeights, MaxGenres,
                       LAMBDA t, u : GenreWeights[t] > GenreWeights[u]) :
          reply' = post_process([t \in top |-> GenreWeights[t]])
    /\ IF reply' # << >> /\ ~custom
       THEN cache' = reply' ELSE UNCHANGED cache
    /\ Send("idle", {})
    /\ UNCHANGED <<setting, custom, run, requests, fails, degraded>>

\* A call fails after its retries.
CallFails(c) ==
    /\ c \in pending /\ fails < MaxFails /\ fails' = fails + 1 /\ degraded' = TRUE
    /\ IF stage = "charts" /\ ~Blend THEN Refuse ELSE Send(stage, pending \ {c}) /\ UNCHANGED results
    /\ UNCHANGED <<setting, custom, run, requests>>

\* The entry is older than DEFAULT_TTL_SECS.
Expire ==
    /\ cache # << >> /\ cache' = << >>
    /\ UNCHANGED <<setting, stage, pending, custom, run, reply, requests, fails, degraded>>

\* What a run does by itself or gets within the client's timeouts.
Progress ==
    \/ \E w \in Windows : ChartAnswer(w) \/ UserUnknown(w)
    \/ \E a \in Artists : SimilarAnswer(a) \/ ProfileAnswer(a)
    \/ \E k \in Keys, tagged \in BOOLEAN : TracksAnswer(k, tagged)
    \/ \E c \in pending : InfoAnswer(c) \/ CallFails(c)
    \/ build_seeds \/ Expand \/ FetchInfo \/ Profile \/ Reply

Next == Progress \/ (\E own \in BOOLEAN : Ask(own)) \/ Expire

Spec == Init /\ [][Next]_vars
FairSpec == Spec /\ WF_vars(Progress)

-----------------------------------------------------------------------------
(* What a run gathers, said without an order of arrival.                   *)

WeightsOf(windows) ==
    [t \in UNION {{Chart[w][i].track : i \in DOMAIN Chart[w]} : w \in windows} |->
        SumOf([w \in windows |-> IF Listed(w, t) = {} THEN 0 ELSE Weight(w, t)])]

\* Every mention of an artist by one of the seeds is a vote.
Votes(seeds, k) == UNION {{a} \X Spelling(k, Similar[a]) : a \in seeds}
RefTally(seeds) == [k \in {l \in Keys \ Known : Votes(seeds, l) # {}} |-> Cardinality(Votes(seeds, k))]

Gathered(top) ==
    UNION {{[artist |-> tally[k].name, title |-> t, count |-> tally[k].count,
             tags |-> ArtistTags[tally[k].name]] : t \in TopTracks[tally[k].name]} : k \in top}

\* A track with its tags left out.
Bare(tracks) == {<<c.artist, c.title, c.count>> : c \in tracks}

-----------------------------------------------------------------------------
(* The types of the variables.                                             *)
TypeOK ==
    /\ period \in Windows \cup {"blend"} /\ unknown \in BOOLEAN /\ custom \in BOOLEAN
    /\ stage \in {"idle", "charts", "similar", "tracks", "info", "profile"}
    /\ (stage = "idle" => pending = {}) /\ (stage = "info" => pending \subseteq pool)
    /\ DOMAIN weights \subseteq Seeds /\ entries \in Seq(DOMAIN weights) /\ Len(entries) <= MaxSeeds
    /\ DOMAIN tally \subseteq Keys \ Known
    /\ \A c \in pool : Norm[c.artist] \in DOMAIN tally
    /\ reply \in Seq(Seeds) /\ cache \in Seq(Seeds)
    /\ requests \in 0..MaxRequests /\ fails \in 0..MaxFails /\ degraded \in BOOLEAN

(* A run whose calls are all answered gathers what the answers determine,  *)
(* in whatever order they come (only the spelling of an artist and ties at *)
(* a cut are open); and a call that fails costs nothing but what it would  *)
(* have brought: no count gets higher by it, no track of another artist is *)
(* lost or gained (collect_blend, build, score_and_rank).                  *)
PoolTells ==
    stage \in {"info", "profile"} =>
        LET ref == RefTally(SeedArtists(entries))
            counts == [k \in DOMAIN tally |-> tally[k].count]
        IN  /\ \A k \in DOMAIN tally : k \in DOMAIN ref /\ counts[k] <= ref[k]
            /\ \E top \in MostNamed : \E got \in SUBSET top : Bare(pool) = Bare(Gathered(got))
            /\ ~degraded => /\ weights = WeightsOf(Asked) /\ counts = ref
                            /\ \E top \in MostNamed : pool = Gathered(top)
                            /\ stage = "profile" =>
                                   \E top \in MostVoted :
                                       ToSet(scored) = UNION {ToSet(score_candidate(c)) : c \in top}

(* A reply that a run makes lists no track twice, none that the user has   *)
(* played or that is too well known, and none by an artist of the seeds    *)
(* under any spelling; and it is empty only when nothing was scored,       *)
(* however the genres fall (score_and_rank, enforce_diversity).            *)
ReplySound ==
    [][stage = "profile" /\ stage' = "idle" =>
        /\ Cardinality(ToSet(reply')) = Len(reply')
        /\ \A t \in ToSet(reply') : /\ Info[t].plays = 0 /\ Info[t].listeners <= Ceiling
                                    /\ Norm[t[1]] \notin Known
        /\ scored # << >> => reply' # << >>]_vars

(* Every request ends, whatever fails: with a reply, an empty one or an    *)
(* error.                                                                  *)
RequestEnds == stage # "idle" ~> stage = "idle"
=============================================================================
