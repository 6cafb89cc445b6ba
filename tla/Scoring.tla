------------------------------ MODULE Scoring ------------------------------
(***************************************************************************)
(* From the answered artist pages to the reply (backend/src/pipeline/      *)
(* scoring.rs).  Names, keys and tags are numbers: their order stands for  *)
(* the order of the strings, which breaks ties.  Weights are in            *)
(* hundredths and stickiness is a whole number, so a composite score is    *)
(* exact; the code's are f64.                                              *)
(***************************************************************************)
EXTENDS Ranking

CONSTANTS
    Names,          \* artist names as they are spelled somewhere
    Norm,           \* normalize_artist_name: the key of a name
    Info,           \* what artist.getinfo says of a page, by its name
    Geo,            \* GEO_TAGS
    Untagged,       \* the genre of an artist without tags
    NoThreshold,    \* strict: whoever was played is out
    Ceiling,        \* MAX_LISTENER_CEILING
    ConvictionCap, CrossBonus, OverlapTags, OverlapPercent,
    GenreSlots,     \* DIVERSITY_SLOTS_PER_GENRE
    MaxGenres,      \* genres in the reply
    MaxShown        \* MAX_RECOMMENDATIONS

ASSUME ScoringAssumption ==
    /\ Names \subseteq Int /\ IsFiniteSet(Names)
    /\ \A n \in Names : Info[n].stickiness \in Nat
    /\ ConvictionCap \in Nat /\ CrossBonus \in Nat
    /\ GenreSlots \in Nat \ {0} /\ MaxShown \in Nat

-----------------------------------------------------------------------------
(* One candidate: the page it was found on and the seeds that led to it.   *)

\* A collaboration one of whose artists is in the run with too many
\* listeners; of pages that share a key the last one answered counts.
StarInside(page, raw) ==
    \E part \in Info[page].parts, i \in DOMAIN raw :
        /\ Norm[raw[i].page] = Norm[part]
        /\ \A j \in DOMAIN raw : Norm[raw[j].page] = Norm[part] => j <= i
        /\ Info[raw[i].page].listeners > Ceiling

TooPlayed(page, threshold) ==
    IF threshold = NoThreshold THEN Info[page].plays > 0
                               ELSE Info[page].plays >= threshold

CrossValidated(page, tagPool, profile) ==
    \/ Norm[page] \in tagPool
    \/ Cardinality({i \in DOMAIN Info[page].tags :
           /\ WeightOf(profile, Info[page].tags[i]) > 0
           /\ 100 * WeightOf(profile, Info[page].tags[i])
                  >= OverlapPercent * Heaviest(profile)}) >= OverlapTags

conviction(page, seeds, weights, tagPool, profile) ==
    SumOf([s \in seeds \cap DOMAIN weights |-> Min({weights[s], ConvictionCap})])
        + (IF CrossValidated(page, tagPool, profile) THEN CrossBonus ELSE 0)

score_candidate(c, weights, tagPool, profile) ==
    LET conv == conviction(c.page, c.seeds, weights, tagPool, profile)
    IN  [name |-> c.page, conviction |-> conv, composite |-> conv * Info[c.page].stickiness]

Better(a, b) == a.composite > b.composite \/ (a.composite = b.composite /\ a.name < b.name)

\* Not the code: candidates that resolve to one page stay apart.
Mut_NoDedup(s) == s

dedup_scored_by_name(s) ==
    Picked(s, LAMBDA t, i : \A j \in 1..(i - 1) : Norm[t[j].name] # Norm[t[i].name])

Eligible(page, raw, weights, threshold) ==
    /\ ~Info[page].nonMusic
    /\ ~TooPlayed(page, threshold)
    /\ Norm[page] \notin {Norm[s] : s \in DOMAIN weights}
    /\ Info[page].listeners <= Ceiling
    /\ ~StarInside(page, raw)

\* The ranked list: raw holds the answered pages in the order they came in.
score_all(raw, weights, tagPool, profile, threshold) ==
    LET eligible == Picked(raw, LAMBDA r, i : Eligible(r[i].page, r, weights, threshold))
        scored == Mapped(eligible, LAMBDA c : score_candidate(c, weights, tagPool, profile))
    IN  dedup_scored_by_name(SortedBy(scored, Better))

-----------------------------------------------------------------------------
(* Genre fit, diversity and the cap.                                       *)

GenreTags(name) == Take(Info[name].tags, 3)

\* aggregate_genres: the five heaviest tags of the result that are genres.
aggregate_genres(s) ==
    LET tags == UNION {ToSet(GenreTags(s[i].name)) : i \in DOMAIN s}
        weight == [t \in tags |-> SumOf([i \in DOMAIN s |->
                      s[i].conviction * Occurs(t, GenreTags(s[i].name))])]
        heavier(t, u) == weight[t] > weight[u] \/ (weight[t] = weight[u] /\ t < u)
        top == Best(tags \ Geo, MaxGenres, heavier)
    IN  [t \in top |-> weight[t]]

\* The uplift for genre fit, up to a half, over the common denominator.
uplift(a, profile) ==
    LET full == Heaviest(profile)
        tags == Info[a.name].tags
        fit == SumOf([i \in DOMAIN tags |-> WeightOf(profile, tags[i])])
    IN  [a EXCEPT !.composite = @ * (2 * full + Min({fit, full}))]

\* max_by returns the last of several maxima.
primary_genre(name, genres) ==
    LET tags == Info[name].tags
    IN  IF tags = << >> THEN Untagged
        ELSE tags[CHOOSE i \in DOMAIN tags : \A j \in DOMAIN tags :
                 \/ WeightOf(genres, tags[j]) < WeightOf(genres, tags[i])
                 \/ WeightOf(genres, tags[j]) = WeightOf(genres, tags[i]) /\ j <= i]

enforce_diversity(s, genres) ==
    LET tagged == Mapped(s, LAMBDA a : [name |-> a.name, genre |-> primary_genre(a.name, genres)])
    IN  Picked(tagged, LAMBDA t, i :
            Cardinality({j \in 1..(i - 1) : t[j].genre = t[i].genre}) < GenreSlots)

\* The reply and the reserve that later fills up for dismissed artists.
rank_and_cut(scored, genres, profile) ==
    LET ranked == SortedBy(Mapped(scored, LAMBDA a : uplift(a, profile)), Better)
        named == Mapped(enforce_diversity(ranked, genres), LAMBDA a : a.name)
    IN  [shown |-> Take(named, MaxShown),
         reserve |-> SubSeq(named, MaxShown + 1, Len(named)),
         genres |-> DOMAIN genres]

post_process(scored, profile) == The({rank_and_cut(scored, g, profile) : g \in {aggregate_genres(scored)}})
=============================================================================
