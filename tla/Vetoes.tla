------------------------------- MODULE Vetoes -------------------------------
(***************************************************************************)
(* The veto stage of concurrent discoveries (apply_vetoes in scoring.rs):  *)
(* the Deezer fan counts (deezer.rs) beside the split-page vetoes          *)
(* (split_veto.rs), each under a budget of its own.  Discoveries share the *)
(* caches, Deezer's call window, its permits and its cooldown; the page    *)
(* lookups of a discovery share a memo.                                    *)
(*                                                                         *)
(* What Deezer and Last.fm would answer is constant; open are the          *)
(* interleaving, what fails, and when a budget ends.  What the split stage *)
(* queues for the metadata worker is ArtistMeta's concern.                 *)
(***************************************************************************)
EXTENDS Vectors, SequencesExt

CONSTANTS
    Discoveries,
    Names,          \* ranked candidates, members and aliases
    Ranked,         \* the ranked list of every discovery
    InScope,        \* names whose tags are in scope
    Fans,           \* what Deezer says of a name; NoFans without a match
    Own,            \* a candidate's own page as the scoring read it
    Credited,       \* split_collab of a name, of the members that name somebody at
                    \* most MAX_MEMBERS: {} when it is not a collaboration
    Generic,        \* members that name nobody ("friends", "orchestra")
    Aliases,        \* stored aliases of a name
    Page,           \* the page that <<name, autocorrect>> leads to; NoPage
    VetoFans, Ceiling, MaxChecked,
    Permits,        \* CONCURRENCY of deezer.rs
    PagePermits,    \* LASTFM_CONCURRENCY of split_veto.rs
    Window, MaxCalls,
    Cooldowns,      \* how long a 429 or a quota error keeps calls away
    MaxTime,        \* bound: clock
    MaxFails,       \* bound: failed calls
    NoFans, NoMbid, NoPage

VARIABLES
    fansKnown,      \* CacheStore: names whose fan count is cached
    pageKnown,      \* CacheStore: pages that are cached
    calls,          \* the times of the calls in the window
    cooldown,       \* cooldown_until
    look,           \* fan_count of a candidate, by discovery
    memo,           \* page lookups, by discovery
    rows,           \* the stored aliases: "unread", "read" or "unreadable"
    open,           \* what is still to end: its two arms, the stage
    kept,           \* its list after the vetoes
    clock, fails,
    sent,           \* history: the times of all calls to Deezer
    late,           \* history: calls since the cooldown began
    spoilt          \* history: <<arm, name>> that a failure left undecided

deezerVars == <<fansKnown, calls, cooldown, look, sent, late>>
splitVars == <<pageKnown, memo, rows>>
vars == <<deezerVars, splitVars, open, kept, clock, fails, spoilt>>

Arms == {"deezer", "collab", "alias"}

\* The first MaxChecked names of s that pass the test.
FirstOf(s, Test(_)) ==
    {s[i] : i \in {j \in DOMAIN s : Test(s[j]) /\ Cardinality({k \in 1..j : Test(s[k])}) <= MaxChecked}}

Candidates == [d \in Discoveries |-> ToSet(Ranked[d])]

\* The candidates that a veto looks at.
FanTargets == [d \in Discoveries |-> FirstOf(Ranked[d], LAMBDA n : n \in InScope)]
CollabTargets == [d \in Discoveries |-> FirstOf(Ranked[d], LAMBDA n : Credited[n] # {})]
AliasTargets == [d \in Discoveries |-> FirstOf(Ranked[d], LAMBDA n : TRUE)]

\* The pages that decide about a name.
MemberPages == [n \in Names |-> {<<m, TRUE>> : m \in Credited[n] \ Generic}]
AliasPages == [n \in Names |-> {<<a, FALSE>> : a \in Aliases[n] \ {n}}]
PageKeys == UNION {MemberPages[n] \cup AliasPages[n] : n \in Names}

ASSUME VetoesAssumption ==
    /\ IsFiniteSet(Discoveries) /\ IsFiniteSet(Names)
    /\ Ranked \in [Discoveries -> Seq(Names)] /\ InScope \subseteq Names /\ Generic \subseteq Names
    /\ DOMAIN Own = Names /\ DOMAIN Fans = Names /\ PageKeys \subseteq DOMAIN Page
    /\ \A n \in Names : Own[n].listeners \in Nat
    /\ \A k \in PageKeys : Page[k] # NoPage => Page[k].listeners \in Nat
    /\ Ceiling \in Nat
    /\ \A n \in Names : Credited[n] \subseteq Names /\ Aliases[n] \subseteq Names
    /\ {Permits, PagePermits, MaxCalls, Window, MaxChecked} \subseteq Nat \ {0}
    /\ MaxTime \in Nat /\ MaxFails \in Nat /\ Cooldowns \subseteq Nat \ {0}

Init ==
    /\ fansKnown = {} /\ pageKnown = {} /\ calls = << >> /\ cooldown = 0
    /\ look = [d \in Discoveries |-> [n \in FanTargets[d] |-> "start"]]
    /\ memo = [d \in Discoveries |-> [k \in PageKeys |-> "absent"]]
    /\ rows = [d \in Discoveries |-> "unread"]
    /\ open = [d \in Discoveries |-> {"deezer", "split", "stage"}]
    /\ kept = [d \in Discoveries |-> << >>]
    /\ clock = 0 /\ fails = 0 /\ sent = << >> /\ late = 0
    /\ spoilt = [d \in Discoveries |-> {}]

Running(d, arm) == arm \in open[d]
Spoil(d, arm, names) == spoilt' = [spoilt EXCEPT ![d] = @ \cup ({arm} \X names)]

-----------------------------------------------------------------------------
(* The Deezer arm: fan_count of every candidate in scope.                  *)

Move(d, n, st) == look' = [look EXCEPT ![d][n] = st]
InCooldown == cooldown > clock

\* The cache and the cooldown are asked before a permit is.
FanCached(d, n) ==
    /\ Running(d, "deezer") /\ look[d][n] = "start"
    /\ \/ n \in fansKnown /\ Move(d, n, "known") /\ UNCHANGED spoilt
       \/ n \notin fansKnown /\ InCooldown /\ Move(d, n, "unknown") /\ Spoil(d, "deezer", {n})
       \/ n \notin fansKnown /\ ~InCooldown /\ Move(d, n, "waits") /\ UNCHANGED spoilt
    /\ UNCHANGED <<fansKnown, calls, cooldown, sent, late, splitVars, open, kept, clock, fails>>

Holders == {x \in UNION {{d} \X FanTargets[d] : d \in Discoveries} :
               /\ Running(x[1], "deezer") /\ look[x[1]][x[2]] \in {"permitted", "sent"}}

\* Not the code: the cooldown is not looked at again with the permit.
Mut_NoRecheck(d, n) ==
    /\ Running(d, "deezer") /\ look[d][n] = "waits" /\ Cardinality(Holders) < Permits
    /\ Move(d, n, "permitted")
    /\ UNCHANGED <<fansKnown, calls, cooldown, sent, late, splitVars, open, kept, clock, fails, spoilt>>

\* With a permit the cooldown is looked at again.
Permitted(d, n) ==
    /\ Running(d, "deezer") /\ look[d][n] = "waits" /\ Cardinality(Holders) < Permits
    /\ \/ InCooldown /\ Move(d, n, "unknown") /\ Spoil(d, "deezer", {n})
       \/ ~InCooldown /\ Move(d, n, "permitted") /\ UNCHANGED spoilt
    /\ UNCHANGED <<fansKnown, calls, cooldown, sent, late, splitVars, open, kept, clock, fails>>

\* The calls from the first one on that is younger than the window.
Recent ==
    LET young == {i \in DOMAIN calls : clock - calls[i] < Window}
    IN  IF young = {} THEN << >> ELSE SubSeq(calls, Min(young), Len(calls))

\* Not the code: one call too many is let through.
Mut_WindowOff(d, n) ==
    /\ Running(d, "deezer") /\ look[d][n] = "permitted" /\ Len(Recent) <= MaxCalls
    /\ calls' = Append(Recent, clock) /\ sent' = Append(sent, clock)
    /\ late' = IF InCooldown THEN late + 1 ELSE late
    /\ Move(d, n, "sent")
    /\ UNCHANGED <<fansKnown, cooldown, splitVars, open, kept, clock, fails, spoilt>>

\* A call is sent when the window has room.
take_slot(d, n) ==
    /\ Running(d, "deezer") /\ look[d][n] = "permitted"
    /\ IF Len(Recent) >= MaxCalls
       THEN calls' = Recent /\ Move(d, n, "unknown") /\ Spoil(d, "deezer", {n}) /\ UNCHANGED <<sent, late>>
       ELSE /\ calls' = Append(Recent, clock) /\ sent' = Append(sent, clock)
            /\ late' = IF InCooldown THEN late + 1 ELSE late
            /\ Move(d, n, "sent") /\ UNCHANGED spoilt
    /\ UNCHANGED <<fansKnown, cooldown, splitVars, open, kept, clock, fails>>

\* search answers: the count, or that there is no match, is cached.
FanAnswer(d, n) ==
    /\ Running(d, "deezer") /\ look[d][n] = "sent"
    /\ fansKnown' = fansKnown \cup {n} /\ Move(d, n, "known")
    /\ UNCHANGED <<calls, cooldown, sent, late, splitVars, open, kept, clock, fails, spoilt>>

\* search fails; a 429 and a quota error start a cooldown, also one that
\* ends before the one that is running.
FanFails(d, n) ==
    /\ Running(d, "deezer") /\ look[d][n] = "sent" /\ fails < MaxFails
    /\ fails' = fails + 1 /\ Move(d, n, "unknown") /\ Spoil(d, "deezer", {n})
    /\ \/ UNCHANGED <<cooldown, late>>
       \/ \E len \in Cooldowns : cooldown' = clock + len /\ late' = 0
    /\ UNCHANGED <<fansKnown, calls, sent, splitVars, open, kept, clock>>

FanVetoed(d) == {n \in FanTargets[d] :
                    look[d][n] = "known" /\ Fans[n] # NoFans /\ Fans[n] >= VetoFans}

Close(d, arm) == open' = [open EXCEPT ![d] = @ \ {arm}]
Undecided(d) == {n \in FanTargets[d] : look[d][n] \notin {"known", "unknown"}}

\* apply_veto: all are resolved, or the deadline drops the lookups.
DeezerEnds(d) ==
    /\ Running(d, "deezer") /\ Undecided(d) = {} /\ Close(d, "deezer")
    /\ UNCHANGED <<deezerVars, splitVars, kept, clock, fails, spoilt>>

\* Not the code: the deadline waits for the calls that are under way.
Mut_DeadlineWaits(d) ==
    /\ Running(d, "deezer") /\ Undecided(d) # {} /\ Close(d, "deezer")
    /\ \A n \in FanTargets[d] : look[d][n] # "sent"
    /\ Spoil(d, "deezer", Undecided(d))
    /\ UNCHANGED <<deezerVars, splitVars, kept, clock, fails>>

DeezerBudget(d) ==
    /\ Running(d, "deezer") /\ Undecided(d) # {} /\ Close(d, "deezer")
    /\ Spoil(d, "deezer", Undecided(d))
    /\ UNCHANGED <<deezerVars, splitVars, kept, clock, fails>>

-----------------------------------------------------------------------------
(* The split arm: the pages of members and aliases.                        *)

\* The aliases of all targets are read once, before any page is asked for.
\* When the query fails the code reads the metadata cache, in which a row is
\* only found that was stored while the database failed, too; here that is
\* none, and the verdicts that may have wanted one are marked.
read_stored(d) ==
    /\ Running(d, "split") /\ rows[d] = "unread"
    /\ \/ rows' = [rows EXCEPT ![d] = "read"] /\ UNCHANGED <<fails, spoilt>>
       \/ /\ fails < MaxFails /\ fails' = fails + 1
          /\ rows' = [rows EXCEPT ![d] = "unreadable"] /\ Spoil(d, "alias", AliasTargets[d])
    /\ UNCHANGED <<deezerVars, pageKnown, memo, open, kept, clock>>

\* The pages that the verdicts of a discovery wait for.
AllMembers(d) == UNION {MemberPages[n] : n \in CollabTargets[d]}
AllAliases(d) == UNION {AliasPages[n] : n \in AliasTargets[d]}
Wanted(d) ==
    IF rows[d] = "unread" THEN {}
    ELSE AllMembers(d) \cup IF rows[d] = "read" THEN AllAliases(d) ELSE {}

Remember(d, k, st) == memo' = [memo EXCEPT ![d][k] = st]

\* Lookups::page: the first verdict that asks starts the lookup, all others
\* wait for it.  The cache is asked before a permit is.
page(d, k) ==
    /\ Running(d, "split") /\ k \in Wanted(d) /\ memo[d][k] = "absent"
    /\ \/ k \in pageKnown /\ Remember(d, k, "resolved")
       \/ /\ k \notin pageKnown /\ Remember(d, k, "loading")
          /\ Cardinality({l \in PageKeys : memo[d][l] = "loading"}) < PagePermits
    /\ UNCHANGED <<deezerVars, pageKnown, rows, open, kept, clock, fails, spoilt>>

\* fetch_artist_page answers: the page, or that there is none, is cached.
PageAnswer(d, k) ==
    /\ Running(d, "split") /\ memo[d][k] = "loading"
    /\ Remember(d, k, "resolved") /\ pageKnown' = pageKnown \cup {k}
    /\ UNCHANGED <<deezerVars, rows, open, kept, clock, fails, spoilt>>

\* The candidates whose verdicts lack a page.
Lacking(d, keys) == {<<"collab", n>> : n \in {c \in CollabTargets[d] : MemberPages[c] \cap keys # {}}}
                    \cup {<<"alias", n>> : n \in {c \in AliasTargets[d] : AliasPages[c] \cap keys # {}}}

\* fetch_artist_page fails: as if there were no page, for this discovery only.
PageFails(d, k) ==
    /\ Running(d, "split") /\ memo[d][k] = "loading" /\ fails < MaxFails
    /\ fails' = fails + 1 /\ Remember(d, k, "failed")
    /\ spoilt' = [spoilt EXCEPT ![d] = @ \cup Lacking(d, {k})]
    /\ UNCHANGED <<deezerVars, pageKnown, rows, open, kept, clock>>
Share(p, q) == p.tags \cap q.tags # {}

\* collab_verdict, given the pages of the members.
CollabVeto(n, pages) == \E p \in pages : p.listeners >= Ceiling /\ Share(Own[n], p)

\* alias_verdict: whose page an alias leads to is told by the mbid, or by a
\* tag when the page has none.
Same(n, p) ==
    p.name # n /\ IF p.mbid = NoMbid THEN Share(Own[n], p) ELSE p.mbid = Own[n].mbid

AliasVeto(n, pages) ==
    LET counted == {p \in pages : Same(n, p)}
    IN  /\ counted # {}
        /\ SumOf([p \in counted |-> p.listeners]) + Own[n].listeners >= Ceiling

PagesOf(keys) == {Page[k] : k \in {l \in keys : Page[l] # NoPage}}
Resolved(d, keys) == {k \in keys : memo[d][k] = "resolved"}
Settled(d, keys) == \A k \in keys : memo[d][k] \in {"resolved", "failed"}

\* The hits: a verdict is given when the last of its pages has come.
SplitHits(d) ==
    {n \in CollabTargets[d] :
        /\ rows[d] # "unread" /\ Settled(d, MemberPages[n])
        /\ CollabVeto(n, PagesOf(Resolved(d, MemberPages[n])))}
    \cup {n \in AliasTargets[d] :
        /\ rows[d] = "read" /\ Settled(d, AliasPages[n])
        /\ AliasVeto(n, PagesOf(Resolved(d, AliasPages[n])))}

\* run: all verdicts are given, or the budget drops the lookups.
SplitEnds(d) ==
    /\ Running(d, "split") /\ rows[d] # "unread" /\ Settled(d, Wanted(d)) /\ Close(d, "split")
    /\ UNCHANGED <<deezerVars, splitVars, kept, clock, fails, spoilt>>

SplitBudget(d) ==
    /\ Running(d, "split") /\ (rows[d] = "unread" \/ ~Settled(d, Wanted(d)))
    /\ Close(d, "split")
    /\ spoilt' = [spoilt EXCEPT ![d] = @ \cup
           IF rows[d] = "unread" THEN {"collab", "alias"} \X Candidates[d]
           ELSE Lacking(d, {k \in Wanted(d) : ~Settled(d, {k})})]
    /\ UNCHANGED <<deezerVars, splitVars, kept, clock, fails>>

-----------------------------------------------------------------------------

\* Not the code: a budget that ends drops what was decided in it.
Mut_AllOrNothing(d) ==
    /\ open[d] = {"stage"} /\ Close(d, "stage")
    /\ \E drop \in {FanVetoed(d) \cup IF Settled(d, Wanted(d)) THEN SplitHits(d) ELSE {}} :
          kept' = [kept EXCEPT ![d] = Without(Ranked[d], drop)]
    /\ UNCHANGED <<deezerVars, splitVars, clock, fails, spoilt>>

\* Both arms have ended; what either vetoed is dropped.
apply_vetoes(d) ==
    /\ open[d] = {"stage"} /\ Close(d, "stage")
    /\ \E drop \in {FanVetoed(d) \cup SplitHits(d)} :
          kept' = [kept EXCEPT ![d] = Without(Ranked[d], drop)]
    /\ UNCHANGED <<deezerVars, splitVars, clock, fails, spoilt>>

Tick ==
    /\ clock < MaxTime /\ clock' = clock + 1
    /\ UNCHANGED <<deezerVars, splitVars, open, kept, fails, spoilt>>

Step(d) ==
    \/ \E n \in FanTargets[d] :
          FanCached(d, n) \/ Permitted(d, n) \/ take_slot(d, n) \/ FanAnswer(d, n) \/ FanFails(d, n)
    \/ \E k \in PageKeys : page(d, k) \/ PageAnswer(d, k) \/ PageFails(d, k)
    \/ read_stored(d)
    \/ DeezerEnds(d) \/ DeezerBudget(d) \/ SplitEnds(d) \/ SplitBudget(d) \/ apply_vetoes(d)

Next == Tick \/ \E d \in Discoveries : Step(d)
Spec == Init /\ [][Next]_vars

\* The two timers fire and the join returns; nothing is asked of Deezer,
\* of Last.fm or of the storage.
FairSpec ==
    /\ Spec
    /\ \A d \in Discoveries :
          /\ WF_vars(DeezerEnds(d) \/ DeezerBudget(d))
          /\ WF_vars(SplitEnds(d) \/ SplitBudget(d))
          /\ WF_vars(apply_vetoes(d))

-----------------------------------------------------------------------------

TypeOK ==
    /\ fansKnown \subseteq Names /\ pageKnown \subseteq PageKeys
    /\ calls \in Seq(0..MaxTime) /\ Len(calls) <= MaxCalls /\ sent \in Seq(0..MaxTime)
    /\ cooldown \in Nat /\ clock \in 0..MaxTime /\ fails \in 0..MaxFails /\ late \in Nat
    /\ \A d \in Discoveries :
          /\ look[d] \in [FanTargets[d] -> {"start", "waits", "permitted", "sent", "known", "unknown"}]
          /\ memo[d] \in [PageKeys -> {"absent", "loading", "resolved", "failed"}]
          /\ rows[d] \in {"unread", "read", "unreadable"}
          /\ open[d] \subseteq {"deezer", "split", "stage"}
          /\ spoilt[d] \subseteq Arms \X Candidates[d]
    /\ Cardinality(Holders) <= Permits

\* Who an arm would drop if it were told everything in time.
Mainstream(d, arm) ==
    CASE arm = "deezer" -> {n \in FanTargets[d] : Fans[n] # NoFans /\ Fans[n] >= VetoFans}
      [] arm = "collab" -> {n \in CollabTargets[d] : CollabVeto(n, PagesOf(MemberPages[n]))}
      [] arm = "alias" -> {n \in AliasTargets[d] : AliasVeto(n, PagesOf(AliasPages[n]))}

\* Failing open is exact, candidate by candidate: nobody is dropped whom
\* complete answers would have kept (a failure, a budget or a half-read set
\* of pages never drops anyone), and a mainstream candidate escapes an arm
\* only if a lookup of his own failed there, was refused or came too late;
\* neither the other arm nor another discovery, through caches, window,
\* permits and cooldown, can free or condemn him (apply_vetoes, fan_count,
\* Lookups::page).
VetoesExact ==
    \A d \in Discoveries : open[d] = {} =>
        LET dropped == Candidates[d] \ ToSet(kept[d])
        IN  /\ dropped \subseteq UNION {Mainstream(d, arm) : arm \in Arms}
            /\ \A arm \in Arms : \A n \in Mainstream(d, arm) :
                  <<arm, n>> \in spoilt[d] \/ n \in dropped

\* However many discoveries run, Deezer never gets more than MaxCalls calls
\* in any window, not only in aligned ones (take_slot).
WindowHolds ==
    \A i \in DOMAIN sent : i + MaxCalls \in DOMAIN sent =>
        sent[i + MaxCalls] - sent[i] >= Window

\* "a sibling may have hit a limit": once a cooldown begins, only lookups
\* that had looked at it already, with the other permits in hand, may still
\* call; those that wait for a permit do not (fan_count).
QuietInCooldown == late < Permits

\* Every stage ends, also when Deezer, Last.fm or the storage never answers.
StageEnds == \A d \in Discoveries : <>(open[d] = {})
=============================================================================
