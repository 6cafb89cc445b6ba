# A TLA+ specification of Obscurity Engine

Obscurity Engine answers a Last.fm username with artists the listener does not
know yet: a Rust server (`backend/`) runs the discovery pipeline against Last.fm,
ListenBrainz, MusicBrainz, Deezer and Spotify, caches the result, and, when a
database is configured, stores runs, events, saves and dismissals; a Next.js
client (`frontend/`) shows them.

This directory holds TLA+ models of the parts whose correctness depends on an
order of events, what TLC checks about them on small instances, and what TLAPS
proves about them for all instances. `PROJECT.json` maps every definition to the
lines it stands for. Paths below are relative to `src/`.

    tlc -workers 2 -config MCMbGate.cfg MCMbGate      # a run
    tlapm MbGateProofs.tla                            # a module's proofs

## 1. Inventory

| component | state | operations | what is hard | what makes it correct | modelled by |
|---|---|---|---|---|---|
| Artist metadata service (`backend/src/artist_meta.rs`) | claims `in_flight`, channel of 256, worker task, rows in Postgres or cache | `snapshot` (poll), `enqueue_background` (discovery), `ensure_worker`, `claim`/`release`, `resolve`, `write_stored` | many callers and a worker that may die; channel full; failed calls; two stores | single flight, no claim without a holder, failures store nothing, real data survives a miss, polled names settle | `ArtistMeta`, `SingleFlight` |
| MusicBrainz gate (`listenbrainz.rs`) | semaphore `mb_sem`, `mb_blend_waiting`, `mb_pacer`, mbid cache | `resolve_mbid`, `mb_search`, `mb_get_low_priority`, drops | callers cancelled at every await; priority without starvation | count exact, permit neither lost nor doubled, bounded overtaking | `MbGate`; its answers: `Discovery` |
| Persistence (`db.rs`, `api.rs`, migrations) | tables, write queue of 4096, writer | `enqueue_*`, `writer_loop`, sessions, `purge_user`, dismissal and freshness reads | writes behind the replies; deletes under way with writes queued; failing queries; restarts | a purge is final, lists follow the events, filtering | `Persistence` |
| Discovery handlers (`handlers.rs`) | the cached run per (user, period, appetite) or (user, period) | cache hit, miss, put, filter | one entry serves all viewers, signed in or not | no viewer's dismissals leak into the entry or are ignored | `Persistence`, `Tracks` |
| Last.fm client (`lastfm.rs`) | key pool, cursor, benches, contributed keys and their file, page cache | `pick_key`, `bench`, `get_with_retry`, `add_key`, `persist`, `with_keys`, `remember_artist_info` | concurrent scans of one cursor, late bans, crash between pool, list and file, unlocked cap | a free key is found, keys are not lost, cap holds, requests end | `Lastfm` |
| Seeds and tag graph (`pipeline/seeds.rs`, `tag_graph.rs`) | locals of a run | charts, blend, threshold, tags of seeds, artists of tags | answers in any order, some fail, ties at the cuts | the result does not depend on the order | `Discovery` |
| Candidate generation (`pipeline/candidates.rs`) | the provenance map of each arm | `race_arms`, budgeted fetch, merge | arms end in any order, one fails, the budget runs out | the pool is what came in, neither less nor more | `Discovery` |
| Scoring and diversity (`pipeline/scoring.rs`) | locals of a run | tag profile, pages, exclusions, score, dedup, genres, diversity, cap | two candidates become one page; gaps the vetoes leave; ties | nobody twice, nobody known, no slot wasted, reproducible | `Scoring`, `Ranking`, `Discovery` |
| Deezer veto (`deezer.rs`) | call window, permits, cooldown, fan-count cache | `fan_count`, `take_slot`, `start_cooldown`, `apply_veto` | checks before an await, siblings, failures, budget | limits hold, failing open is exact, the stage ends | `Vetoes` |
| Split-page vetoes (`split_veto.rs`) | memo of page lookups, page cache | `Lookups::page`, verdicts, budget, queueing of unknown aliases | one lookup shared by many verdicts, half of them fail | failing open is exact, the stage ends | `Vetoes`; as a caller: `ArtistMeta` |
| Track pipeline (`pipeline/track_*.rs`) | locals of a run, cached reply | as the artist pipeline, without the second arm | every failure is passed over | losing a call costs only what it would have brought | `Tracks` |
| Cache store (`cache.rs`) | in-process map or Redis | get, put, expiry | Redis unavailable degrades to a miss | expiry | inside each module |
| Database schema (`migrations/`) | keys, foreign keys, cascades | - | what a delete takes along | - | inside `Persistence`, `ArtistMeta` |
| Spotify links (`spotify.rs`) | token, cooldown, link cache | search, retry after 401, cooldown | failures cached as "no link", cooldown not rechecked | - | not modelled |
| Rate limiter (`ratelimit.rs`) | token buckets | check, sweep | clock read before the lock | rate per client | not modelled |
| Server, watchdog, background tasks (`main.rs`) | failure counter | probe, exit | hang of the runtime | exits after four failures in a row | not modelled |
| Tokens, metrics, models, helpers | counters | hashing, normalizing | - | - | not modelled: pure |
| Client: metadata poller (`useArtistMeta.ts`) | holders, attempts, one poller | acquire, release, poll | names leave and rejoin, aborts | polled names settle | poller in `ArtistMeta` |
| Client: saves, dismissals, share | optimistic sets, undo timers, share store | save, unsave, dismiss, undo, share | overlapping calls, one fails | lists follow events | events in `Persistence` |
| Client: results, pages | shown results, local cache | fetch, apply | overlapping fetches | what is shown belongs to what was asked last | not modelled |
| Evaluation harness, scripts | - | offline experiments, deployment | - | - | not modelled |

How the parts interact. A discovery request (handler) calls the pipeline. Its
stages send their Last.fm calls at once through the key pool; its second arm
resolves names to mbids through the MusicBrainz gate; its vetoes ask Deezer and
Last.fm, read the metadata rows and queue unknown aliases with the metadata service,
whose worker is the gate's low-priority caller. The finished run goes to the
cache and, through the write queue, to Postgres; the reply carries ids that
come back in events, which pass through the same queue and change the lists
later discoveries are filtered by. The client polls the metadata service for
the artists it shows. Users contribute keys to the pool while all this runs.

## 2. The modules

### ArtistMeta, SingleFlight (`backend/src/artist_meta.rs`)

A request reads the stored rows of its names and offers those that are missing
(or are misses older than 30 days) to one background worker. An offer *claims*
the name's key in `in_flight`, then does `try_send`; when the channel is full it
releases the claim. The worker receives a name, holds its claim by a guard,
resolves it (Last.fm mbid -> lookup; else search; else alias search; then a
detail call for aliases) and stores a row, or a miss unless the row it reads has
an mbid. If the worker's task panics, the guard's drop releases the claim, then
the task ends, and the next offer, even of a claimed name, respawns it.

*State*: `in_flight`, `queue` (the channel), `worker`/`job`/`found` (the task's
place and locals), `db`, `cache` (the two stores of rows), and for each caller
`pc`, `todo`, `offer`, `enqueued`. A row is what the code branches on: has an
mbid, has facts, has aliases, is 30 days old.
*Actions*: one for each stretch of code between two awaits, locks or channel
operations: `Read` (snapshot's query), `Claim`, `Send`/`Refuse`/`Release`;
`Recv`, `Tier1`, `Lookup`, `Search`, `AliasSearch`, `Detail`, `StoreFound`,
`MissRead`, `StoreMiss`, `Panic`, `Died`; `Age` (30 days pass, a cache entry
expires) and `Restart`. `Pollers` are requests of `GET /api/artist-meta`,
`Vetoes` discoveries in `split_veto.rs`, which have another notion of missing
(`needs_queue`) and a limit of names per request.
*Left out*: `mb_ok`, a status flag nothing else reads; what a row says (country,
years); `Tier1`'s Last.fm call is any answer.

`SingleFlight` is the abstract promise: a key is claimed before it is worked on,
nobody claims it again meanwhile, one lookup runs at a time and only for a claimed
key. `ArtistMeta` implements it with `claimed <- in_flight` and `active <-` the
key of the busy worker's job.

### MbGate (`backend/src/listenbrainz.rs`)

MusicBrainz allows a request per second. Blend callers queue for a one-permit
semaphore, counted in `mb_blend_waiting` by a guard; the low-priority caller
polls, and only tries for the permit when the count is zero, giving up after
`max_wait`. The holder waits for the pacer and calls. A blend caller can be
dropped anywhere.

*State*: `permit`, `queue` (tokio's semaphore with its fair queue), `waiting`,
`since` (the pacer), `pc`/`asks`/`answer` per blend caller, `low`/`left`, the mbid
`cache`, and `overtaken`, a history variable counting the low-priority calls a
blend caller waited for. *Actions*: `Ask`, `Tier1`, `Announce` (guard created),
`Acquire`, `Granted` (guard dropped), `Pace`, `Answer`, `Put`; `Cancel` and
`Dropped` (the locals of a dropped future go one after the other: first the
queue place or the permit, then the guard); `LowStart`, `LowLoad` and `LowTry`
(separate: another task may announce itself in between), `LowLate`, `LowWake`,
`LowPace`, `LowAnswer`; `Tick`, `Expire`. The semaphore (`release`, `Without`,
`Drop`) is external: a released permit is handed to the first waiter, a waiter
that goes leaves the queue or passes the permit on.
*Left out*: the similar-artists call of the same client.

### Persistence (`backend/src/db.rs`, `api.rs`, `handlers.rs`, migrations)

Handlers read Postgres themselves and give every write of a run, impression or
event to one writer through a bounded queue; a full queue drops the write. Login,
logout and the privacy delete write directly.

*State*: the tables `users`, `sessions`, `runs`, `events`, `saved`, `dismissed`
as sets or functions of the columns the code tests; the writer's `queue`; `login`
(between `upsert_user` and `create_session`); `purge` (between its two
statements); the `cache` entry of one key; `at`/`who`/`entry` of each discovery,
`post` of each event request. `gone`, `maker`, `steady`, `hidden` and `wants` are
history the properties need: deleted ids, for whom a run was made, what has been
dismissed since a request began, what it read, and what the events that the queue took ask
of the lists.
*Actions*: `UpsertUser`, `CreateSession`, `EndSession`, `PurgeRuns`, `PurgeUser`,
`PurgeFails`; `Begin` (authentication), `Hit`, `Miss`, `prepare_persistence`,
`Put`, `Filter`, `End`; `PostEvent`, `Accept`, `Refuse`; `writer_loop`, which is
one transaction of `write_run`, `write_impression` or `write_event`;
`CacheExpires`, `Restart`. Foreign keys are `Fits` and the cascades of
`PurgeUser`; `Locked` is the row lock a write waits for while the privacy delete
has deleted its run. The privacy delete takes two steps because at READ COMMITTED
its second statement sees what was committed after the first.
*Abstractions*: the pipeline is one step that yields a fixed list; one cache key
and one privacy delete at a time; the age of a run is not kept, so its artists
may be past `REC_TTL` whenever it is looked up; the impressions table, which
nothing reads, is not kept; requests with their own Last.fm key are left out, as
they are neither cached nor stored; a repeated event is not told from its
duplicate in `events` (see section 6).

### Discovery, Scoring, Ranking, Vectors (`backend/src/pipeline`)

A run is a sequence of stages (`mod.rs`): charts, user info, tags of the seeds, artists
of the tags, the two arms, the tag profile, the candidates' pages, the vetoes, the
reply. Every stage sends all its calls at once; `pending` are those without an
answer, and one action per kind of call takes an answer in any order. A call answers,
is refused for good (`Refused`: its item is skipped, except the only chart of a single
period) or fails for now (`CallFails`: the run fails, so nothing partial is cached).
`user.getinfo` fails open, and the ListenBrainz arm never fails the run: a seed
without neighbours and a failed call look the same (`LbAnswer`), and `LbBudgetEnds` may
come anywhere.

*State*: `stage`, `pending`; `weights`, `totals`, `threshold` (seeds); `freq`, `tagPool`
(tag graph); `lf`, `lb`, `lfName`, `lbName`, `lbPending` (the arms: who pushed whom, under
which spelling); `profile`, `raw`, `scored`, `reply`. `lbGot` and `vetoed` are history.
`Scoring` are the pure functions from the answered pages to the reply. `Ranking` is what
both pipelines do with collections: a vector is a sequence and its sorts are stable, a
`HashMap` is iterated in any order, so that sorting one and cutting it is any of the
`Cuts` the comparison allows (one when the code breaks ties); tags and seeds add up by
`Gained`, `entry().or_insert(0) += w`.

`Vectors` says what filters, sorts and sums of vectors are without recursion, so that they
can be proved about as well as evaluated: `Kept(s, I)` lists the elements of `s` at the
positions `I` in their order, `Sorted` the positions in the total order that breaks the
ties of a comparison by position, and `SumOf` adds up what a map holds. `The({f(x) : x \in
{e}})` gives the value of `e` a name, which TLC then computes once. `Persistence`
and `Vetoes` use it for their lists, too.

*Abstractions*: answers are constants, as nothing in a run changes them; names, keys and
tags are numbers whose order stands for that of the strings; tags are lower-case already;
weights are in hundredths and stickiness is a whole number, so scores are exact integers
where the code's are f64; `MAX_MEMBERS` of a collaboration is folded into `parts`;
`is_non_music` is a fact of a page; `source_seeds`, the depth score and the wording of
genres, all shown beside the list, are left out. What the vetoes drop is any set
(`MaxVetoed`), `Vetoes` says which.

### Vetoes (`deezer.rs`, `split_veto.rs`, `apply_vetoes` in `pipeline/scoring.rs`)

Two or more discoveries are in the veto stage at once and share Deezer's window,
permits and cooldown and both caches. In each, two arms run side by side, each under a
budget of its own; what either vetoes in time is dropped.

*State*: `look` (where each `fan_count` is: cache and cooldown looked at, waiting for a
permit, with one, sent), `calls` (the window), `cooldown`, `fansKnown`; `memo` (one entry
per page and discovery), `pageKnown`, `rows`; `open` (arms still running), `kept`.
`sent`, `late`, `spoilt` are history. *Actions*: `FanCached`, `Permitted`, `take_slot`,
`FanAnswer`, `FanFails`, `DeezerEnds`, `DeezerBudget`; `read_stored`, `page`,
`PageAnswer`, `PageFails`, `SplitEnds`, `SplitBudget`; `apply_vetoes`, `Tick`. Dropping
an arm's futures is closing the arm: its permits are free from then on (`Holders`).
*Left out*: the kill switches (both arms on), `last_failure` (a status flag), the
queueing of aliases (`ArtistMeta`). A page's name determines the page. `MAX_MEMBERS` is
read into `Credited`. After a failed query `read_stored` is taken to find nothing in
the metadata cache; the verdicts concerned count as spoilt.

### Lastfm (`lastfm.rs`, `contribute_key_handler`)

*State*: `pool`, `until` (bench ends), `cursor` modulo `Lap`; `contributed`, `file`, `post`
(each POST of a key); `call` (each request: scanning, sent, backing off, storing);
`cache`, `clock`, `up`. `kept` and `races` are history. *Actions*: `add_key` (the pool's
write lock, so no scan is under way), `Truncate` and `persist` (`fs::write` empties the
file, then fills it; both may fail and a crash may come in between), `Crash`, `with_keys`;
`CacheHit`, `FirstAttempt`, `NextAttempt`, `pick_key` (one `fetch_add` and one look: scans
of other threads interleave), `Answered`, `Rejected`, `RateLimited`, `FailedForNow`,
`CheckCap`, `Evict`, `remember_artist_info`, `Tick`. `Outcome` is what the fetch methods
make of a body. Synchronous code occupies one of `Workers` threads.
*Abstractions*: the owner's keys are fixed and not empty (`main.rs` falls back to a demo
key); the probe of a contributed key has passed; a cached page is fresh or absent; the
clock counts bench times and runs only while a key is benched; `Lap` is a common
multiple of the pool's sizes, so the one irregular step of the code's counter, at 2^64,
is ignored.

### Tracks (`pipeline/track_*.rs`, `track_discovery_handler`)

Requests for one user and period follow each other; each is answered from the cache or
by a run: charts, similar artists of the seed artists, tracks of those, infos, tag
profile, reply. Unlike the artist pipeline it passes over every call that fails,
except the only chart of a single period. Nothing breaks ties here, so every sort of a
map is any of the orders it allows: `Listed` is a map as a vector in any order, `MostNamed`
and `MostVoted` are what the cuts of the two pools can be. `Refuse` stands for the three ways to end without
tracks (404, 500, the empty 200), none of which is cached. *Left out*: the depth score.

## 3. Runs

| run | question | instance and bounds | distinct states |
|---|---|---|---|
| `artist_meta` | is every claim in exactly one hand, is no key resolved twice at a time, does a failed call store nothing, and is `SingleFlight` implemented? | three names over two keys, one poll and one discovery, channel 1, two faults | 2.1 million |
| `artist_meta_live` | does a polled name settle that is not refused for ever, is no claim stuck, does an mbid survive with reliable queries? | the same, channel 1, a discovery that may hand over both its names, one fault, `FairSpec` | 243 thousand |
| `artist_meta_flaky_db` | does an mbid survive when a query may fail? **No** | as the first, one fault | (violated) |
| `mb_gate` | is the count exact, the permit single, overtaking bounded, is everybody served? | two blend callers, two names, interval 2, budget 2, one failed call, `FairSpec` | 130 thousand |
| `mb_gate_negative` | is a cached negative a definitive miss? **No** | the same | (violated) |
| `persistence` | are replies filtered whoever filled the cache, is a purge final, do the lists follow the events? | one user, one run, one discovery, one event request at a time, all six kinds of event, queue 2, two events, one fault | 2.0 million |
| `persistence_purge` | does the privacy delete remove every run? **No** | the same, only clicks | (violated) |
| `discovery` | is the pool exact, the reply independent of the order, nobody twice or known, no slot wasted, does the run end? | three seeds, nine names with two that are one page and one spelled twice, all periods and sources, `FairSpec` | 18 thousand |
| `vetoes` | is failing open exact, do Deezer's limits hold, does the stage end? | two discoveries, a star, a duo and a split page, one permit, one call per window of 2, one failure, `FairSpec` | 444 thousand |
| `lastfm` | do pool, list and file agree, do keys survive, is a benched key used only when it must be, do requests end? | one owner key, two posts, two requests, two pages, cap 1, one fault, `FairSpec` | 813 thousand |
| `lastfm_signed_login` | does a signed request keep its key? **No** | the same, logins | (violated) |
| `tracks` | is what is gathered determined by the answers, is the reply sound, do requests end? | two requests, two windows, five spellings of four artists, two failures, `FairSpec` | 22 thousand |

Bounds and why they are enough. *ArtistMeta*: two spellings of one key and one
other name give both contention on a key and a second name in the channel while
the first is worked on; one poll and one discovery are the two kinds of caller,
and two callers suffice for a race on a claim; a channel of 1 is full with a
name in it and one at the worker. `MaxFaults` counts failed calls and queries,
panics and restarts; two of them allow a fault while the consequence of another is
under way (a panic and a failed call by the successor). The proofs cover any
number of names, callers, channel size and faults for the safety properties.
*MbGate*: two blend callers are one holding the permit and one in the queue when
the low-priority one tries; nothing else bounds the run but the ticks of the
pacer and of the budget, which saturate. *Persistence*: a deleted user's id is
never used again, so one user goes through log in, act, purge, and a second
(who was `Anon` at first) is the viewer without an account; two events are what it
takes for a pair such as save and unsave to be reordered or one of them to be
lost; a queue of 2 holds a run with one event behind it, or is full.
`MaxEvents` and `MaxFaults` bound the behaviours; `QueueCap` is the code's
`WRITE_QUEUE_CAP`, 4096 there.

*Discovery*: a seed cut off (`MaxSeeds` 2 of 3), two tied in weight, a refused window and a
refused neighbour call; candidate 8 shares the key of 4 but has a page of its own, 7 leads
to the page of 5, 6 is a collaboration of 5, 9 a spelling of seed 1; one slot shown, two
per genre, so that the cap and the diversity both bite and a veto moves somebody up.
*Vetoes*: both discoveries want the star's fans and the famous member's page, with one
permit and one call per window: each meets the other's cache entry, permit, call and
cooldown. `MaxTime` 2 is one window and one cooldown. *Lastfm*: the second post may repeat
the key of the first, the pool grows to three, two attempts are a retry and giving up,
and `MaxFaults` 1 is one torn write or one crash; two threads are a race. *Tracks*: an
artist under two spellings, one who is a seed and similar to a seed, a played and a
too well known track; two failures can empty any stage.

Deadlock is checked where the system never stops; the runs of `Discovery`, `Vetoes`,
`Lastfm` and `Tracks` switch it off, because a run, a stage or the last request ends.

### The properties

*ArtistMeta.* `ClaimHasHolder`: every claimed key is in the channel, with the
worker or with a caller about to send it; a claim left behind would make the name
pending forever. `OneHolderPerKey`: it is in one place only, across spellings and
a dying worker's successor. `ImplementsSingleFlight`: refinement.
`FailureStoresNothing`: a MusicBrainz call that failed never moves a resolution on, but
for the alias lookup of a hit.
`MbidNeverErased`: no step replaces a row that has an mbid by one that has none.
`PolledClaimReleased`: a claim on a polled name is given back, whether the worker died on
it or the channel was full. `PolledNameSettles`: a polled name is answered if the channel
has room for it in the end, that is, if its key is not refused again and again for ever.
Without this condition it is false: when the channel is full of other names at
every poll (a discovery that queues a name anew whose aliases stay unknown is enough with
one place, and `artist_meta_live` has such behaviours), the name is dropped each time.
The code promises no more than to offer it again (`artist_meta.rs:28-29`).

*MbGate.* `WaitingExact`: the count is the number of registered callers.
`PermitExact`: whoever paces or calls has the permit, whoever has it is on the way,
and the queue is exactly the callers waiting. `BlendOvertakenOnce`: from its
announcement on, a blend caller waits for at most one low-priority call, also when
that caller had loaded a zero just before. `BlendServed`, `LowCallEnds`: liveness.

*Persistence.* `ReplyHonoursDismissals`: a signed-in viewer is shown none of the
artists dismissed all through the request, and the reserve fills the list up in
order; only a failed read of the dismissals excuses. `PurgedStaysPurged`: no table
ever refers to a deleted id again. `ListsFollowEvents`: while no write failed and
whenever the queue is empty, the two lists are what the events that the queue took, in that
order, ask for; an event that found it full is dropped whole.

*Discovery.* `PoolExact`: after the race the pool holds what Last.fm says of every seed that
is not refused and of ListenBrainz exactly the seeds in time. `ReplyReproducible`: weights,
scores and reply equal a definition that knows no order of arrival (`Ref...`).
`NobodyTwiceNorKnown`: also when autocorrect merges two candidates or leads to a seed.
`NobodyWasted`: whoever is ranked, not vetoed and not offered has a full genre, and the
reserve is empty unless the reply is full. `RunEnds`.

*Vetoes.* `VetoesExact`: nobody is dropped whom complete answers would keep, and a
mainstream candidate escapes an arm only by a failure of his own lookups there.
`WindowHolds`: in any window, not only aligned ones. `QuietInCooldown`: after a cooldown
begins only those who already have a permit still call. `StageEnds`.

*Lastfm.* `PoolMatchesList`, `ContributionsSurvive`: rotation, list and file agree; a key
that reached the file is lost only by a torn write. `BenchedOnlyIfNeeded`,
`CacheGrowsByRacesOnly`: what the unlocked cursor and the unlocked cap can cost at most.
`RequestEnds`.

*Tracks.* `PoolTells`: equality with an orderless definition when all calls were answered,
and when some failed, no count too high and no track of another artist lost or gained.
`ReplySound`, `RequestEnds`.

### Fairness

Safety runs use none. `ArtistMeta!FairSpec`: a request that has read goes on to its
end (there is no further await in it), the worker task is scheduled and every call
it makes returns (each has a timeout), and a client polls again while it shows the
names (`useArtistMeta.ts` polls until the name settles or its budget ends; the
model's clients keep polling). `MbGate!FairSpec`: tasks are scheduled, every call
returns (the HTTP client has a timeout of 10 s), time passes. No fairness is
assumed of faults, restarts, cancellations, discoveries, new requests or the
passing of 30 days: they may happen or not, and liveness holds either way.
`Discovery!FairSpec`: the run's own steps and the Last.fm calls, which answer or fail
after their retries; nothing is asked of ListenBrainz, whose budget cuts it off.
`Vetoes!FairSpec`: only the two budget timers and the join; nothing is asked of Deezer,
Last.fm or the storage. `Lastfm!FairSpec`: a request that has begun takes its steps
(threads are scheduled, the HTTP client has a timeout, back-offs end); posts, crashes and
new requests are free. `Tracks!FairSpec`: as in `Discovery`. A
name whose row has an mbid, no facts and is 30 days old is exempt from
`PolledNameSettles`: a miss does not touch such a row, so it stays due. That the channel has
room in the end is a condition of that property and no fairness: `try_send` does not
wait, so nothing in the code gives a refused name its turn.

## 4. Proofs

The theorems of the `...Proofs` modules hold for every value of the constants that the
modules' assumptions (`ArtistMetaAssumption`, `MbGateAssumption`,
`PersistenceAssumption`, `DiscoveryAssumption`, `LastfmAssumption`,
`VetoesAssumption`, `ScoringAssumption`, `TracksAssumption`) admit: any sets of names, users, runs, keys and callers (finite
where something is counted), any charts, pages and tags, any channel, queue or window
size, any number of faults. Names, keys and tags of the pipelines are numbers only for
their order, that of the strings.

*RankingProofs* holds the facts about filters, sorts and sums that the others cite. The
library's induction rules take an operator as a parameter, which the provers cannot
instantiate; `SetInduction` says the same of a set of numbers (by the least counterexample)
and is cited where induction is needed. A finite set with a total order is numbered by
counting predecessors (`OrderedNumbers`), so `Kept` and `Sorted` are vectors of the right
length that hold every chosen element once, in order (`KeptIs`, `SortedElements`), and
taking elements out of two vectors or of the two joined is the same (`KeptOfBoth`).
A sum is a fold over a set, which the library defines recursively: `SumAdds` gives its
recursion, and partial sums along any numbering show that a sum grows with its map
(`SumOfSome`) and by what is added to it (`SumOfMore`). Two vectors with the same elements
are permutations of each other (`Permuted`): a filter keeps that (`KeptOfPermuted`), and a
sort without ties forgets the difference (`OneOrder`).

*ArtistMeta.* `TypeOK` is not inductive by itself: that the row to be stored is a
row depends on where the worker is. `Consistent` says so, and `Typed == TypeOK /\
Consistent` is. The claims' invariant is `Custody == Typed /\ ClaimHasHolder /\
OneHolderPerKey`; neither of the last two is inductive alone: releasing a claim
leaves the others' holders in place only because no key is in two hands, and a
claim on a free key keeps hands apart only because whoever holds a key has it
claimed. The proof (`HeldStep`) goes by kind of step, each with a lemma of its own:
steps that move no name, a claim, a send, a release, a receive, the end of a
lookup. From it follow `ClaimNeverStranded`, `NoKeyTwice` and, step by step,
`RefinesSingleFlight`. `FailedCallStoresNothing` is an action property of the steps
alone. `MbidKeptWithReliableDb` needs that a worker about to store a miss has seen
a row without an mbid and nobody but the worker writes rows (`Sighted`); it assumes
that no query of a configured database fails, and the run `artist_meta_flaky_db`
shows that this assumption is needed.

*MbGate.* `TypeOK` needs `WaitingExact` (the count stays a natural number because
it counts a set that has the caller in it), so both are proved together, with
lemmas for a caller that joins, leaves or stays in that set. `PermitExact` is
inductive given the types; its cases are release, leaving the queue, and acquiring.
`BlendOvertakenOnce` needs `Yields`, which says when a caller can have been
overtaken: once it has been, the low-priority caller is not between its load of a
zero and its try for the permit, and will not load a zero while the caller waits.

*Persistence.* `TypeOK` is not inductive: that a list only holds rows of users with
a row, after an event is written, needs that every queued or authenticated event
that changes a list has a user and an artist (`Sensible`); `Typed` adds this and
what the requests hold. `PurgedStaysPurged` follows from `Typed` and `Clear` (runs
and events do not refer to deleted ids): a write is for a user with a row, and a
deleted id never gets one again. `ListsFollowEvents` speaks of the empty queue
only; its strengthening `WantsExact` says for every user and artist that what the
events that the queue took ask for is what the list will be when the queue is written: the
last queued job about the two adds the artist, or none is about them and the list
has it. Lemmas say what appending a job (`AppendHas`) and writing the first one
(`TailHas`) do to that. `RepliesHonourDismissals` needs `RepliesRight`: the cache and
every request on its way hold the run unfiltered, whoever made it; what a request has seen
dismissed all along is in the list, so in what it reads; and a reply that was
filtered is a prefix, as long as the list before, of artists and reserve without the hidden
names. That the code's two steps (take out, then fill up from the reserve) amount to
this is `DismissalsRefill`, a fact about joined vectors.

*Discovery.* `PoolIsExact` needs what the arms look like on the way (`Pool`): nothing is
pushed before they start, and while they run the Last.fm part is exact for the seeds
that are no longer pending. Each step either leaves the arms alone, before or after
them, or moves one seed. `DiscoveryTypes` needs `Typed`, which adds what `pending` holds in
each stage: that a pushed name, a page or a tag has its type depends on whose answer it
is. `NobodyOfferedTwice` and `WastesNobody` follow from `Typed` and `Answered`: what is
ranked consists of entries with different keys, none of a seed and none played too much, and
the reply is what the pure functions make of it without the vetoed. The rest is about
those functions: a filter or a prefix draws its elements from different
places of what it is given (`Drawn`) and a sort moves them (`SortedShuffled`), so the names
offered stay apart; the reply and the reserve split one list (`CutIsSplit`); and whoever
the diversity passes over has `GenreSlots` others of his genre before him (`SlotsTaken`).

`ReplyIsDetermined` says that the order of the answers does not matter, and it has a
hypothesis, `Unambiguous`, because without it this is false. `listener_map`
(`scoring.rs:244`) is collected from the pages as they arrive: when two pages have one
normalized name, the last decides whether a collaboration has a star inside, so such pages
have to be on the same side of the ceiling. And when two candidates lead to one page
whose stickiness is 0, both score 0 and the first to arrive stays, with its own conviction;
so a page that two keys lead to has to have stickiness. `Unambiguous` speaks of the
constants only, and `MCDiscovery` assumes it of the instance, in which both kinds of pages
occur, so TLC evaluates it. The invariant, `Determined`, says for every stage what the
calls answered so far add up to: `Part(gain, pending)` leaves out the calls that are pending,
and an answer puts its own back (`PartMore`). The cuts between the stages leave nothing
open, as the comparisons break their ties (`CutIsBest`; for the seeds, the tags and
the candidates `SeedCutIsBest`, `TagCutIsBest`, `CandidateCutIsBest`). The pages are the
one result that does depend on the order, as they are listed: `raw` is a permutation of
the pages asked for (`Permuted`), and `RankingDetermined` shows that `score_all` gives the
same for two permutations: the exclusions keep the same pages (`EligiblePermuted`), two
different entries are never tied (`RatedWithoutTies`), and sorting permutations without ties
gives one vector (`OneOrder`), from which the same duplicates are dropped. Weights and scores
are whole numbers here; that the code's float sums may differ in the last bits with the
order is outside the theorem (section 6).

*Lastfm.* `PoolMatchesList` is not inductive: a post between the locks of `add_key` holds a
key of the pool that is not in the list yet, and two posts could hold the same one.
`Apart` says that owner keys, list and such keys are disjoint, each once.
`ContributionsSurvive` adds `Held`: one post writes at a time, and what the file has held
is in the list while the program runs. `CacheGrowsByRacesOnly` needs `Room`: while a store
is under way the cache without the victims already picked is below the cap and the
overlaps so far. `BenchedOnlyIfNeeded` needs `Scanned`: a scan that nobody disturbed has
seen, so many steps back from the cursor, only benched keys; that a whole round is the
whole pool is arithmetic on remainders (`NextRemainder`, `CursorStep`).

*Vetoes.* `TypeOK` counts permits, so it follows from `Quiet`, which also says that in a
cooldown the calls since its start and the lookups that are past their second look are
together fewer than the permits: it is `QuietInCooldown` made inductive. `WindowHolds`
follows from `Windowed`: what `take_slot` remembers is the end of what was sent, and
what it has forgotten is a window old. `FailingOpenIsExact` needs `Decided`, which says of
each discovery what is undecided when, and that a failure of its own excuses it: a lookup
of fans, a page, the stored rows, an arm that has ended. That nobody is dropped
wrongly is monotonicity: a verdict on some of the pages is no stricter than one on all of
them (`AliasMore`, `CollabMore`), which for an alias is that a sum over some pages is at
most the sum over all.

*Tracks.* Whether a list holds tracks and a count numbers depends on the stage, on the
chart and on what the cut picked; `Typed` says so. `RepliesAreSound`, an action
property, follows from it: what is ranked is drawn from the answered infos with one entry
per track, the diversity and the cap draw from that, and only `profile` answers with tracks.
`GatheringIsDetermined` needs `Gathers`: in every stage, what was gathered is the orderless
definition for *some* set of answered calls, which is the whole set when nothing
failed (`Weighed`, `Voters`, `Pools`, `Ratings`); the next stage's cut then only has to be one
of those the definition allows.

Only model-checked: liveness (`PolledClaimReleased`, `PolledNameSettles`, `BlendServed`,
`LowCallEnds`, `RunEnds`, `StageEnds`, both `RequestEnds`), which is outside the prover. Every
other property of a run that passes is a theorem.

## 5. Plan

Done: (1) `ArtistMeta`, `SingleFlight`; (2) `MbGate`; (3) `Persistence`; (4) `Discovery`
with `Scoring`, `Ranking` and `Vectors`; (5) `Vetoes`; (6) `Lastfm`; (7) `Tracks`, each with proofs.

Left: a composition of `ArtistMeta`'s worker with `MbGate`'s low-priority caller.

Not modelled, and why:

- *Spotify links*: they are added to a finished reply and to saved artists; no other part
  reads them. Their failures are listed as hazards and in section 6.
- *Rate limiter* and *watchdog*: in front of and beside everything modelled, which does
  not depend on them; each is a few lines of arithmetic on one counter or bucket.
- *Tokens, metrics, models, helpers*: pure functions and counters nothing branches on.
- *Client*: the models stop at the HTTP interface. Its poller and its events appear as
  callers; what the browser shows while answers are late is not modelled.
- *Evaluation harness, scripts, deployment*: not part of the running system.
- *Requests with a key of their own* to the artists endpoint: neither cached nor stored.

## 6. What the work has shown

- *A failed query can erase a known mbid* (`artist_meta_flaky_db`). Before storing
  a miss the worker reads the row; when the query fails it gets the cache instead,
  sees no mbid and, if the next query succeeds, overwrites the row.
- *Failed MusicBrainz searches are cached as definitive misses for seven days*
  (`mb_gate_negative`), contrary to the module's comment.
- *A run can survive the privacy delete* (`persistence_purge`): one the writer
  commits between the delete's two statements keeps the username and the artists,
  only its user id is cleared.

- *A login fails when the pool has a second key* (`lastfm_signed_login`):
  `get_session_at` signs its parameters with the primary key, and the rotation then
  replaces the key in the signed URL; Last.fm answers error 13.

Not counted as findings, but worth a maintainer's decision:

- a polled name can be refused by a full channel at every poll while discoveries fill
  it with others first: no caller has a turn (`PolledNameSettles` has this as a condition);
- an event that finds the write queue full is lost although its reply said 204 (`db.rs:459`);
- a caller that read the rows before another's lookup ended looks a stored name up
  a second time; single flight is per claim, and this costs one lookup;
- a row with an mbid, no facts and an age of 30 days is looked up on every poll, as
  a miss never renews it;
- a repeated `save` (or `dismiss`) under the same dedup key after an `unsave` is not
  a new row in `events` but still changes the list;
- when a run's write is dropped, its cached reply keeps handing out ids whose events
  are answered with 410 until the entry expires;
- the lookup by mbid replaces a stored row without asking whether it had more data,
  although migration 0002 calls rows with data permanent: a name re-queued for its
  aliases gets whatever MusicBrainz says now;
- a track run in which calls failed is cached for an hour unless it is empty, although the
  comment beside it (`handlers.rs:399`) says that degraded runs should not stick; and the
  blend turns an unknown user or an outage into the empty 200 that `handlers.rs:452`
  describes as the genuine "no history" case;
- artists of the chart beyond `MAX_SEED_ARTISTS`, or of a chart that failed, count as
  unknown and may be recommended by the track pipeline, whose sorts break no ties;
- the display spelling of a candidate is that of the seed whose answer came first
  (`candidates.rs:271`); it decides which page is looked up;
- of pages that share a key, the last one answered decides whether a collaboration has a
  star inside (`scoring.rs:244`), and of two candidates that lead to one page of stickiness 0
  the first one stays: the hypothesis of `ReplyIsDetermined` is what has to be excluded, and
  sorting the pages by key before they are scored would make it unnecessary; float sums, too,
  depend on the order in which answers arrive;
- a file of contributed keys torn between being emptied and filled is lost (`lastfm.rs:396`),
  and a contributed key that becomes one of the environment's is dropped from the file;
- `audit_cache` exceeds its cap by what overlapping stores add and never shrinks back;
- a 429 that answers late replaces a longer cooldown by a shorter one (`deezer.rs:220`,
  and the same in `spotify.rs`);
- Spotify's failed searches are cached as "no link" for 30 days, and its cooldown is not
  looked at again after the wait for a permit;
- the collaboration verdicts, which need no stored row, wait for the read of the stored
  rows (`split_veto.rs`), and the budget runs meanwhile.
