----------------------------- MODULE Persistence -----------------------------
(***************************************************************************)
(* Runs, events and accounts (backend/src/db.rs, api.rs, handlers.rs and   *)
(* backend/migrations).  Request handlers read Postgres directly and hand  *)
(* every write of a run, an impression or an event to one background       *)
(* writer through a bounded queue; login, logout and the privacy delete    *)
(* write by themselves.  Discoveries are cached under one key, whoever     *)
(* asked.                                                                  *)
(*                                                                         *)
(* A step of the writer is one committed or rolled back transaction; the   *)
(* privacy delete has a step for each of its two statements, because at    *)
(* READ COMMITTED the second sees what others committed after the first.   *)
(***************************************************************************)
EXTENDS Vectors

CONSTANTS
    Users,       \* user ids: a login after a privacy delete gets a new one
    Anon,        \* no user (NULL, or no session)
    Runs,        \* run ids
    Visible,     \* the artists a run shows, best first
    Reserve,     \* the artists kept to fill up for dismissed ones
    Discoveries, \* concurrent discovery requests
    Posts,       \* concurrent POST /api/events
    Kinds,       \* the event types that are sent
    QueueCap,    \* WRITE_QUEUE_CAP
    MaxEvents,   \* bound: event requests in a behaviour
    MaxFaults,   \* bound: failed queries, lost requests and restarts
    None         \* no row, run, user or artist

Names == {Visible[i] : i \in DOMAIN Visible} \cup {Reserve[i] : i \in DOMAIN Reserve}
Who == Users \cup {Anon}

ASSUME PersistenceAssumption ==
    /\ Visible \in Seq(Names) /\ Reserve \in Seq(Names)
    /\ \A i, j \in DOMAIN Visible : Visible[i] = Visible[j] => i = j
    /\ \A i, j \in DOMAIN Reserve : Reserve[i] = Reserve[j] => i = j
    /\ \A i \in DOMAIN Visible, j \in DOMAIN Reserve : Visible[i] # Reserve[j]
    /\ Kinds \subseteq {"click", "share", "save", "unsave", "dismiss", "undo"}
    /\ Anon \notin Users /\ None \notin Who \cup Runs \cup Names
    /\ QueueCap \in Nat \ {0} /\ MaxEvents \in Nat /\ MaxFaults \in Nat

VARIABLES
    users, sessions,   \* tables users and sessions
    runs,              \* tables runs and recommendations: a run's user_id, or None
    events,            \* table events: the run and user of its rows
    saved, dismissed,  \* tables saved_artists and dismissed_artists
    queue,             \* jobs for the writer
    login,             \* the user whose login has upserted it and not made a session
    purge,             \* the privacy delete under way: its user, and the runs it deleted
    cache,             \* the CachedRun, or None
    at, who, entry,    \* discovery requests: where, for whom, with which run
    post,              \* event requests: the event that is authenticated, or None
    gone,              \* history: user ids that were deleted
    maker,             \* history: who each run was made for
    steady,            \* history: names dismissed ever since the request's start
    hidden,            \* the dismissed names the request has read, or None
    wants,             \* history: what the events that the queue took ask the lists
                       \* to be, or None once one of them failed or was undone
    posted, faults     \* counters

accounts == <<users, sessions, gone>>
rows == <<runs, events, saved, dismissed>>
handlers == <<at, who, entry, steady, hidden>>
vars == <<accounts, rows, queue, login, purge, cache, handlers, post, maker, wants, posted, faults>>

Entry == [run : Runs, shown : Seq(Names), reserve : Seq(Names)]
Jobs ==
    [op : {"run"}, run : Runs, user : Who]
    \cup [op : {"impression"}, run : Runs]
    \cup [op : {"event"}, run : Runs, name : Names \cup {None}, user : Who, kind : Kinds]

TypeOK ==
    /\ users \subseteq Users /\ sessions \subseteq users /\ gone \subseteq Users \ users
    /\ runs \in [Runs -> Who \cup {None}]
    /\ events \subseteq Runs \X Who
    /\ saved \subseteq users \X Names /\ dismissed \subseteq users \X Names
    /\ \A i \in DOMAIN queue : queue[i] \in Jobs
    /\ Len(queue) <= QueueCap
    /\ login \in Users \cup {None}
    /\ purge.user \in Users \cup {None} /\ purge.doomed \subseteq Runs
    /\ at \in [Discoveries -> {"idle", "lookup", "running", "caching", "filtering", "replied"}]
    /\ who \in [Discoveries -> Who]
    /\ \A d \in Discoveries : steady[d] \subseteq Names
    /\ maker \in [Runs -> Who \cup {None}]
    /\ posted \in 0..MaxEvents /\ faults \in 0..MaxFaults

NoPurge == [user |-> None, doomed |-> {}]

Init ==
    /\ users = {} /\ sessions = {} /\ gone = {}
    /\ runs = [r \in Runs |-> None] /\ events = {}
    /\ saved = {} /\ dismissed = {}
    /\ queue = <<>> /\ login = None /\ purge = NoPurge /\ cache = None
    /\ at = [d \in Discoveries |-> "idle"] /\ who = [d \in Discoveries |-> Anon]
    /\ entry = [d \in Discoveries |-> None]
    /\ steady = [d \in Discoveries |-> {}] /\ hidden = [d \in Discoveries |-> None]
    /\ post = [p \in Posts |-> None]
    /\ maker = [r \in Runs |-> None]
    /\ wants = [saved |-> {}, dismissed |-> {}]
    /\ posted = 0 /\ faults = 0

Fault(bad) ==
    /\ bad => faults < MaxFaults
    /\ faults' = IF bad THEN faults + 1 ELSE faults

(* What user u has dismissed.                                              *)
DismissedBy(u) == {n \in Names : <<u, n>> \in dismissed}

(* Not the code: the queue has no limit.                                   *)
Mut_EnqueueAlways(job, want) == queue' = Append(queue, job) /\ wants' = want

(* try_send: a job that finds the queue full is dropped, and nobody waits. *)
enqueue(job, want) ==
    IF Len(queue) < QueueCap
    THEN queue' = Append(queue, job) /\ wants' = want
    ELSE UNCHANGED <<queue, wants>>

(* A bearer's user, or Anon without one or when the query fails.           *)
resolve_auth(u, failed) == IF u \in sessions /\ ~failed THEN u ELSE Anon
-----------------------------------------------------------------------------
(* Accounts.                                                               *)

UpsertUser(u) ==
    /\ login = None /\ u \notin gone
    /\ users' = users \cup {u} /\ login' = u
    /\ UNCHANGED <<sessions, gone, rows, queue, purge, cache, handlers, post, maker, wants, posted, faults>>

(* The session's foreign key fails when the user was deleted meanwhile.    *)
CreateSession ==
    /\ login # None
    /\ sessions' = IF login \in users THEN sessions \cup {login} ELSE sessions
    /\ login' = None
    /\ UNCHANGED <<users, gone, rows, queue, purge, cache, handlers, post, maker, wants, posted, faults>>

(* Logout, or the session expires.                                         *)
EndSession(u) ==
    /\ u \in sessions
    /\ sessions' = sessions \ {u}
    /\ UNCHANGED <<users, gone, rows, queue, login, purge, cache, handlers, post, maker, wants,
                   posted, faults>>

(* purge_user, first statement: DELETE FROM runs WHERE user_id.            *)
PurgeRuns(u) ==
    /\ purge = NoPurge /\ u \in sessions
    /\ purge' = [user |-> u, doomed |-> {r \in Runs : runs[r] = u}]
    /\ UNCHANGED <<accounts, rows, queue, login, cache, handlers, post, maker, wants, posted, faults>>

(* The names still dismissed of those a request found dismissed.           *)
StillDismissed == [d \in Discoveries |-> {n \in steady[d] : <<who[d], n>> \in dismissed'}]

(* Second statement and commit: the user goes, with everything that        *)
(* cascades; a run or event of the user that is left loses its user_id.    *)
PurgeUser ==
    /\ purge # NoPurge
    /\ LET u == purge.user
           kept == {e \in events : e[1] \notin purge.doomed}
       IN  /\ users' = users \ {u} /\ sessions' = sessions \ {u} /\ gone' = gone \cup {u}
           /\ runs' = [r \in Runs |-> IF r \in purge.doomed THEN None
                                      ELSE IF runs[r] = u THEN Anon ELSE runs[r]]
           /\ events' = {<<e[1], IF e[2] = u THEN Anon ELSE e[2]>> : e \in kept}
           /\ saved' = {s \in saved : s[1] # u}
           /\ dismissed' = {s \in dismissed : s[1] # u}
    /\ purge' = NoPurge /\ wants' = None
    /\ steady' = StillDismissed
    /\ UNCHANGED <<queue, login, cache, at, who, entry, hidden, post, maker, posted, faults>>

PurgeFails ==
    /\ purge # NoPurge /\ Fault(TRUE)
    /\ purge' = NoPurge
    /\ UNCHANGED <<accounts, rows, queue, login, cache, handlers, post, maker, wants, posted>>
-----------------------------------------------------------------------------
(* Discovery requests.                                                     *)

Begin(d, u, failed) ==
    /\ at[d] = "idle" /\ Fault(failed)
    /\ who' = [who EXCEPT ![d] = resolve_auth(u, failed)]
    /\ steady' = [steady EXCEPT ![d] = DismissedBy(resolve_auth(u, failed))]
    /\ at' = [at EXCEPT ![d] = "lookup"]
    /\ UNCHANGED <<accounts, rows, queue, login, purge, cache, entry, hidden, post, maker, wants, posted>>

(* A hit is re-served and leaves an impression.                            *)
Hit(d) ==
    /\ at[d] = "lookup" /\ cache # None
    /\ entry' = [entry EXCEPT ![d] = cache]
    /\ enqueue([op |-> "impression", run |-> cache.run], wants)
    /\ at' = [at EXCEPT ![d] = "filtering"]
    /\ UNCHANGED <<accounts, rows, login, purge, cache, who, steady, hidden, post, maker,
                   posted, faults>>

Miss(d) ==
    /\ at[d] = "lookup" /\ cache = None
    /\ at' = [at EXCEPT ![d] = "running"]
    /\ UNCHANGED <<accounts, rows, queue, login, purge, cache, who, entry, steady, hidden, post,
                   maker, wants, posted, faults>>

(* The pipeline is through: the run and its artists get their ids, and the *)
(* writer gets the run.                                                    *)
prepare_persistence(d, r) ==
    /\ at[d] = "running" /\ maker[r] = None
    /\ maker' = [maker EXCEPT ![r] = who[d]]
    /\ entry' = [entry EXCEPT ![d] = [run |-> r, shown |-> Visible, reserve |-> Reserve]]
    /\ enqueue([op |-> "run", run |-> r, user |-> who[d]], wants)
    /\ at' = [at EXCEPT ![d] = "caching"]
    /\ UNCHANGED <<accounts, rows, login, purge, cache, who, steady, hidden, post, posted, faults>>

(* Not the code: the response is filtered before it is cached.             *)
Mut_PutFiltered(d) ==
    /\ at[d] = "caching"
    /\ cache' = [entry[d] EXCEPT
                    !.shown = Without(@, DismissedBy(who[d])),
                    !.reserve = Without(@, DismissedBy(who[d]))]
    /\ at' = [at EXCEPT ![d] = "filtering"]
    /\ UNCHANGED <<accounts, rows, queue, login, purge, who, entry, steady, hidden, post, maker,
                   wants, posted, faults>>

(* The run is cached as it is, for everybody.                              *)
Put(d) ==
    /\ at[d] = "caching"
    /\ cache' = entry[d]
    /\ at' = [at EXCEPT ![d] = "filtering"]
    /\ UNCHANGED <<accounts, rows, queue, login, purge, who, entry, steady, hidden, post, maker,
                   wants, posted, faults>>

(* What is shown without the names in gone, filled up from the reserve.    *)
apply_dismissals(e, no) ==
    LET left == Without(e.shown, no)
        spare == Without(e.reserve, no)
        fill == Len(e.shown) - Len(left)
    IN  left \o SubSeq(spare, 1, IF fill < Len(spare) THEN fill ELSE Len(spare))

(* A signed-in user's dismissals are read and applied; a failed read hides *)
(* nothing.                                                                *)
Filter(d, failed) ==
    /\ at[d] = "filtering" /\ Fault(failed)
    /\ LET no == IF failed \/ who[d] = Anon THEN {} ELSE DismissedBy(who[d])
       IN  /\ entry' = [entry EXCEPT ![d].shown = apply_dismissals(entry[d], no)]
           /\ hidden' = [hidden EXCEPT ![d] = IF failed THEN None ELSE no]
    /\ at' = [at EXCEPT ![d] = "replied"]
    /\ UNCHANGED <<accounts, rows, queue, login, purge, cache, who, steady, post, maker, wants, posted>>

(* The request is over: answered, failed, timed out or abandoned.          *)
End(d) ==
    /\ at[d] # "idle"
    /\ at' = [at EXCEPT ![d] = "idle"] /\ who' = [who EXCEPT ![d] = Anon]
    /\ entry' = [entry EXCEPT ![d] = None]
    /\ steady' = [steady EXCEPT ![d] = {}] /\ hidden' = [hidden EXCEPT ![d] = None]
    /\ UNCHANGED <<accounts, rows, queue, login, purge, cache, post, maker, wants, posted, faults>>
-----------------------------------------------------------------------------
(* Event requests.                                                         *)

ANONYMOUS_OK == {"click", "share"}

(* validate_event and resolve_auth.  The client sends what it was shown: a *)
(* run it knows, and for all but a share an artist of it.                  *)
PostEvent(p, r, n, kind, u, failed) ==
    /\ post[p] = None /\ maker[r] # None /\ posted < MaxEvents /\ posted' = posted + 1
    /\ kind = "share" <=> n = None
    /\ Fault(failed)
    /\ kind \in ANONYMOUS_OK \/ resolve_auth(u, failed) # Anon
    /\ post' = [post EXCEPT ![p] = [op |-> "event", run |-> r, name |-> n,
                                    user |-> resolve_auth(u, failed), kind |-> kind]]
    /\ UNCHANGED <<accounts, rows, queue, login, purge, cache, handlers, maker, wants>>

(* rec_meta_fresh, or run_exists for a share.  The age of a run is not     *)
(* kept: its artists may be past REC_TTL whenever it is looked up.         *)
Fresh(e, old) == runs[e.run] # None /\ (e.kind = "share" \/ ~old)

(* What user and artist of an event have to do with a table after it.      *)
Toggled(S, e, adds, removes) ==
    IF e.kind = adds THEN S \cup {<<e.user, e.name>>}
    ELSE IF e.kind = removes THEN S \ {<<e.user, e.name>>} ELSE S

(* What the lists should be after the event, if no write has failed.       *)
Wanted(e) ==
    IF wants = None THEN None
    ELSE [saved |-> Toggled(wants.saved, e, "save", "unsave"),
          dismissed |-> Toggled(wants.dismissed, e, "dismiss", "undo")]

(* Accepted: 204, and the writer gets the event.                           *)
Accept(p) ==
    /\ post[p] # None /\ Fresh(post[p], FALSE)
    /\ enqueue(post[p], Wanted(post[p]))
    /\ post' = [post EXCEPT ![p] = None]
    /\ UNCHANGED <<accounts, rows, login, purge, cache, handlers, maker, posted, faults>>

(* Gone: 410.                                                              *)
Refuse(p, failed, old) ==
    /\ post[p] # None /\ Fault(failed)
    /\ failed \/ ~Fresh(post[p], old)
    /\ post' = [post EXCEPT ![p] = None]
    /\ UNCHANGED <<accounts, rows, queue, login, purge, cache, handlers, maker, wants, posted>>
-----------------------------------------------------------------------------
(* The writer.                                                             *)

(* Not the code: a job is written for a user without a row.                *)
Mut_FitsAnybody(job) == job.op \in {"impression", "event"} => runs[job.run] # None

(* The job's foreign keys hold.                                            *)
Fits(job) ==
    /\ job.op \in {"impression", "event"} => runs[job.run] # None
    /\ job.op \in {"run", "event"} => job.user \in users \cup {Anon}

(* The job waits for a lock on a row that the privacy delete has deleted.  *)
Locked(job) == job.op \in {"impression", "event"} /\ job.run \in purge.doomed

write_run(job) ==
    /\ runs' = [runs EXCEPT ![job.run] = job.user]
    /\ UNCHANGED <<events, saved, dismissed>>

(* Nothing reads impressions, whose table is not kept here.                *)
write_impression(job) == UNCHANGED rows

(* The event and its effect on the user's lists.  The index on dedup keys  *)
(* only keeps a second row of a repeated event out: events alike in all    *)
(* but their id count as one row here, with or without a key.              *)
write_event(job) ==
    /\ events' = events \cup {<<job.run, job.user>>}
    /\ saved' = Toggled(saved, job, "save", "unsave")
    /\ dismissed' = Toggled(dismissed, job, "dismiss", "undo")
    /\ UNCHANGED runs

Write(job) ==
    CASE job.op = "run" -> write_run(job)
      [] job.op = "impression" -> write_impression(job)
      [] job.op = "event" -> write_event(job)

(* Not the code: the newest job is written first.                          *)
Mut_WriterLifo(failed) ==
    /\ queue # <<>> /\ ~Locked(queue[Len(queue)])
    /\ queue' = SubSeq(queue, 1, Len(queue) - 1)
    /\ Fault(failed)
    /\ IF Fits(queue[Len(queue)]) /\ ~failed
       THEN Write(queue[Len(queue)]) /\ UNCHANGED wants
       ELSE wants' = None /\ UNCHANGED <<runs, events, saved, dismissed>>
    /\ steady' = StillDismissed
    /\ UNCHANGED <<accounts, login, purge, cache, at, who, entry, hidden, post, maker, posted>>

(* One job; one that fails is dropped, and the writer goes on.             *)
writer_loop(failed) ==
    /\ queue # <<>> /\ ~Locked(Head(queue))
    /\ queue' = Tail(queue)
    /\ Fault(failed)
    /\ IF Fits(Head(queue)) /\ ~failed
       THEN Write(Head(queue)) /\ UNCHANGED wants
       ELSE wants' = None /\ UNCHANGED <<runs, events, saved, dismissed>>
    /\ steady' = StillDismissed
    /\ UNCHANGED <<accounts, login, purge, cache, at, who, entry, hidden, post, maker, posted>>
-----------------------------------------------------------------------------
(* Environment.                                                            *)

CacheExpires ==
    /\ cache # None /\ cache' = None
    /\ UNCHANGED <<accounts, rows, queue, login, purge, handlers, post, maker, wants, posted, faults>>

(* The process restarts; Postgres keeps its tables, Redis its cache.       *)
Restart(keepsCache) ==
    /\ Fault(TRUE)
    /\ queue' = <<>> /\ wants' = None
    /\ login' = None /\ purge' = NoPurge
    /\ cache' = IF keepsCache THEN cache ELSE None
    /\ at' = [d \in Discoveries |-> "idle"] /\ who' = [d \in Discoveries |-> Anon]
    /\ entry' = [d \in Discoveries |-> None]
    /\ steady' = [d \in Discoveries |-> {}] /\ hidden' = [d \in Discoveries |-> None]
    /\ post' = [p \in Posts |-> None]
    /\ UNCHANGED <<accounts, rows, maker, posted>>
-----------------------------------------------------------------------------
AccountStep ==
    \/ \E u \in Users : UpsertUser(u) \/ EndSession(u) \/ PurgeRuns(u)
    \/ CreateSession
    \/ PurgeFails

DiscoveryStep(d) ==
    \/ \E u \in Who, failed \in BOOLEAN : Begin(d, u, failed)
    \/ Hit(d) \/ Miss(d)
    \/ \E r \in Runs : prepare_persistence(d, r)
    \/ Put(d)
    \/ \E failed \in BOOLEAN : Filter(d, failed)
    \/ End(d)

PostStep(p) ==
    \/ \E r \in Runs, n \in Names \cup {None}, kind \in Kinds, u \in Who,
          failed \in BOOLEAN : PostEvent(p, r, n, kind, u, failed)
    \/ Accept(p)
    \/ \E failed, old \in BOOLEAN : Refuse(p, failed, old)

Next ==
    \/ AccountStep \/ PurgeUser
    \/ \E d \in Discoveries : DiscoveryStep(d)
    \/ \E p \in Posts : PostStep(p)
    \/ \E failed \in BOOLEAN : writer_loop(failed)
    \/ CacheExpires
    \/ \E keeps \in BOOLEAN : Restart(keeps)

Spec == Init /\ [][Next]_vars

-----------------------------------------------------------------------------
(* Properties.                                                             *)

(* A reply to a signed-in user shows no artist that was dismissed from the *)
(* request's start on, and as many artists as it would without dismissals  *)
(* as long as the reserve lasts, in their order; whoever filled the cache. *)
(* Only a failed read of the dismissals may show one.                      *)
ReplyHonoursDismissals ==
    \A d \in Discoveries :
        at[d] = "replied" /\ hidden[d] # None =>
            LET list == entry[d].shown
                all == Without(Visible \o Reserve, hidden[d])
            IN  /\ \A i \in DOMAIN list : list[i] \notin steady[d]
                /\ Len(list) = IF Len(all) < Len(Visible) THEN Len(all) ELSE Len(Visible)
                /\ list = SubSeq(all, 1, Len(list))

(* Once a user is deleted nothing refers to it again, whatever requests    *)
(* and jobs were on their way with its id.                                 *)
PurgedStaysPurged ==
    /\ \A r \in Runs : runs[r] \notin gone
    /\ \A e \in events : e[2] \notin gone
    /\ \A s \in saved \cup dismissed : s[1] \notin gone
    /\ sessions \cap gone = {}

(* "Permanently purges everything tied to your account (runs and ...)"     *)
(* (docs/reference-api.md:313): no run made for a deleted user is left.    *)
PurgeRemovesRuns == \A r \in Runs : runs[r] # None => maker[r] \notin gone

(* While no write fails, the lists end up as the events that the queue     *)
(* took, in the order it took them, ask for.  An event that finds the      *)
(* queue full is dropped whole ("full, dropping ... write", db.rs): what    *)
(* came before and what comes after it counts all the same.                *)
ListsFollowEvents ==
    wants # None /\ queue = <<>> => saved = wants.saved /\ dismissed = wants.dismissed

=============================================================================
