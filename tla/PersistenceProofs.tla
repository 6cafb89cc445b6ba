-------------------------- MODULE PersistenceProofs --------------------------
(***************************************************************************)
(* Proofs about module Persistence, for any users, runs, artists, requests *)
(* and queue capacity.                                                     *)
(***************************************************************************)
EXTENDS Persistence, RankingProofs

ListKinds == {"save", "unsave", "dismiss", "undo"}

(* A job that changes a list has a user and an artist.                     *)
Sensible(job) ==
    /\ job \in Jobs
    /\ job.op = "event" /\ job.kind \in ListKinds => job.user \in Users /\ job.name \in Names

AccountsTyped ==
    /\ users \subseteq Users /\ sessions \subseteq users /\ gone \subseteq Users \ users
    /\ login \in Users \cup {None}
    /\ purge \in [user : Users \cup {None}, doomed : SUBSET Runs]
    /\ purge # NoPurge => purge.user \in Users

TablesTyped ==
    /\ runs \in [Runs -> Who \cup {None}]
    /\ events \subseteq Runs \X Who
    /\ saved \subseteq users \X Names /\ dismissed \subseteq users \X Names

JobsTyped ==
    /\ queue \in Seq(Jobs) /\ Len(queue) <= QueueCap
    /\ \A i \in DOMAIN queue : Sensible(queue[i])
    /\ DOMAIN post = Posts
    /\ \A p \in Posts : post[p] # None => Sensible(post[p]) /\ post[p].op = "event"

RequestsTyped ==
    /\ at \in [Discoveries -> {"idle", "lookup", "running", "caching", "filtering", "replied"}]
    /\ who \in [Discoveries -> Who]
    /\ steady \in [Discoveries -> SUBSET Names]
    /\ DOMAIN entry = Discoveries
    /\ \A d \in Discoveries : at[d] = "caching" => entry[d].run \in Runs
    /\ cache # None => cache.run \in Runs

CountsTyped ==
    /\ maker \in [Runs -> Who \cup {None}]
    /\ posted \in 0..MaxEvents /\ faults \in 0..MaxFaults

Typed == AccountsTyped /\ TablesTyped /\ JobsTyped /\ RequestsTyped /\ CountsTyped

(* The types hold when all the parts do.                                   *)
LEMMA TypedTypeOK == Typed => TypeOK
  BY DEF Typed, AccountsTyped, TablesTyped, JobsTyped, RequestsTyped, CountsTyped, TypeOK, Sensible

(* Anon is no user and None is nothing else; the bounds are numbers.       *)
LEMMA ConstantsType ==
    /\ Anon \notin Users /\ Anon \in Who /\ Users \subseteq Who
    /\ None \notin Users /\ None # Anon /\ None \notin Runs /\ None \notin Names
    /\ QueueCap \in Nat \ {0} /\ MaxEvents \in Nat /\ MaxFaults \in Nat
  BY PersistenceAssumption DEF Who

(* A bearer stands for a user with a session, or for nobody.               *)
LEMMA AuthTyped ==
    ASSUME AccountsTyped, NEW u, NEW failed
    PROVE  resolve_auth(u, failed) \in users \cup {Anon}
  BY DEF AccountsTyped, resolve_auth

(* A fault keeps the count within its bound.                               *)
LEMMA FaultTyped ==
    ASSUME CountsTyped, NEW bad \in BOOLEAN, Fault(bad)
    PROVE  faults' \in 0..MaxFaults
  BY ConstantsType DEF CountsTyped, Fault

(* What enqueue does to the queue: the job is put at its end or dropped.   *)
LEMMA EnqueueTyped ==
    ASSUME JobsTyped, NEW job, Sensible(job), NEW want, enqueue(job, want)
    PROVE  /\ queue' \in Seq(Jobs) /\ Len(queue') <= QueueCap
           /\ \A i \in DOMAIN queue' : Sensible(queue'[i])
<1>1. CASE Len(queue) < QueueCap
  <2>1. queue' = Append(queue, job) /\ job \in Jobs
    BY <1>1 DEF enqueue, Sensible
  <2>2. queue' \in Seq(Jobs) /\ Len(queue') = Len(queue) + 1
    BY <2>1 DEF JobsTyped
  <2>3. ASSUME NEW i \in DOMAIN queue' PROVE Sensible(queue'[i])
    <3>1. CASE i = Len(queue) + 1
      BY <2>1, <3>1 DEF JobsTyped
    <3>2. CASE i # Len(queue) + 1
      <4>1. i \in DOMAIN queue /\ queue'[i] = queue[i]
        BY <2>1, <2>2, <3>2 DEF JobsTyped
      <4> QED
        BY <4>1 DEF JobsTyped
    <3> QED
      BY <3>1, <3>2
  <2> QED
    BY <1>1, <2>2, <2>3, ConstantsType DEF JobsTyped
<1>2. CASE ~(Len(queue) < QueueCap)
  BY <1>2 DEF enqueue, JobsTyped
<1> QED
  BY <1>1, <1>2

(* The jobs that are left when the first one has been taken.               *)
LEMMA TailTyped ==
    ASSUME JobsTyped, queue # <<>>, queue' = Tail(queue)
    PROVE  /\ queue' \in Seq(Jobs) /\ Len(queue') <= QueueCap
           /\ \A i \in DOMAIN queue' : Sensible(queue'[i])
           /\ Sensible(Head(queue))
<1>1. /\ Len(queue) \in Nat \ {0} /\ queue' \in Seq(Jobs) /\ Len(queue') = Len(queue) - 1
      /\ Head(queue) = queue[1]
  BY DEF JobsTyped
<1>2. \A i \in DOMAIN queue' : i + 1 \in DOMAIN queue /\ queue'[i] = queue[i + 1]
  BY <1>1 DEF JobsTyped
<1> QED
  BY <1>1, <1>2, ConstantsType DEF JobsTyped

(* The dismissed names that a request keeps in mind are still names.       *)
LEMMA SteadyTyped ==
    ASSUME RequestsTyped, steady' = StillDismissed
    PROVE  steady' \in [Discoveries -> SUBSET Names]
  BY DEF RequestsTyped, StillDismissed

(* Everything starts empty.                                                *)
LEMMA TypedInit == Init => Typed
<1> SUFFICES ASSUME Init PROVE Typed
  OBVIOUS
<1>1. queue \in Seq(Jobs) /\ Len(queue) = 0 /\ DOMAIN queue = {}
  BY DEF Init
<1>2. AccountsTyped
  BY DEF Init, AccountsTyped, NoPurge
<1>3. TablesTyped
  BY DEF Init, TablesTyped
<1>4. JobsTyped
  BY <1>1, ConstantsType DEF Init, JobsTyped
<1>5. RequestsTyped
  BY ConstantsType DEF Init, RequestsTyped
<1>6. CountsTyped
  BY ConstantsType DEF Init, CountsTyped
<1> QED
  BY <1>2, <1>3, <1>4, <1>5, <1>6 DEF Typed
-----------------------------------------------------------------------------
(* A step that leaves the queue and the event requests alone.              *)
LEMMA JobsKept ==
    ASSUME JobsTyped, UNCHANGED <<queue, post>>
    PROVE  JobsTyped'
  BY DEF JobsTyped

(* A step of an account or the privacy delete keeps the types.             *)
LEMMA AccountStepTyped ==
    ASSUME Typed, AccountStep \/ PurgeUser
    PROVE  Typed'
<1> USE ConstantsType DEF Typed, accounts, rows, handlers
<1>1. ASSUME NEW u \in Users, UpsertUser(u) \/ EndSession(u) \/ PurgeRuns(u)
      PROVE  Typed'
  <2>1. JobsTyped' /\ CountsTyped' /\ RequestsTyped'
    BY <1>1, JobsKept DEF UpsertUser, EndSession, PurgeRuns, CountsTyped, RequestsTyped
  <2>2. TablesTyped'
    BY <1>1 DEF UpsertUser, EndSession, PurgeRuns, TablesTyped, AccountsTyped
  <2>3. AccountsTyped'
    BY <1>1 DEF UpsertUser, EndSession, PurgeRuns, AccountsTyped, NoPurge
  <2> QED
    BY <2>1, <2>2, <2>3
<1>2. CASE CreateSession
  <2>1. JobsTyped' /\ CountsTyped' /\ RequestsTyped' /\ TablesTyped'
    BY <1>2, JobsKept DEF CreateSession, CountsTyped, RequestsTyped, TablesTyped
  <2>2. AccountsTyped'
    BY <1>2 DEF CreateSession, AccountsTyped
  <2> QED
    BY <2>1, <2>2
<1>3. CASE PurgeFails
  <2>1. JobsTyped' /\ RequestsTyped' /\ TablesTyped'
    BY <1>3, JobsKept DEF PurgeFails, RequestsTyped, TablesTyped
  <2>2. AccountsTyped'
    BY <1>3 DEF PurgeFails, AccountsTyped, NoPurge
  <2>3. CountsTyped'
    BY <1>3, FaultTyped DEF PurgeFails, CountsTyped
  <2> QED
    BY <2>1, <2>2, <2>3
<1>4. CASE PurgeUser
  <2>1. purge.user \in Users
    BY <1>4 DEF PurgeUser, AccountsTyped
  <2>2. JobsTyped' /\ CountsTyped'
    BY <1>4, JobsKept DEF PurgeUser, CountsTyped
  <2>3. RequestsTyped'
    BY <1>4, SteadyTyped DEF PurgeUser, RequestsTyped
  <2>4. AccountsTyped'
    BY <1>4, <2>1 DEF PurgeUser, AccountsTyped, NoPurge
  <2>5. runs' \in [Runs -> Who \cup {None}]
    BY <1>4 DEF PurgeUser, TablesTyped
  <2>6. events' \subseteq Runs \X Who
    <3>1. \A e \in events : e[1] \in Runs /\ e[2] \in Who
      BY DEF TablesTyped
    <3>2. \A f \in events' : \E e \in events : f = <<e[1], Anon>> \/ f = <<e[1], e[2]>>
      BY <1>4 DEF PurgeUser
    <3> QED
      BY <3>1, <3>2
  <2>7. saved' \subseteq users' \X Names /\ dismissed' \subseteq users' \X Names
    BY <1>4 DEF PurgeUser, TablesTyped
  <2> QED
    BY <2>2, <2>3, <2>4, <2>5, <2>6, <2>7 DEF TablesTyped
<1> QED
  BY <1>1, <1>2, <1>3, <1>4 DEF AccountStep

(* A step of a discovery request keeps the types.                          *)
LEMMA DiscoveryStepTyped ==
    ASSUME Typed, NEW d \in Discoveries, DiscoveryStep(d)
    PROVE  Typed'
<1> USE ConstantsType DEF Typed, accounts, rows, handlers
<1>1. ASSUME NEW u \in Who, NEW failed \in BOOLEAN, Begin(d, u, failed)
      PROVE  Typed'
  <2>1. resolve_auth(u, failed) \in Who /\ DismissedBy(resolve_auth(u, failed)) \subseteq Names
    BY AuthTyped DEF AccountsTyped, DismissedBy, Who
  <2>2. RequestsTyped'
    BY <1>1, <2>1 DEF Begin, RequestsTyped
  <2>3. AccountsTyped' /\ TablesTyped' /\ JobsTyped' /\ CountsTyped'
    BY <1>1, JobsKept, FaultTyped DEF Begin, AccountsTyped, TablesTyped, CountsTyped
  <2> QED
    BY <2>2, <2>3
<1>2. CASE Hit(d)
  <2>1. cache.run \in Runs
    BY <1>2 DEF Hit, RequestsTyped
  <2>2. Sensible([op |-> "impression", run |-> cache.run])
    BY <2>1 DEF Sensible, Jobs
  <2>3. JobsTyped'
    BY <1>2, <2>2, EnqueueTyped DEF Hit, JobsTyped
  <2>4. AccountsTyped' /\ TablesTyped' /\ RequestsTyped' /\ CountsTyped'
    BY <1>2 DEF Hit, AccountsTyped, TablesTyped, RequestsTyped, CountsTyped
  <2> QED
    BY <2>3, <2>4
<1>3. CASE Miss(d)
  BY <1>3, JobsKept DEF Miss, AccountsTyped, TablesTyped, RequestsTyped, CountsTyped
<1>4. ASSUME NEW r \in Runs, prepare_persistence(d, r)
      PROVE  Typed'
  <2>1. Sensible([op |-> "run", run |-> r, user |-> who[d]])
    BY DEF Sensible, Jobs, RequestsTyped
  <2>2. JobsTyped'
    BY <1>4, <2>1, EnqueueTyped DEF prepare_persistence, JobsTyped
  <2>3. AccountsTyped' /\ TablesTyped' /\ CountsTyped'
    BY <1>4 DEF prepare_persistence, AccountsTyped, TablesTyped, CountsTyped, RequestsTyped
  <2>4. RequestsTyped'
    BY <1>4 DEF prepare_persistence, RequestsTyped
  <2> QED
    BY <2>2, <2>3, <2>4
<1>5. CASE Put(d)
  BY <1>5, JobsKept DEF Put, AccountsTyped, TablesTyped, RequestsTyped, CountsTyped
<1>6. ASSUME NEW failed \in BOOLEAN, Filter(d, failed)
      PROVE  Typed'
  <2>1. PICK e : entry' = [entry EXCEPT ![d] = e]
    BY <1>6 DEF Filter
  <2>2. RequestsTyped'
    BY <1>6, <2>1 DEF Filter, RequestsTyped
  <2>3. AccountsTyped' /\ TablesTyped' /\ JobsTyped' /\ CountsTyped'
    BY <1>6, JobsKept, FaultTyped DEF Filter, AccountsTyped, TablesTyped, CountsTyped
  <2> QED
    BY <2>2, <2>3
<1>7. CASE End(d)
  BY <1>7, JobsKept DEF End, AccountsTyped, TablesTyped, RequestsTyped, CountsTyped
<1> QED
  BY <1>1, <1>2, <1>3, <1>4, <1>5, <1>6, <1>7 DEF DiscoveryStep

(* A step of an event request keeps the types.                             *)
LEMMA PostStepTyped ==
    ASSUME Typed, NEW p \in Posts, PostStep(p)
    PROVE  Typed'
<1> USE ConstantsType DEF Typed, accounts, rows, handlers
<1>1. ASSUME NEW r \in Runs, NEW n \in Names \cup {None}, NEW kind \in Kinds, NEW u \in Who,
             NEW failed \in BOOLEAN, PostEvent(p, r, n, kind, u, failed)
      PROVE  Typed'
  <2> DEFINE e == [op |-> "event", run |-> r, name |-> n, user |-> resolve_auth(u, failed),
                   kind |-> kind]
  <2>1. resolve_auth(u, failed) \in Who
        /\ (kind \in ListKinds => resolve_auth(u, failed) \in Users /\ n \in Names)
    BY <1>1, AuthTyped DEF PostEvent, ANONYMOUS_OK, ListKinds, AccountsTyped
  <2>2. e \in Jobs
    BY <2>1 DEF Jobs
  <2>3. Sensible(e) /\ e.op = "event"
    BY <2>1, <2>2 DEF Sensible
  <2>4. post' = [post EXCEPT ![p] = e] /\ UNCHANGED queue
    BY <1>1 DEF PostEvent
  <2> HIDE DEF e
  <2>5. JobsTyped'
    BY <2>3, <2>4 DEF JobsTyped
  <2>6. posted' \in 0..MaxEvents
    BY <1>1 DEF PostEvent, CountsTyped
  <2>7. AccountsTyped' /\ TablesTyped' /\ RequestsTyped' /\ CountsTyped'
    BY <1>1, <2>6, FaultTyped DEF PostEvent, AccountsTyped, TablesTyped, RequestsTyped, CountsTyped
  <2> QED
    BY <2>5, <2>7
<1>2. CASE Accept(p)
  <2>1. JobsTyped'
    BY <1>2, EnqueueTyped DEF Accept, JobsTyped
  <2>2. AccountsTyped' /\ TablesTyped' /\ RequestsTyped' /\ CountsTyped'
    BY <1>2 DEF Accept, AccountsTyped, TablesTyped, RequestsTyped, CountsTyped
  <2> QED
    BY <2>1, <2>2
<1>3. ASSUME NEW failed \in BOOLEAN, NEW old \in BOOLEAN, Refuse(p, failed, old)
      PROVE  Typed'
  <2>1. JobsTyped'
    BY <1>3 DEF Refuse, JobsTyped
  <2>2. AccountsTyped' /\ TablesTyped' /\ RequestsTyped' /\ CountsTyped'
    BY <1>3, FaultTyped DEF Refuse, AccountsTyped, TablesTyped, RequestsTyped, CountsTyped
  <2> QED
    BY <2>1, <2>2
<1> QED
  BY <1>1, <1>2, <1>3 DEF PostStep

(* A job that fits leaves well-typed tables: its user has a row, or is     *)
(* Anon, whom no job that changes a list has.                              *)
LEMMA WriteTyped ==
    ASSUME AccountsTyped, TablesTyped, NEW job, Sensible(job), Fits(job), Write(job)
    PROVE  /\ runs' \in [Runs -> Who \cup {None}] /\ events' \subseteq Runs \X Who
           /\ saved' \subseteq users \X Names /\ dismissed' \subseteq users \X Names
<1> USE ConstantsType
<1>1. CASE job.op = "run"
  <2>1. job.run \in Runs /\ job.user \in Who
    BY <1>1 DEF Sensible, Jobs
  <2> QED
    BY <1>1, <2>1 DEF Write, write_run, TablesTyped
<1>2. CASE job.op = "impression"
  BY <1>2 DEF Write, write_impression, rows, TablesTyped
<1>3. CASE job.op = "event"
  <2>1. job.run \in Runs /\ job.user \in Who
    BY <1>3 DEF Sensible, Jobs
  <2>2. write_event(job)
    BY <1>3 DEF Write
  <2>3. job.kind \in ListKinds => job.user \in users /\ job.name \in Names
    BY <1>3 DEF Sensible, Fits
  <2> QED
    BY <2>1, <2>2, <2>3 DEF write_event, Toggled, ListKinds, TablesTyped
<1> QED
  BY <1>1, <1>2, <1>3 DEF Sensible, Jobs

(* A step of the writer keeps the types.                                   *)
LEMMA WriterStepTyped ==
    ASSUME Typed, NEW failed \in BOOLEAN, writer_loop(failed)
    PROVE  Typed'
<1> USE ConstantsType DEF Typed, accounts, rows, handlers
<1>1. Sensible(Head(queue)) /\ JobsTyped'
  BY TailTyped DEF writer_loop, JobsTyped
<1>2. AccountsTyped' /\ CountsTyped' /\ RequestsTyped'
  BY FaultTyped, SteadyTyped DEF writer_loop, AccountsTyped, CountsTyped, RequestsTyped
<1>3. CASE Fits(Head(queue)) /\ ~failed
  <2>1. TablesTyped'
    BY <1>1, <1>3, WriteTyped DEF writer_loop, TablesTyped
  <2> QED
    BY <1>1, <1>2, <2>1
<1>4. CASE ~(Fits(Head(queue)) /\ ~failed)
  <2>1. TablesTyped'
    BY <1>4 DEF writer_loop, TablesTyped
  <2> QED
    BY <1>1, <1>2, <2>1
<1> QED
  BY <1>3, <1>4

(* The cache may expire and the process restart.                           *)
LEMMA EnvironmentTyped ==
    ASSUME Typed, CacheExpires \/ \E keeps \in BOOLEAN : Restart(keeps)
    PROVE  Typed'
<1> USE ConstantsType DEF Typed, accounts, rows, handlers
<1>1. CASE CacheExpires
  BY <1>1, JobsKept DEF CacheExpires, AccountsTyped, TablesTyped, RequestsTyped, CountsTyped
<1>2. ASSUME NEW keeps \in BOOLEAN, Restart(keeps)
      PROVE  Typed'
  <2>1. queue' \in Seq(Jobs) /\ Len(queue') = 0 /\ DOMAIN queue' = {}
    BY <1>2 DEF Restart
  <2>2. JobsTyped'
    BY <1>2, <2>1 DEF Restart, JobsTyped
  <2>3. RequestsTyped'
    BY <1>2 DEF Restart, RequestsTyped
  <2>4. AccountsTyped'
    BY <1>2 DEF Restart, AccountsTyped, NoPurge
  <2>5. TablesTyped' /\ CountsTyped'
    BY <1>2, FaultTyped DEF Restart, TablesTyped, CountsTyped
  <2> QED
    BY <2>2, <2>3, <2>4, <2>5
<1> QED
  BY <1>1, <1>2

(* Every step keeps the types.                                             *)
LEMMA TypedStep == Typed /\ [Next]_vars => Typed'
<1> SUFFICES ASSUME Typed, [Next]_vars PROVE Typed'
  OBVIOUS
<1>1. CASE UNCHANGED vars
  BY <1>1 DEF vars, accounts, rows, handlers, Typed, AccountsTyped, TablesTyped, JobsTyped,
              RequestsTyped, CountsTyped
<1> QED
  BY <1>1, AccountStepTyped, DiscoveryStepTyped, PostStepTyped, WriterStepTyped,
     EnvironmentTyped DEF Next

(* Every variable keeps its type, for all users, runs, requests and queue  *)
(* sizes: sessions and lists belong to users, the queue keeps its bound.   *)
THEOREM TypeCorrect == Spec => []TypeOK
  BY TypedInit, TypedStep, TypedTypeOK, PTL DEF Spec
-----------------------------------------------------------------------------
(* No run or event refers to a deleted user; that the lists and sessions   *)
(* do not is part of the types.                                            *)
Clear ==
    /\ \A r \in Runs : runs[r] \notin gone
    /\ \A e \in events : e[2] \notin gone

(* The privacy delete clears what its first statement left of its user.    *)
LEMMA PurgeClears ==
    ASSUME Typed, Clear, PurgeUser
    PROVE  Clear'
<1>1. purge.user \in Users /\ gone' = gone \cup {purge.user}
  BY DEF PurgeUser, Typed, AccountsTyped
<1>2. Anon \notin gone' /\ None \notin gone'
  BY <1>1, ConstantsType DEF Typed, AccountsTyped
<1>3. \A r \in Runs : runs'[r] \notin gone'
  BY <1>1, <1>2 DEF PurgeUser, Clear
<1>4. ASSUME NEW f \in events' PROVE f[2] \notin gone'
  <2>1. PICK e \in events : f = <<e[1], IF e[2] = purge.user THEN Anon ELSE e[2]>>
    BY DEF PurgeUser
  <2> QED
    BY <1>1, <1>2, <2>1 DEF Clear
<1> QED
  BY <1>3, <1>4 DEF Clear

(* The writer only writes for users that have a row, or for nobody.        *)
LEMMA WriterClear ==
    ASSUME Typed, Clear, NEW failed \in BOOLEAN, writer_loop(failed)
    PROVE  Clear'
<1>1. gone' = gone
  BY DEF writer_loop, accounts
<1>2. CASE Fits(Head(queue)) /\ ~failed
  <2>1. Sensible(Head(queue)) /\ Write(Head(queue))
    BY <1>2, TailTyped DEF writer_loop, Typed
  <2>2. Head(queue).op \in {"run", "event"} => Head(queue).user \notin gone
    BY <1>2, ConstantsType DEF Fits, Typed, AccountsTyped
  <2> DEFINE job == Head(queue)
  <2>3. job.op \in {"run", "impression", "event"} /\ job.run \in Runs
    BY <2>1 DEF Sensible, Jobs
  <2> HIDE DEF job
  <2>4. CASE job.op = "run"
    BY <1>1, <2>1, <2>2, <2>3, <2>4 DEF job, Write, write_run, Clear, Typed, TablesTyped
  <2>5. CASE job.op = "impression"
    BY <1>1, <2>1, <2>5 DEF job, Write, write_impression, rows, Clear
  <2>6. CASE job.op = "event"
    <3>1. job.user \notin gone
      BY <2>2, <2>6 DEF job
    <3>2. events' = events \cup {<<job.run, job.user>>} /\ runs' = runs
      BY <2>1, <2>6 DEF job, Write, write_event
    <3> QED
      BY <1>1, <3>1, <3>2 DEF Clear
  <2> QED
    BY <2>3, <2>4, <2>5, <2>6
<1>3. CASE ~(Fits(Head(queue)) /\ ~failed)
  BY <1>1, <1>3 DEF writer_loop, Clear
<1> QED
  BY <1>2, <1>3

(* Nothing else touches runs, events or the deleted ids.                   *)
LEMMA ClearStep == Typed /\ Clear /\ [Next]_vars => Clear'
<1> SUFFICES ASSUME Typed, Clear, [Next]_vars PROVE Clear'
  OBVIOUS
<1>1. ASSUME UNCHANGED <<runs, events, gone>> PROVE Clear'
  BY <1>1 DEF Clear
<1> USE DEF accounts, rows
<1>2. ASSUME AccountStep PROVE UNCHANGED <<runs, events, gone>>
  BY <1>2 DEF AccountStep, UpsertUser, EndSession, PurgeRuns, CreateSession, PurgeFails
<1>3. ASSUME NEW d \in Discoveries, DiscoveryStep(d) PROVE UNCHANGED <<runs, events, gone>>
  BY <1>3 DEF DiscoveryStep, Begin, Hit, Miss, prepare_persistence, Put, Filter, End
<1>4. ASSUME NEW p \in Posts, PostStep(p) PROVE UNCHANGED <<runs, events, gone>>
  BY <1>4 DEF PostStep, PostEvent, Accept, Refuse
<1>5. ASSUME CacheExpires \/ (\E keeps \in BOOLEAN : Restart(keeps)) \/ UNCHANGED vars
      PROVE  UNCHANGED <<runs, events, gone>>
  BY <1>5 DEF CacheExpires, Restart, vars
<1> QED
  BY <1>1, <1>2, <1>3, <1>4, <1>5, PurgeClears, WriterClear DEF Next

(* Once a user is deleted nothing refers to it again, whatever requests    *)
(* and queued jobs still have its id.                                      *)
THEOREM PurgeIsFinal == Spec => []PurgedStaysPurged
<1>1. Init => Clear
  BY ConstantsType DEF Init, Clear
<1>2. Typed /\ Clear => PurgedStaysPurged
  <2> SUFFICES ASSUME Typed, Clear PROVE PurgedStaysPurged
    OBVIOUS
  <2>1. \A s \in saved \cup dismissed : s[1] \in users
    BY DEF Typed, TablesTyped
  <2> QED
    BY <2>1 DEF Typed, AccountsTyped, Clear, PurgedStaysPurged
<1> QED
  BY <1>1, <1>2, TypedInit, TypedStep, ClearStep, PTL DEF Spec
-----------------------------------------------------------------------------
(* A queued job that decides whether artist n is in a list of user u.      *)
Touches(job, adds, removes, u, n) ==
    /\ job.op = "event" /\ job.kind \in {adds, removes}
    /\ job.user = u /\ job.name = n

(* Artist n is in the list of user u once the queue q has been written:    *)
(* the last job in q about it adds it, or none is and the list S has it.   *)
WillHave(q, S, adds, removes, u, n) ==
    \/ \E i \in DOMAIN q :
          /\ Touches(q[i], adds, removes, u, n) /\ q[i].kind = adds
          /\ \A j \in DOMAIN q : j > i => ~Touches(q[j], adds, removes, u, n)
    \/ /\ <<u, n>> \in S
       /\ \A i \in DOMAIN q : ~Touches(q[i], adds, removes, u, n)

ListExact(W, q, S, adds, removes) ==
    /\ W \subseteq Users \X Names
    /\ \A u \in Users, n \in Names : <<u, n>> \in W <=> WillHave(q, S, adds, removes, u, n)

(* While no write fails, what the events that the queue took ask for is    *)
(* what the lists become when the queue has been written.                  *)
WantsExact ==
    wants # None =>
        /\ ListExact(wants.saved, queue, saved, "save", "unsave")
        /\ ListExact(wants.dismissed, queue, dismissed, "dismiss", "undo")

(* An event decides about its own user and artist and nothing else.        *)
LEMMA ToggledIn ==
    ASSUME NEW e, e.op = "event", NEW S, NEW adds, NEW removes, adds # removes, NEW u, NEW n
    PROVE  <<u, n>> \in Toggled(S, e, adds, removes) <=>
               IF Touches(e, adds, removes, u, n) THEN e.kind = adds ELSE <<u, n>> \in S
  BY DEF Toggled, Touches

(* The last job in the queue has the last word.                            *)
LEMMA AppendHas ==
    ASSUME NEW q \in Seq(Jobs), NEW job \in Jobs, NEW S, NEW adds, NEW removes, NEW u, NEW n
    PROVE  WillHave(Append(q, job), S, adds, removes, u, n) <=>
               IF Touches(job, adds, removes, u, n) THEN job.kind = adds
               ELSE WillHave(q, S, adds, removes, u, n)
<1> DEFINE p == Append(q, job)
           T(x) == Touches(x, adds, removes, u, n)
<1>1. /\ Len(q) \in Nat /\ DOMAIN q = 1..Len(q) /\ DOMAIN p = 1..Len(q) + 1
      /\ p[Len(q) + 1] = job /\ \A i \in DOMAIN q : p[i] = q[i]
  OBVIOUS
<1> HIDE DEF p
<1>2. CASE T(job)
  <2>1. Len(q) + 1 \in DOMAIN p /\ \A j \in DOMAIN p : ~(j > Len(q) + 1)
    BY <1>1
  <2>2. \A i \in DOMAIN p : i # Len(q) + 1 => Len(q) + 1 > i
    BY <1>1
  <2> HIDE DEF T
  <2>3. WillHave(p, S, adds, removes, u, n) <=> job.kind = adds
    BY <1>1, <1>2, <2>1, <2>2 DEF WillHave, T
  <2> QED
    BY <1>2, <2>3 DEF p, T
<1>3. CASE ~T(job)
  <2>1. ASSUME WillHave(q, S, adds, removes, u, n) PROVE WillHave(p, S, adds, removes, u, n)
    <3>1. ASSUME NEW i \in DOMAIN q, T(q[i]), q[i].kind = adds,
                 \A j \in DOMAIN q : j > i => ~T(q[j])
          PROVE  WillHave(p, S, adds, removes, u, n)
      BY <1>1, <1>3, <3>1 DEF WillHave
    <3>2. ASSUME <<u, n>> \in S, \A i \in DOMAIN q : ~T(q[i])
          PROVE  WillHave(p, S, adds, removes, u, n)
      BY <1>1, <1>3, <3>2 DEF WillHave
    <3> QED
      BY <2>1, <3>1, <3>2 DEF WillHave
  <2>2. ASSUME WillHave(p, S, adds, removes, u, n) PROVE WillHave(q, S, adds, removes, u, n)
    <3>1. ASSUME NEW i \in DOMAIN p, T(p[i]), p[i].kind = adds,
                 \A j \in DOMAIN p : j > i => ~T(p[j])
          PROVE  WillHave(q, S, adds, removes, u, n)
      <4>1. i \in DOMAIN q
        BY <1>1, <1>3, <3>1
      <4> QED
        BY <1>1, <3>1, <4>1 DEF WillHave
    <3>2. ASSUME <<u, n>> \in S, \A i \in DOMAIN p : ~T(p[i])
          PROVE  WillHave(q, S, adds, removes, u, n)
      BY <1>1, <3>2 DEF WillHave
    <3> QED
      BY <2>2, <3>1, <3>2 DEF WillHave
  <2> QED
    BY <1>3, <2>1, <2>2 DEF p
<1> QED
  BY <1>2, <1>3

(* Writing the first job changes the list and not what it will become.     *)
LEMMA TailHas ==
    ASSUME NEW q \in Seq(Jobs), q # <<>>, NEW S, NEW R, NEW adds, NEW removes, NEW u, NEW n,
           <<u, n>> \in R <=> IF Touches(Head(q), adds, removes, u, n)
                              THEN Head(q).kind = adds ELSE <<u, n>> \in S
    PROVE  WillHave(Tail(q), R, adds, removes, u, n) <=> WillHave(q, S, adds, removes, u, n)
<1> DEFINE p == Tail(q)
           T(x) == Touches(x, adds, removes, u, n)
<1>1. /\ Len(q) \in Nat \ {0} /\ DOMAIN q = 1..Len(q) /\ DOMAIN p = 1..Len(q) - 1
      /\ Head(q) = q[1] /\ \A i \in DOMAIN p : p[i] = q[i + 1]
  OBVIOUS
<1>2. <<u, n>> \in R <=> IF T(q[1]) THEN q[1].kind = adds ELSE <<u, n>> \in S
  BY <1>1
<1> HIDE DEF p
<1>3. ASSUME WillHave(p, R, adds, removes, u, n) PROVE WillHave(q, S, adds, removes, u, n)
  <2>1. ASSUME NEW i \in DOMAIN p, T(p[i]), p[i].kind = adds,
               \A j \in DOMAIN p : j > i => ~T(p[j])
        PROVE  WillHave(q, S, adds, removes, u, n)
    <3>1. i + 1 \in DOMAIN q /\ T(q[i + 1]) /\ q[i + 1].kind = adds
      BY <1>1, <2>1
    <3>2. ASSUME NEW j \in DOMAIN q, j > i + 1 PROVE ~T(q[j])
      <4>1. j - 1 \in DOMAIN p /\ j - 1 > i /\ p[j - 1] = q[j]
        BY <1>1, <2>1, <3>2
      <4> QED
        BY <2>1, <4>1
    <3> QED
      BY <3>1, <3>2 DEF WillHave
  <2>2. ASSUME <<u, n>> \in R, \A i \in DOMAIN p : ~T(p[i])
        PROVE  WillHave(q, S, adds, removes, u, n)
    <3>1. ASSUME NEW j \in DOMAIN q, j > 1 PROVE ~T(q[j])
      <4>1. j - 1 \in DOMAIN p /\ p[j - 1] = q[j]
        BY <1>1, <3>1
      <4> QED
        BY <2>2, <4>1
    <3>2. 1 \in DOMAIN q /\ \A j \in DOMAIN q : j = 1 \/ j > 1
      BY <1>1
    <3> QED
      BY <1>2, <2>2, <3>1, <3>2 DEF WillHave
  <2> QED
    BY <1>3, <2>1, <2>2 DEF WillHave
<1>4. ASSUME WillHave(q, S, adds, removes, u, n) PROVE WillHave(p, R, adds, removes, u, n)
  <2>1. ASSUME NEW i \in DOMAIN q, T(q[i]), q[i].kind = adds,
               \A j \in DOMAIN q : j > i => ~T(q[j])
        PROVE  WillHave(p, R, adds, removes, u, n)
    <3>1. \A j \in DOMAIN p : j + 1 \in DOMAIN q /\ p[j] = q[j + 1]
      BY <1>1
    <3>2. CASE i = 1
      <4>1. \A j \in DOMAIN p : ~T(p[j])
        <5>1. \A j \in DOMAIN p : j + 1 > 1
          BY <1>1
        <5> QED
          BY <2>1, <3>1, <3>2, <5>1
      <4> QED
        BY <1>2, <2>1, <3>2, <4>1 DEF WillHave
    <3>3. CASE i # 1
      <4>1. i - 1 \in DOMAIN p /\ p[i - 1] = q[i]
        BY <1>1, <3>3
      <4>2. \A j \in DOMAIN p : j > i - 1 => ~T(p[j])
        BY <1>1, <2>1, <3>1
      <4> QED
        BY <2>1, <4>1, <4>2 DEF WillHave
    <3> QED
      BY <3>2, <3>3
  <2>2. ASSUME <<u, n>> \in S, \A i \in DOMAIN q : ~T(q[i])
        PROVE  WillHave(p, R, adds, removes, u, n)
    BY <1>1, <1>2, <2>2 DEF WillHave
  <2> QED
    BY <1>4, <2>1, <2>2 DEF WillHave
<1> QED
  BY <1>3, <1>4 DEF p

(* What one accepted event does to what a list should be.                  *)
LEMMA AcceptedExact ==
    ASSUME NEW q \in Seq(Jobs), NEW e, Sensible(e), e.op = "event", NEW W, NEW S,
           NEW adds \in ListKinds, NEW removes \in ListKinds, adds # removes,
           ListExact(W, q, S, adds, removes)
    PROVE  ListExact(Toggled(W, e, adds, removes), Append(q, e), S, adds, removes)
<1>1. e \in Jobs
  BY DEF Sensible
<1>2. Toggled(W, e, adds, removes) \subseteq Users \X Names
  <2>1. e.kind \in ListKinds => e.user \in Users /\ e.name \in Names
    BY DEF Sensible
  <2> QED
    BY <2>1 DEF Toggled, ListExact
<1>3. ASSUME NEW u \in Users, NEW n \in Names
      PROVE  <<u, n>> \in Toggled(W, e, adds, removes)
                 <=> WillHave(Append(q, e), S, adds, removes, u, n)
  <2>1. <<u, n>> \in W <=> WillHave(q, S, adds, removes, u, n)
    BY DEF ListExact
  <2> QED
    BY <1>1, <2>1, ToggledIn, AppendHas
<1> QED
  BY <1>2, <1>3 DEF ListExact

(* A run or an impression in the queue asks nothing of a list.             *)
LEMMA OtherJobExact ==
    ASSUME NEW q \in Seq(Jobs), NEW job \in Jobs, job.op # "event", NEW W, NEW S,
           NEW adds, NEW removes, ListExact(W, q, S, adds, removes)
    PROVE  ListExact(W, Append(q, job), S, adds, removes)
<1>1. \A u, n : ~Touches(job, adds, removes, u, n)
  BY DEF Touches
<1>2. \A u, n : WillHave(Append(q, job), S, adds, removes, u, n)
                   <=> WillHave(q, S, adds, removes, u, n)
  BY <1>1, AppendHas
<1> QED
  BY <1>2 DEF ListExact

(* The writer's next job is written.                                       *)
LEMMA WrittenExact ==
    ASSUME NEW q \in Seq(Jobs), q # <<>>, NEW W, NEW S, NEW R, NEW adds, NEW removes,
           adds # removes, ListExact(W, q, S, adds, removes),
           IF Head(q).op = "event" THEN R = Toggled(S, Head(q), adds, removes) ELSE R = S
    PROVE  ListExact(W, Tail(q), R, adds, removes)
<1>1. ASSUME NEW u, NEW n
      PROVE  WillHave(Tail(q), R, adds, removes, u, n) <=> WillHave(q, S, adds, removes, u, n)
  <2>1. <<u, n>> \in R <=> IF Touches(Head(q), adds, removes, u, n)
                           THEN Head(q).kind = adds ELSE <<u, n>> \in S
    <3>1. CASE Head(q).op = "event"
      BY <3>1, ToggledIn
    <3>2. CASE Head(q).op # "event"
      BY <3>2 DEF Touches
    <3> QED
      BY <3>1, <3>2
  <2> QED
    BY <2>1, TailHas
<1> QED
  BY <1>1 DEF ListExact

(* Every enqueue either adds its job or drops it whole.                    *)
LEMMA EnqueueOtherExact ==
    ASSUME Typed, WantsExact, NEW job, Sensible(job), job.op # "event", enqueue(job, wants),
           UNCHANGED <<saved, dismissed>>
    PROVE  WantsExact'
<1>1. job \in Jobs /\ queue \in Seq(Jobs)
  BY DEF Sensible, Typed, JobsTyped
<1>2. CASE Len(queue) < QueueCap
  <2>1. queue' = Append(queue, job) /\ wants' = wants
    BY <1>2 DEF enqueue
  <2>2. ASSUME wants # None
        PROVE  /\ ListExact(wants.saved, Append(queue, job), saved, "save", "unsave")
               /\ ListExact(wants.dismissed, Append(queue, job), dismissed, "dismiss", "undo")
    BY <1>1, <2>2, OtherJobExact DEF WantsExact
  <2> QED
    BY <2>1, <2>2 DEF WantsExact
<1>3. CASE ~(Len(queue) < QueueCap)
  BY <1>3 DEF enqueue, WantsExact
<1> QED
  BY <1>2, <1>3

(* An accepted event changes what the lists should be as it will change    *)
(* the lists.                                                              *)
LEMMA AcceptExact ==
    ASSUME Typed, WantsExact, NEW p \in Posts, Accept(p)
    PROVE  WantsExact'
<1> DEFINE e == post[p]
<1>1. Sensible(e) /\ e.op = "event" /\ queue \in Seq(Jobs)
  BY DEF Accept, Typed, JobsTyped
<1>2. UNCHANGED <<saved, dismissed>> /\ enqueue(e, Wanted(e))
  BY DEF Accept, rows
<1> HIDE DEF e
<1>3. CASE Len(queue) < QueueCap /\ wants # None
  <2>1. queue' = Append(queue, e) /\ wants' = Wanted(e)
    BY <1>2, <1>3 DEF enqueue
  <2>2. /\ wants'.saved = Toggled(wants.saved, e, "save", "unsave")
        /\ wants'.dismissed = Toggled(wants.dismissed, e, "dismiss", "undo")
    BY <1>3, <2>1 DEF Wanted
  <2>3. /\ ListExact(wants.saved, queue, saved, "save", "unsave")
        /\ ListExact(wants.dismissed, queue, dismissed, "dismiss", "undo")
    BY <1>3 DEF WantsExact
  <2>4. /\ ListExact(wants'.saved, queue', saved, "save", "unsave")
        /\ ListExact(wants'.dismissed, queue', dismissed, "dismiss", "undo")
    BY <1>1, <2>1, <2>2, <2>3, AcceptedExact DEF ListKinds
  <2> QED
    BY <1>2, <2>4 DEF WantsExact
<1>4. CASE ~(Len(queue) < QueueCap) \/ wants = None
  BY <1>2, <1>4 DEF enqueue, Wanted, WantsExact
<1> QED
  BY <1>3, <1>4

(* The writer does to the lists what the events ask for, or gives them up. *)
LEMMA WriterExact ==
    ASSUME Typed, WantsExact, NEW failed \in BOOLEAN, writer_loop(failed)
    PROVE  WantsExact'
<1> DEFINE job == Head(queue)
<1>1. /\ queue \in Seq(Jobs) /\ queue # <<>> /\ queue' = Tail(queue)
      /\ Sensible(job)
  BY TailTyped DEF writer_loop, Typed, JobsTyped
<1>2. CASE Fits(job) /\ ~failed
  <2>1. wants' = wants /\ Write(job)
    BY <1>2 DEF writer_loop
  <2>2. job.op \in {"run", "impression", "event"}
    BY <1>1 DEF Sensible, Jobs
  <2>3. IF job.op = "event"
        THEN /\ saved' = Toggled(saved, job, "save", "unsave")
             /\ dismissed' = Toggled(dismissed, job, "dismiss", "undo")
        ELSE UNCHANGED <<saved, dismissed>>
    <3> HIDE DEF job
    <3> QED
      BY <2>1, <2>2 DEF Write, write_run, write_impression, write_event, rows
  <2>4. ASSUME wants # None
        PROVE  /\ ListExact(wants.saved, Tail(queue), saved', "save", "unsave")
               /\ ListExact(wants.dismissed, Tail(queue), dismissed', "dismiss", "undo")
    BY <1>1, <2>3, <2>4, WrittenExact DEF WantsExact
  <2> QED
    BY <1>1, <2>1, <2>4 DEF WantsExact
<1>3. CASE ~(Fits(job) /\ ~failed)
  BY <1>3 DEF writer_loop, WantsExact
<1> QED
  BY <1>2, <1>3

(* Every other step leaves queue and lists alone, or gives wants up.       *)
LEMMA WantsStep == Typed /\ WantsExact /\ [Next]_vars => WantsExact'
<1> SUFFICES ASSUME Typed, WantsExact, [Next]_vars PROVE WantsExact'
  OBVIOUS
<1> USE DEF rows
<1>1. ASSUME UNCHANGED <<queue, saved, dismissed, wants>> PROVE WantsExact'
  BY <1>1 DEF WantsExact
<1>2. ASSUME AccountStep \/ CacheExpires \/ UNCHANGED vars PROVE WantsExact'
  BY <1>1, <1>2 DEF AccountStep, UpsertUser, EndSession, PurgeRuns, CreateSession, PurgeFails,
                    CacheExpires, vars
<1>3. ASSUME PurgeUser \/ \E keeps \in BOOLEAN : Restart(keeps) PROVE WantsExact'
  BY <1>3 DEF PurgeUser, Restart, WantsExact
<1>4. ASSUME NEW d \in Discoveries, DiscoveryStep(d) PROVE WantsExact'
  <2>1. CASE Hit(d)
    <3>1. Sensible([op |-> "impression", run |-> cache.run])
      BY <2>1 DEF Hit, Typed, RequestsTyped, Sensible, Jobs
    <3> QED
      BY <2>1, <3>1, EnqueueOtherExact DEF Hit
  <2>2. ASSUME NEW r \in Runs, prepare_persistence(d, r) PROVE WantsExact'
    <3>1. Sensible([op |-> "run", run |-> r, user |-> who[d]])
      BY DEF Typed, RequestsTyped, Sensible, Jobs
    <3> QED
      BY <2>2, <3>1, EnqueueOtherExact DEF prepare_persistence
  <2>3. ASSUME \/ \E u \in Who, failed \in BOOLEAN : Begin(d, u, failed)
               \/ Miss(d) \/ Put(d)
               \/ \E failed \in BOOLEAN : Filter(d, failed)
               \/ End(d)
        PROVE  WantsExact'
    BY <1>1, <2>3 DEF Begin, Miss, Put, Filter, End
  <2> QED
    BY <1>4, <2>1, <2>2, <2>3 DEF DiscoveryStep
<1>5. ASSUME NEW p \in Posts, PostStep(p) PROVE WantsExact'
  BY <1>1, <1>5, AcceptExact DEF PostStep, PostEvent, Refuse
<1> QED
  BY <1>2, <1>3, <1>4, <1>5, WriterExact DEF Next

(* While no write fails and whenever the queue is empty, the saved and     *)
(* dismissed lists are what the events that the queue took, in that order, *)
(* ask for, however requests interleave, whatever else is queued between   *)
(* and whatever the queue was too full for.                                *)
THEOREM ListsAreExact == Spec => []ListsFollowEvents
<1>1. Init => WantsExact
  <2> SUFFICES ASSUME Init PROVE WantsExact
    OBVIOUS
  <2>1. /\ wants.saved = {} /\ wants.dismissed = {} /\ saved = {} /\ dismissed = {}
        /\ DOMAIN queue = {}
    BY DEF Init
  <2> QED
    BY <2>1 DEF WantsExact, ListExact, WillHave
<1>2. Typed /\ WantsExact => ListsFollowEvents
  <2> SUFFICES ASSUME Typed, WantsExact, wants # None, queue = <<>>
               PROVE  saved = wants.saved /\ dismissed = wants.dismissed
    BY DEF ListsFollowEvents
  <2>1. /\ ListExact(wants.saved, queue, saved, "save", "unsave")
        /\ ListExact(wants.dismissed, queue, dismissed, "dismiss", "undo")
        /\ DOMAIN queue = {}
    BY DEF WantsExact
  <2>2. saved \subseteq Users \X Names /\ dismissed \subseteq Users \X Names
    BY DEF Typed, TablesTyped, AccountsTyped
  <2>3. ASSUME NEW W, NEW S, NEW adds, NEW removes, S \subseteq Users \X Names,
               ListExact(W, queue, S, adds, removes)
        PROVE  S = W
    BY <2>1, <2>3 DEF ListExact, WillHave
  <2> QED
    BY <2>1, <2>2, <2>3
<1> QED
  BY <1>1, <1>2, TypedInit, TypedStep, WantsStep, PTL DEF Spec
-----------------------------------------------------------------------------
(* Replies.                                                                *)

(* The run of a fresh or a cached discovery, as it is for everybody.       *)
Served(e) == e = [run |-> e.run, shown |-> Visible, reserve |-> Reserve]

(* What is shown when the names in no are hidden.                          *)
Remaining(no) == Without(Visible \o Reserve, no)
Refilled(no) ==
    SubSeq(Remaining(no), 1,
           IF Len(Remaining(no)) < Len(Visible) THEN Len(Remaining(no)) ELSE Len(Visible))

(* Whoever filled the cache, it holds the run unfiltered; what a request   *)
(* keeps in mind as dismissed is dismissed, and hidden when it replies.    *)
CacheServed == cache # None => Served(cache)
RequestServed(d) == at[d] \in {"caching", "filtering"} => Served(entry[d])
SteadyDismissed(d) == \A n \in steady[d] : <<who[d], n>> \in dismissed
ReplyRefilled(d) ==
    at[d] = "replied" /\ hidden[d] # None =>
        steady[d] \subseteq hidden[d] /\ entry[d].shown = Refilled(hidden[d])
RequestRight(d) == RequestServed(d) /\ SteadyDismissed(d) /\ ReplyRefilled(d)
RepliesRight == DOMAIN hidden = Discoveries /\ CacheServed /\ \A d \in Discoveries : RequestRight(d)

(* The artists and the reserve are lists of names.                         *)
LEMMA ListsOfNames ==
    /\ Visible \in Seq(Names) /\ Reserve \in Seq(Names) /\ Visible \o Reserve \in Seq(Names)
    /\ Len(Visible) \in Nat
  BY PersistenceAssumption

(* The dismissed artists are taken out and the reserve moves up.           *)
LEMMA DismissalsRefill ==
    ASSUME NEW e, Served(e), NEW no
    PROVE  apply_dismissals(e, no) = Refilled(no)
<1> DEFINE left == Without(Visible, no)
           spare == Without(Reserve, no)
           fill == Len(Visible) - Len(left)
           more == IF fill < Len(spare) THEN fill ELSE Len(spare)
<1>1. e.shown = Visible /\ e.reserve = Reserve
  BY DEF Served
<1>2. apply_dismissals(e, no) = left \o SubSeq(spare, 1, more)
  BY <1>1 DEF apply_dismissals
<1>3. /\ left \in Seq(Names) /\ Len(left) \in 0..Len(Visible) /\ spare \in Seq(Names)
      /\ Len(Visible) \in Nat /\ Len(spare) \in Nat
  BY ListsOfNames, WithoutIsVector
<1>4. Remaining(no) = left \o spare
  BY ListsOfNames, WithoutOfBoth DEF Remaining
<1> HIDE DEF left, spare
<1>5. more \in 0..Len(spare)
  BY <1>3
<1>6. Len(Remaining(no)) = Len(left) + Len(spare)
  BY <1>3, <1>4
<1>7. (IF Len(Remaining(no)) < Len(Visible) THEN Len(Remaining(no)) ELSE Len(Visible)) = Len(left) + more
  BY <1>3, <1>6
<1>8. left \o SubSeq(spare, 1, more) = SubSeq(left \o spare, 1, Len(left) + more)
  <2> HIDE DEF more
  <2> QED
    BY <1>3, <1>5, JoinedPrefix
<1> QED
  BY <1>2, <1>4, <1>7, <1>8 DEF Refilled

(* A reply that was refilled honours the dismissals.                       *)
LEMMA RefilledHonours ==
    ASSUME RepliesRight
    PROVE  ReplyHonoursDismissals
<1> SUFFICES ASSUME NEW d \in Discoveries, at[d] = "replied", hidden[d] # None
             PROVE  LET list == entry[d].shown
                        all == Without(Visible \o Reserve, hidden[d])
                    IN  /\ \A i \in DOMAIN list : list[i] \notin steady[d]
                        /\ Len(list) = IF Len(all) < Len(Visible) THEN Len(all) ELSE Len(Visible)
                        /\ list = SubSeq(all, 1, Len(list))
  BY DEF ReplyHonoursDismissals
<1> DEFINE no == hidden[d]
           all == Remaining(no)
           m == IF Len(all) < Len(Visible) THEN Len(all) ELSE Len(Visible)
           list == entry[d].shown
<1>1. list = SubSeq(all, 1, m) /\ steady[d] \subseteq no
  BY DEF RepliesRight, RequestRight, ReplyRefilled, Refilled
<1>2. Visible \o Reserve \in Seq(Names) /\ Len(Visible) \in Nat
  BY ListsOfNames
<1>3. all \in Seq(Names) /\ \A k \in DOMAIN all : all[k] \notin no
  BY <1>2, WithoutIsVector DEF Remaining
<1> HIDE DEF all
<1>4. m \in 0..Len(all)
  BY <1>2, <1>3
<1> HIDE DEF m
<1>5. Len(list) = m /\ \A i \in DOMAIN list : i \in DOMAIN all /\ list[i] = all[i]
  BY <1>1, <1>3, <1>4
<1> HIDE DEF list
<1>6. \A i \in DOMAIN list : list[i] \notin steady[d]
  BY <1>1, <1>3, <1>5
<1> QED
  BY <1>1, <1>5, <1>6 DEF list, m, all, Remaining

(* What a request keeps in mind as dismissed is dismissed after the step.  *)
LEMMA StillSteady ==
    ASSUME Typed, steady' = StillDismissed, UNCHANGED <<at, who, entry, hidden>>, RepliesRight,
           NEW d \in Discoveries
    PROVE  RequestRight(d)'
<1>1. steady'[d] = {n \in steady[d] : <<who[d], n>> \in dismissed'}
  BY DEF StillDismissed
<1>2. RequestServed(d)' /\ SteadyDismissed(d)'
  BY <1>1 DEF RepliesRight, RequestRight, RequestServed, SteadyDismissed, Served
<1>3. ReplyRefilled(d)'
  BY <1>1 DEF RepliesRight, RequestRight, ReplyRefilled, Refilled, Remaining
<1> QED
  BY <1>2, <1>3 DEF RequestRight

(* A request that a step leaves alone, with the dismissals as they were.   *)
LEMMA RequestKept ==
    ASSUME NEW d, RequestRight(d), dismissed' = dismissed,
           at'[d] = at[d], who'[d] = who[d], entry'[d] = entry[d],
           steady'[d] = steady[d], hidden'[d] = hidden[d]
    PROVE  RequestRight(d)'
  BY DEF RequestRight, RequestServed, SteadyDismissed, ReplyRefilled, Refilled, Remaining, Served

(* The steps of a discovery request.                                       *)
LEMMA DiscoveryRight ==
    ASSUME Typed, RepliesRight, NEW d \in Discoveries, DiscoveryStep(d)
    PROVE  RepliesRight'
<1> USE DEF accounts, rows, handlers
<1>0. DOMAIN hidden = Discoveries
  BY DEF RepliesRight
<1>1. dismissed' = dismissed /\ DOMAIN hidden' = Discoveries
  BY <1>0 DEF DiscoveryStep, Begin, Hit, Miss, prepare_persistence, Put, Filter, End
<1>2. ASSUME NEW c \in Discoveries, c # d PROVE RequestRight(c)'
  <2>0. /\ DOMAIN at = Discoveries /\ DOMAIN who = Discoveries /\ DOMAIN entry = Discoveries
        /\ DOMAIN steady = Discoveries /\ DOMAIN hidden = Discoveries
    BY <1>0 DEF Typed, RequestsTyped
  <2>1. /\ at'[c] = at[c] /\ who'[c] = who[c] /\ entry'[c] = entry[c]
        /\ steady'[c] = steady[c] /\ hidden'[c] = hidden[c]
    BY <1>2, <2>0 DEF DiscoveryStep, Begin, Hit, Miss, prepare_persistence, Put, Filter, End
  <2> QED
    BY <1>1, <2>1, RequestKept DEF RepliesRight
<1>3. RequestRight(d) /\ CacheServed
  BY DEF RepliesRight
<1>4. /\ at \in [Discoveries -> {"idle", "lookup", "running", "caching", "filtering", "replied"}]
      /\ who \in [Discoveries -> Who] /\ steady \in [Discoveries -> SUBSET Names]
      /\ DOMAIN entry = Discoveries /\ dismissed \subseteq users \X Names /\ Anon \notin users
      /\ DOMAIN hidden = Discoveries
  BY <1>0, ConstantsType DEF Typed, RequestsTyped, TablesTyped, AccountsTyped
<1> USE DEF RequestRight, RequestServed, SteadyDismissed, ReplyRefilled
<1>5. ASSUME NEW u \in Who, NEW failed \in BOOLEAN, Begin(d, u, failed)
      PROVE  RequestRight(d)' /\ cache' = cache
  BY <1>1, <1>4, <1>5 DEF Begin, DismissedBy
<1>6. CASE Hit(d)
  <2>1. Served(entry'[d]) /\ at'[d] = "filtering" /\ who'[d] = who[d] /\ steady'[d] = steady[d] /\ cache' = cache
    BY <1>3, <1>4, <1>6 DEF Hit, CacheServed
  <2>2. RequestRight(d)'
    BY <1>1, <1>3, <2>1 DEF Served
  <2>3. CacheServed'
    BY <1>3, <2>1 DEF CacheServed, Served
  <2> QED
    BY <1>1, <1>2, <2>2, <2>3 DEF RepliesRight
<1>7. CASE Miss(d)
  BY <1>1, <1>2, <1>3, <1>4, <1>7 DEF Miss, RepliesRight, CacheServed, Served
<1>8. ASSUME NEW r \in Runs, prepare_persistence(d, r)
      PROVE  RequestRight(d)' /\ cache' = cache
  <2>1. /\ entry'[d] = [run |-> r, shown |-> Visible, reserve |-> Reserve]
        /\ at'[d] = "caching" /\ who'[d] = who[d] /\ steady'[d] = steady[d] /\ cache' = cache
    BY <1>4, <1>8 DEF prepare_persistence
  <2> QED
    BY <1>1, <1>3, <2>1 DEF Served
<1>9. CASE Put(d)
  <2>1. /\ cache' = entry[d] /\ Served(entry[d]) /\ entry'[d] = entry[d] /\ at'[d] = "filtering"
        /\ who'[d] = who[d] /\ steady'[d] = steady[d]
    BY <1>3, <1>4, <1>9 DEF Put
  <2> QED
    BY <1>1, <1>2, <1>3, <2>1 DEF RepliesRight, CacheServed, Served
<1>10. ASSUME NEW failed \in BOOLEAN, Filter(d, failed)
       PROVE  RequestRight(d)' /\ cache' = cache
  <2> DEFINE no == IF failed \/ who[d] = Anon THEN {} ELSE DismissedBy(who[d])
  <2>1. /\ Served(entry[d])
        /\ entry'[d].shown = apply_dismissals(entry[d], no)
        /\ hidden' = [hidden EXCEPT ![d] = IF failed THEN None ELSE no]
        /\ at'[d] = "replied" /\ who'[d] = who[d] /\ steady'[d] = steady[d] /\ cache' = cache
    BY <1>3, <1>4, <1>10 DEF Filter
  <2>2. apply_dismissals(entry[d], no) = Refilled(no)
    <3> HIDE DEF no
    <3> QED
      BY <2>1, DismissalsRefill
  <2>3. ASSUME ~failed PROVE steady[d] \subseteq no
    BY <1>3, <1>4, <2>3 DEF DismissedBy
  <2>4. hidden'[d] = IF failed THEN None ELSE no
    BY <1>4, <2>1
  <2>5. ReplyRefilled(d)'
    <3>1. ASSUME hidden'[d] # None PROVE steady'[d] \subseteq hidden'[d] /\ hidden'[d] = no
      <4> HIDE DEF no
      <4> QED
        BY <2>1, <2>3, <2>4, <3>1
    <3> HIDE DEF no
    <3>2. hidden'[d] # None => entry'[d].shown = Refilled(hidden'[d])
      BY <2>1, <2>2, <3>1
    <3> QED
      BY <3>1, <3>2 DEF Refilled, Remaining
  <2> QED
    BY <1>1, <1>3, <2>1, <2>5
<1>11. CASE End(d)
  BY <1>1, <1>2, <1>3, <1>4, <1>11 DEF End, RepliesRight, CacheServed, Served
<1>12. ASSUME RequestRight(d)', cache' = cache PROVE RepliesRight'
  <2> HIDE DEF RequestRight
  <2> QED
    BY <1>1, <1>2, <1>3, <1>12 DEF RepliesRight, CacheServed, Served
<1> QED
  BY <1>5, <1>6, <1>7, <1>8, <1>9, <1>10, <1>11, <1>12 DEF DiscoveryStep

LEMMA RepliesStep == Typed /\ RepliesRight /\ [Next]_vars => RepliesRight'
<1> SUFFICES ASSUME Typed, RepliesRight, [Next]_vars PROVE RepliesRight'
  OBVIOUS
<1> USE DEF accounts, rows, handlers
<1>1. ASSUME UNCHANGED <<handlers, dismissed>>, cache' = cache \/ cache' = None PROVE RepliesRight'
  <2>1. ASSUME NEW d \in Discoveries PROVE RequestRight(d)'
    BY <1>1, RequestKept DEF RepliesRight
  <2> QED
    BY <1>1, <2>1 DEF RepliesRight, CacheServed, Served
<1>2. ASSUME steady' = StillDismissed, UNCHANGED <<at, who, entry, hidden, cache>> PROVE RepliesRight'
  <2>1. ASSUME NEW d \in Discoveries PROVE RequestRight(d)'
    BY <1>2, StillSteady
  <2> QED
    BY <1>2, <2>1 DEF RepliesRight, CacheServed, Served
<1>3. CASE AccountStep
  BY <1>1, <1>3 DEF AccountStep, UpsertUser, CreateSession, EndSession, PurgeRuns, PurgeFails
<1>4. CASE PurgeUser
  BY <1>2, <1>4 DEF PurgeUser
<1>5. CASE \E d \in Discoveries : DiscoveryStep(d)
  BY <1>5, DiscoveryRight
<1>6. CASE \E p \in Posts : PostStep(p)
  <2>1. UNCHANGED <<handlers, dismissed, cache>>
    <3>1. PICK p \in Posts : PostStep(p)
      BY <1>6
    <3>2. ASSUME NEW r \in Runs, NEW n, NEW kind, NEW u, NEW failed, PostEvent(p, r, n, kind, u, failed)
          PROVE  UNCHANGED <<handlers, dismissed, cache>>
      BY <3>2 DEF PostEvent
    <3>3. CASE Accept(p)
      BY <3>3 DEF Accept
    <3>4. ASSUME NEW failed, NEW old, Refuse(p, failed, old) PROVE UNCHANGED <<handlers, dismissed, cache>>
      BY <3>4 DEF Refuse
    <3> QED
      BY <3>1, <3>2, <3>3, <3>4 DEF PostStep
  <2> QED
    BY <1>1, <2>1
<1>7. CASE \E failed \in BOOLEAN : writer_loop(failed)
  BY <1>2, <1>7 DEF writer_loop
<1>8. CASE CacheExpires
  BY <1>1, <1>8 DEF CacheExpires
<1>9. CASE \E keeps \in BOOLEAN : Restart(keeps)
  <2>1. PICK keeps \in BOOLEAN : Restart(keeps)
    BY <1>9
  <2>2. cache' = cache \/ cache' = None
    BY <2>1 DEF Restart
  <2>3. CacheServed'
    BY <2>2 DEF RepliesRight, CacheServed, Served
  <2>4. ASSUME NEW d \in Discoveries PROVE RequestRight(d)'
    BY <2>1 DEF Restart, RequestRight, RequestServed, SteadyDismissed, ReplyRefilled
  <2>5. DOMAIN hidden' = Discoveries
    BY <2>1 DEF Restart
  <2> QED
    BY <2>3, <2>4, <2>5 DEF RepliesRight
<1>10. CASE UNCHANGED vars
  BY <1>1, <1>10 DEF vars
<1> QED
  BY <1>3, <1>4, <1>5, <1>6, <1>7, <1>8, <1>9, <1>10 DEF Next

(* Whoever filled the cache and whatever is dismissed or taken back while  *)
(* a request runs, what its reply shows is what is left of the artists and *)
(* the reserve without the names it read, and those include every name     *)
(* that was dismissed all the while.                                       *)
THEOREM RepliesHonourDismissals == Spec => []ReplyHonoursDismissals
<1>1. Init => RepliesRight
  BY ConstantsType DEF Init, RepliesRight, CacheServed, RequestRight, RequestServed,
     SteadyDismissed, ReplyRefilled
<1> QED
  BY <1>1, TypedInit, TypedStep, RepliesStep, RefilledHonours, PTL DEF Spec
=============================================================================
