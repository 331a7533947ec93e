--------------------------------- MODULE Feed ---------------------------------
(***************************************************************************)
(* From CoinMarketCap to the tables: the client's cache and calls          *)
(* (packages/cmc-client/src/cache.ts, client.ts) and the market store      *)
(* (apps/api/src/services/market.ts), on top of the limiter.  The jobs of  *)
(* the poller and of requests run at once: each asks for one key after     *)
(* another, shares the answers of the cache and the loads under way, and   *)
(* stores what it got row by row.                                          *)
(*                                                                         *)
(* All that is kept of an answer is when it came and whom it tells of.     *)
(* Queries and the process itself take no time on the limiter's clock;     *)
(* calls and sleeps do.                                                    *)
(***************************************************************************)
EXTENDS Limiter

CONSTANTS
  Id,         \* what CoinMarketCap has data about: coins, the market, its groups
  Doubtful,   \* those it may not tell of when asked
  Jobs,       \* Caller -> what it may set out to do
  MaxIds,     \* MAX_IDS_PER_REQUEST
  Ttl,        \* ttlMs: how long an answer is cached
  MaxAge,     \* maxAgeMs of ensureQuotes
  Timeout,    \* timeoutMs of a call
  MaxEntries, \* MAX_ENTRIES of the cache
  MaxJobs,    \* bound on the jobs of each caller
  MaxStart,   \* bound on the clock: jobs begin until then, and have time to end
  None

\* refresh stores all it gets, ensure asks for what is stale only, read stores nothing.
Job == [does : {"refresh", "ensure", "read"}, ids : SUBSET Id \ {{}}]

ASSUME FeedAssumption ==
  /\ Id \subseteq Nat /\ IsFiniteSet(Id) /\ Doubtful \subseteq Id
  /\ Jobs \in [Caller -> SUBSET Job]
  /\ MaxIds \in Nat \ {0} /\ Timeout \in Nat \ {0} /\ Ttl \in Nat \ {0}
  /\ MaxAge \in Nat /\ MaxEntries \in Nat /\ MaxJobs \in Nat
  /\ None \notin Nat /\ None \notin Caller

\* The keys of the cache: the sorted ids of one call.
Key == {ids \in SUBSET Id : ids # {} /\ Cardinality(ids) <= MaxIds}

VARIABLES
  entries,  \* Key -> its answer [at, ids], or None
  inflight, \* Key -> the task whose load it is, or None
  tasks,    \* Caller -> what it is doing
  stored    \* Id -> fetchedAt of its row, or None

feed == <<entries, inflight, tasks, stored>>

limiter == <<clock, perMinute, grants, head, calls>>

Task ==
  [at : {"idle", "asking", "loading", "storing"},
   job : Job \cup {None},
   todo : Seq(Key),                  \* keys still to be asked for
   got : SUBSET [id : Id, at : Nat], \* answers still to be stored
   missing : SUBSET Id,              \* what an answer did not tell of
   since : Nat,                      \* when the job began
   jobs : 0..MaxJobs,                \* how many there have been
   sent : Nat]                       \* when its last call was let through

Idle == [at |-> "idle", job |-> None, todo |-> <<>>, got |-> {}, missing |-> {}, since |-> 0, jobs |-> 0, sent |-> 0]

Ended(r) == [Idle EXCEPT !.jobs = r.jobs]

Busy(t) == tasks[t].at # "idle"

-----------------------------------------------------------------------------
(* The cache *)

Fresh(k) == entries[k] # None /\ entries[k].at + Ttl > clock

Waiting(k) == {t \in Caller : tasks[t].at = "loading" /\ Head(tasks[t].todo) = k}

\* Once there are too many entries, the expired ones go.
Sweep(e) ==
  IF Cardinality({k \in Key : e[k] # None}) <= MaxEntries THEN e
  ELSE [k \in Key |-> IF e[k] # None /\ e[k].at + Ttl <= clock THEN None ELSE e[k]]

\* How many ids of a job come before one.
Rank(ids, i) == Cardinality({j \in ids : j < i})

\* The ids of a job in ascending order, MaxIds to a call.
Chunks(ids) ==
  LET chunk(n) == {i \in ids : Rank(ids, i) \div MaxIds = n - 1}
  IN [n \in 1..(Cardinality(ids) + MaxIds - 1) \div MaxIds |-> chunk(n)]

\* What a body may say of the ids it was asked for: a quote in dollars, an entry without
\* one, or nothing.  It does not leave out what is beyond doubt.
Body(ids) ==
  {b \in [ids -> {"quoted", "unquoted", "absent"}] : \A i \in ids \ Doubtful : b[i] = "quoted"}

\* parseQuotes: an answer tells of what it quotes in dollars; all else is missing.
ParseQuotes(body) == [at |-> clock, ids |-> {i \in DOMAIN body : body[i] = "quoted"}]

\* A task takes an answer and goes on to its next key, or to the database.
Take(r, answer) ==
  [r EXCEPT !.todo = Tail(@),
            !.got = @ \cup {[id |-> i, at |-> answer.at] : i \in answer.ids},
            !.missing = @ \cup (Head(r.todo) \ answer.ids),
            !.sent = 0,
            !.at = IF Len(r.todo) = 1 THEN "storing" ELSE "asking"]

-----------------------------------------------------------------------------
FeedInit ==
  /\ Init
  /\ entries = [k \in Key |-> None]
  /\ inflight = [k \in Key |-> None]
  /\ tasks = [t \in Caller |-> Idle]
  /\ stored = [i \in Id |-> None]

\* Slip: a quote that is too old is found by its age in the answer that gave it.
StaleUnlessStored(ids) == {i \in ids : stored[i] = None}

\* ensureQuotes, before it asks.
Stale(ids) == {i \in ids : stored[i] = None \/ clock - stored[i] > MaxAge}

Begun(r, job, keys) ==
  [r EXCEPT !.at = IF keys = <<>> THEN "storing" ELSE "asking",
            !.job = job, !.todo = keys, !.since = clock, !.jobs = @ + 1]

Start(t, job) ==
  LET keys == Chunks(IF job.does = "ensure" THEN Stale(job.ids) ELSE job.ids) IN
  /\ ~Busy(t)
  /\ clock <= MaxStart
  /\ tasks[t].jobs < MaxJobs
  /\ tasks' = [tasks EXCEPT ![t] = Begun(@, job, keys)]
  /\ UNCHANGED <<limiter, entries, inflight, stored>>

\* getOrLoad: there is an answer.
Hit(t) ==
  /\ tasks[t].at = "asking"
  /\ LET k == Head(tasks[t].todo) IN
       /\ Fresh(k)
       /\ tasks' = [tasks EXCEPT ![t] = Take(@, entries[k])]
  /\ UNCHANGED <<limiter, entries, inflight, stored>>

\* getOrLoad: there is a load under way.
Join(t) ==
  /\ tasks[t].at = "asking"
  /\ LET k == Head(tasks[t].todo) IN ~Fresh(k) /\ inflight[k] # None
  /\ tasks' = [tasks EXCEPT ![t].at = "loading"]
  /\ UNCHANGED <<limiter, entries, inflight, stored>>

\* The task waits for its load, which the limiter lets through, or not yet.
Loads(t) ==
  tasks' = [tasks EXCEPT ![t].at = "loading",
                         ![t].sent = IF calls'[t].status = "granted" THEN clock ELSE @]

\* Slip: loads under way are not looked for.
MissAnyway(t) ==
  /\ tasks[t].at = "asking"
  /\ LET k == Head(tasks[t].todo) IN
       /\ ~Fresh(k)
       /\ inflight' = [inflight EXCEPT ![k] = t]
  /\ Acquire(t)
  /\ Loads(t)
  /\ UNCHANGED <<entries, stored>>

\* getOrLoad: the task begins a load; call() asks the limiter first.
Miss(t) ==
  /\ tasks[t].at = "asking"
  /\ LET k == Head(tasks[t].todo) IN
       /\ ~Fresh(k)
       /\ inflight[k] = None
       /\ inflight' = [inflight EXCEPT ![k] = t]
  /\ Acquire(t)
  /\ Loads(t)
  /\ UNCHANGED <<entries, stored>>

Owns(t) == tasks[t].at = "loading" /\ inflight[Head(tasks[t].todo)] = t

\* The sleep in acquire() is over.
Awake(t) ==
  /\ Owns(t)
  /\ Wake(t)
  /\ Loads(t)
  /\ UNCHANGED <<entries, inflight, stored>>

\* A load has its answer: it is cached, and whoever waits for it goes on.
Settle(t, answer) ==
  /\ Owns(t) /\ calls[t].status = "granted"
  /\ LET k == Head(tasks[t].todo) IN
       /\ entries' = Sweep([entries EXCEPT ![k] = answer])
       /\ inflight' = [inflight EXCEPT ![k] = None]
       /\ tasks' = [u \in Caller |-> IF u \in Waiting(k) THEN Take(tasks[u], answer) ELSE tasks[u]]
  /\ UNCHANGED <<limiter, stored>>

\* call() succeeds, and its body is read.
Answer(t) == tasks[t].at = "loading" /\ \E body \in Body(Head(tasks[t].todo)) : Settle(t, ParseQuotes(body))

\* A 400 that says there is no data is an answer too.
NothingFound(t) ==
  /\ tasks[t].at = "loading"
  /\ Head(tasks[t].todo) \subseteq Doubtful
  /\ Settle(t, [at |-> clock, ids |-> {}])

\* Slip: the key of a failed load stays taken.
FailAndStay(t, k) ==
  /\ tasks' = [u \in Caller |-> IF u \in Waiting(k) THEN Ended(tasks[u]) ELSE tasks[u]]
  /\ UNCHANGED <<limiter, entries, inflight, stored>>

\* A load fails: nothing is cached, and whoever waits for it fails.
Fail(t, k) ==
  /\ tasks' = [u \in Caller |-> IF u \in Waiting(k) THEN Ended(tasks[u]) ELSE tasks[u]]
  /\ inflight' = [inflight EXCEPT ![k] = None]
  /\ UNCHANGED <<limiter, entries, stored>>

\* The limiter refuses: CmcRateLimitError with scope local.
Refuse(t) == Owns(t) /\ calls[t].status = "refused" /\ Fail(t, Head(tasks[t].todo))

\* No answer in time, a lost connection, HTTP 429 or a quota code, a rejected key, a
\* plan that does not include it, any other status.  A body of another shape fails the
\* load as well (CmcSchemaError).
CallFails(t) == Owns(t) /\ calls[t].status = "granted" /\ Fail(t, Head(tasks[t].todo))

\* One row is inserted or replaced, whatever it holds.
Store(t, q) ==
  /\ tasks[t].at = "storing" /\ tasks[t].job.does # "read"
  /\ q \in tasks[t].got
  /\ stored' = [stored EXCEPT ![q.id] = q.at]
  /\ tasks' = [tasks EXCEPT ![t].got = @ \ {q}]
  /\ UNCHANGED <<limiter, entries, inflight>>

\* A query fails: the rows before it are stored.
StoreFails(t) ==
  /\ tasks[t].at = "storing" /\ tasks[t].job.does # "read"
  /\ tasks' = [tasks EXCEPT ![t] = Ended(@)]
  /\ UNCHANGED <<limiter, entries, inflight, stored>>

\* The job returns; ensureQuotes reads its rows again.
Return(t) ==
  /\ tasks[t].at = "storing"
  /\ tasks[t].got = {} \/ tasks[t].job.does = "read"
  /\ tasks' = [tasks EXCEPT ![t] = Ended(@)]
  /\ UNCHANGED <<limiter, entries, inflight, stored>>

\* Time passes while every task sleeps or waits for CoinMarketCap.
Pass ==
  /\ clock <= MaxStart \/ \E t \in Caller : Busy(t)
  /\ \A t \in Caller : tasks[t].at \notin {"asking", "storing"}
  /\ \A t \in Caller : Owns(t) =>
       \/ calls[t].status = "waiting" /\ clock < calls[t].wakeAt
       \/ calls[t].status = "granted" /\ clock < tasks[t].sent + Timeout
  /\ Tick
  /\ UNCHANGED feed

\* replan, a job of the poller: the key allows another rate.
Replan(t, rate) ==
  /\ \E job \in Jobs[t] : job.does = "refresh"
  /\ ~Busy(t)
  /\ clock <= MaxStart
  /\ tasks[t].jobs < MaxJobs
  /\ SetPerMinute(rate)
  /\ tasks' = [tasks EXCEPT ![t].jobs = @ + 1]
  /\ UNCHANGED <<entries, inflight, stored>>

Step(t) ==
  \/ Hit(t)
  \/ Join(t)
  \/ Miss(t)
  \/ Awake(t)
  \/ Refuse(t)
  \/ \E q \in tasks[t].got : Store(t, q)
  \/ Return(t)

FeedNext ==
  \/ \E t \in Caller : \E job \in Jobs[t] : Start(t, job)
  \/ \E t \in Caller : Step(t)
  \/ \E t \in Caller : Answer(t)
  \/ \E t \in Caller : NothingFound(t)
  \/ \E t \in Caller : CallFails(t)
  \/ \E t \in Caller : StoreFails(t)
  \/ \E t \in Caller, rate \in 1..MaxRate : Replan(t, rate)
  \/ Pass

FeedSpec == FeedInit /\ [][FeedNext]_<<limiter, feed>>

-----------------------------------------------------------------------------
(* Correctness *)

\* Nothing is paid for twice: a call goes out only when no earlier answer to the same
\* request would still serve and no other call for it is under way, however long it
\* slept in the limiter and whoever shares it (cache.ts:14-40).
PaidOnce ==
  [][\A t \in Caller :
       tasks'[t].at = "loading" /\ calls'[t] # calls[t] /\ calls'[t].status = "granted" =>
         LET k == Head(tasks'[t].todo) IN ~Fresh(k) /\ inflight[k] \in {None, t}]_<<limiter, feed>>

\* After ensureQuotes, each of its quotes that CoinMarketCap told of is at most MaxAge
\* older than the request, although what it did not refresh was checked before its
\* calls, and other tasks store older answers of the cache meanwhile (market.ts:37-49).
EnsuredIsRecent ==
  [][\A t \in Caller :
       Return(t) /\ tasks[t].job.does = "ensure" =>
         \A i \in tasks[t].job.ids \ tasks[t].missing :
           stored[i] # None /\ tasks[t].since - stored[i] <= MaxAge]_<<limiter, feed>>

\* A stored quote goes back in time by less than an answer is cached for, and what
\* the later chunks of one refresh may take (market.ts:26-33, client.ts:214-232).
BackwardsByLittle ==
  [][\A i \in Id :
       stored[i] # None /\ stored'[i] # stored[i] =>
         stored[i] - stored'[i] < Ttl + (Len(Chunks(Id)) - 1) * (MaxWait + Timeout)]_<<limiter, feed>>

\* The store never gives out much older quotes than it could.
QuotesStayRecent == EnsuredIsRecent /\ BackwardsByLittle

\* Every job ends in time, whoever fails while it shares a load and whoever takes the
\* place in the window that it woke up for: each of its calls costs it at most one wait
\* and one timeout, of its own or of the task whose load it shares
\* (cache.ts:20-38, limiter.ts:15-35).
JobsEndInTime ==
  \A t \in Caller : Busy(t) =>
    clock - tasks[t].since <= Len(Chunks(tasks[t].job.ids)) * (MaxWait + Timeout)

-----------------------------------------------------------------------------
(* Why it does: every load under way has one task that pays for it, and it    *)
(* takes that task no longer than one wait and one timeout.                   *)

FeedTypeOK ==
  /\ entries \in [Key -> [at : Nat, ids : SUBSET Id] \cup {None}]
  /\ inflight \in [Key -> Caller \cup {None}]
  /\ tasks \in [Caller -> Task]
  /\ stored \in [Id -> Nat \cup {None}]

\* The load that a task waits for is under way, and is that of a task.
Led ==
  /\ \A t \in Caller : tasks[t].at = "loading" => inflight[Head(tasks[t].todo)] # None
  /\ \A k \in Key : inflight[k] # None =>
       /\ tasks[inflight[k]].at = "loading" /\ Head(tasks[inflight[k]].todo) = k
       /\ ~Fresh(k)

\* Where the call of a load is: it waits for a place, or for an answer.
Paced ==
  \A t \in Caller : Owns(t) =>
    /\ calls[t].status # "idle"
    /\ calls[t].deadline <= clock + MaxWait
    /\ calls[t].status = "waiting" => clock <= calls[t].wakeAt /\ calls[t].wakeAt <= calls[t].deadline
    /\ calls[t].status = "refused" => clock <= calls[t].deadline
    /\ calls[t].status = "granted" =>
         tasks[t].sent <= calls[t].deadline /\ clock <= tasks[t].sent + Timeout

\* When the load began that a task waits for.
Began(t) ==
  IF tasks[t].at = "loading" THEN calls[inflight[Head(tasks[t].todo)]].deadline - MaxWait
  ELSE clock

\* What asking for so many keys may take.
AtMost(keys) == keys * (MaxWait + Timeout)

\* How many keys a task is done with, at least.
Done(t) == Len(Chunks(tasks[t].job.ids)) - Len(tasks[t].todo)

\* A task has a job and keys to ask for as long as it asks, and so far it took no more
\* time than its keys may take; an answer was no older than answers may be when it came.
OnTrack(t) ==
  /\ tasks[t].at \in {"asking", "loading"} <=> tasks[t].todo # <<>>
  /\ ~Busy(t) => tasks[t].got = {}
  /\ Busy(t) =>
       /\ tasks[t].job \in Job
       /\ Len(tasks[t].todo) <= Len(Chunks(tasks[t].job.ids))
       /\ tasks[t].since <= clock
       /\ Began(t) - tasks[t].since <= AtMost(Done(t))
  /\ \A q \in tasks[t].got :
       q.at <= clock /\ Began(t) - q.at < Ttl + AtMost(Done(t) - 1)

OfThePast ==
  /\ \A k \in Key : entries[k] # None => entries[k].at <= clock
  /\ \A i \in Id : stored[i] # None => stored[i] <= clock

FeedIInv ==
  FeedTypeOK /\ Led /\ Paced /\ OfThePast /\ \A t \in Caller : OnTrack(t)

\* Where each id is that a request wants to be recent: still to be asked for, to be
\* stored, or stored.
Pursued(t) ==
  Busy(t) /\ tasks[t].job.does = "ensure" =>
    \A i \in tasks[t].job.ids \ tasks[t].missing :
      \/ \E n \in DOMAIN tasks[t].todo : i \in tasks[t].todo[n]
      \/ \E q \in tasks[t].got : q.id = i
      \/ stored[i] # None /\ tasks[t].since - stored[i] <= MaxAge

Ensured == \A t \in Caller : Pursued(t)

\* What a request takes for recent leaves room for the time in which all ids are refreshed.
AgeCoversRefresh == Ttl + AtMost(Len(Chunks(Id)) - 1) <= MaxAge + 1
=============================================================================
