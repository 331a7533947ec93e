-------------------------------- MODULE Poller --------------------------------
(***************************************************************************)
(* The polling loop (apps/api/src/services/poller.ts).  A timer calls      *)
(* tick() every minute; tick() does nothing while the one before it runs.  *)
(* A tick plans, refreshes the lanes that are due one after another, and   *)
(* evaluates the users who hold a refreshed coin.  Each call may fail; a   *)
(* daily or monthly quota error pauses polling; a failed query of the      *)
(* database throws out of the tick wherever nothing catches it.            *)
(*                                                                         *)
(* Time is in minutes, and calls may take any time.                        *)
(***************************************************************************)
EXTENDS Integers, FiniteSets

CONSTANTS
  User,         \* users with holdings
  Plans,        \* cadences a plan can have: [quotes, global, categories] in ticks
  NoPlan,       \* plan is null
  ReplanEvery,  \* REPLAN_EVERY_TICKS
  LowEvery,     \* LOW_REFRESH_EVERY_TICKS
  Pause,        \* PAUSE_ON_QUOTA_MS
  MaxNow,       \* bound on the clock
  MaxFailures   \* bound on failed calls, failed queries and restarts

ASSUME PollerAssumption ==
  /\ NoPlan \notin Plans
  /\ Plans \subseteq [quotes : Nat \ {0}, global : Nat \ {0}, categories : Nat \ {0}]
  /\ ReplanEvery \in Nat \ {0} /\ LowEvery \in Nat \ {0} /\ Pause \in Nat \ {0}
  /\ MaxNow \in Nat /\ MaxFailures \in Nat

Never == -Pause   \* a time so long ago that it matters no more

\* The lanes that are reported on /status; the three of the quotes count as one.
Lane == {"quotes", "global", "categories", "rwa"}

\* fillMissingMeta and refreshLows catch their own failures and keep no record of them.
Unrecorded == {"meta", "lows"}

\* What a tick asks CoinMarketCap for, in this order; it costs credits.
Metered == Lane \cup Unrecorded

After ==
  [quotes |-> "global", global |-> "categories", categories |-> "rwa",
   rwa |-> "meta", meta |-> "lows", lows |-> "holders"]

VARIABLES
  now,
  running,      \* the flag of tick()
  phase,        \* where runTick() is
  n,            \* its tick number
  began,        \* when it began
  tickCount,
  plan,
  pausedUntil,
  lanes,        \* Lane -> when it last succeeded
  stored,       \* the same in poll_state
  tried,        \* history: what this tick has asked for
  refreshed,    \* refreshedIds is not empty
  holders,      \* users who hold a refreshed coin, as last queried
  todo,         \* those still to be evaluated
  attempted,    \* history: those this tick has evaluated, or tried to
  quotaAt,      \* history: when each call last met a quota error, since the start
  failures

vars == <<now, running, phase, n, began, tickCount, plan, pausedUntil, lanes, stored, tried,
          refreshed, holders, todo, attempted, quotaAt, failures>>

thisTick == <<n, began, tried, refreshed, holders, todo, attempted>>

memory == <<tickCount, plan, pausedUntil, quotaAt>>

Due(call) ==
  CASE call \in {"quotes", "global", "categories"} -> n % plan[call] = 0
    [] call = "rwa"  -> n % plan.categories = 0
    [] call = "lows" -> n % LowEvery = 0
    [] call = "meta" -> TRUE

\* What goes wrong with a call, as CmcClient tells it: limited by a 429 or a code of its
\* own, with what the message says when there is no such code; or any other error.
Code == {"none", "minute", "daily", "monthly", "ip"}
CmcError ==
  [limited : {TRUE}, code : Code, says : {"minute", "daily", "monthly", "unknown"}]
    \cup [limited : {FALSE}, code : {"none"}, says : {"unknown"}]

\* classifyRateScope
Scope(error) == IF error.code # "none" THEN error.code ELSE error.says

\* handleFailure: the errors that pause polling; the limit of a minute or an address does not.
OverQuota(error) == error.limited /\ Scope(error) \in {"daily", "monthly"}

Quotas == {OverQuota(error) : error \in CmcError}

Fail == failures < MaxFailures /\ failures' = failures + 1

-----------------------------------------------------------------------------
\* runTick() begins: at once when the poller starts, then whenever the timer
\* fires and no tick is running.
Begin(number) ==
  /\ running' = TRUE
  /\ phase' = "planning"
  /\ n' = number
  /\ tickCount' = number + 1
  /\ began' = now'
  /\ tried' = {} /\ refreshed' = FALSE
  /\ holders' = {} /\ todo' = {} /\ attempted' = {}

Init ==
  /\ now = 0
  /\ running = TRUE
  /\ phase = "planning"
  /\ n = 0 /\ began = 0
  /\ tickCount = 1
  /\ plan = NoPlan
  /\ pausedUntil = 0
  /\ lanes = [l \in Lane |-> Never]
  /\ stored = lanes
  /\ tried = {} /\ refreshed = FALSE
  /\ holders = {} /\ todo = {} /\ attempted = {}
  /\ quotaAt = [c \in Metered |-> Never]
  /\ failures = 0

\* A minute passes and the timer fires.
Minute ==
  /\ now < MaxNow
  /\ now' = now + 1
  /\ IF running THEN UNCHANGED <<running, phase, tickCount, thisTick>> ELSE Begin(tickCount)
  /\ UNCHANGED <<plan, pausedUntil, quotaAt, lanes, stored, failures>>

NeedsPlan == n % ReplanEvery = 0 \/ plan = NoPlan

\* replan(); an unreadable key keeps the limits of the plan before.
Planning ==
  /\ phase = "planning"
  /\ phase' = "planned"
  /\ IF NeedsPlan THEN plan' \in Plans ELSE UNCHANGED plan
  /\ UNCHANGED <<now, running, lanes, stored, thisTick, tickCount, pausedUntil, quotaAt, failures>>

Paused == pausedUntil > now

\* Slip: a paused poller leaves out the quotes and goes on.
CheckPauseOfQuotes ==
  /\ phase = "planned"
  /\ phase' = IF Paused THEN "global" ELSE "quotes"
  /\ UNCHANGED <<now, running, lanes, stored, thisTick, memory, failures>>

CheckPause ==
  /\ phase = "planned"
  /\ IF Paused THEN phase' = "idle" /\ running' = FALSE
               ELSE phase' = "quotes" /\ UNCHANGED running
  /\ UNCHANGED <<now, lanes, stored, thisTick, memory, failures>>

\* Slip: a failure is recorded like a lane never refreshed.
RecordForgetful(call, ok) ==
  lanes' = IF call \notin Lane THEN lanes
           ELSE [lanes EXCEPT ![call] = IF ok THEN now ELSE Never]

\* record(): a failure keeps the time of the last success.
Record(call, ok) ==
  lanes' = IF call \in Lane /\ ok THEN [lanes EXCEPT ![call] = now] ELSE lanes

\* The end of a lane: its record is stored, and the next one has its turn; or
\* the query fails where nothing catches it, and the tick is over.
Recorded(call) ==
  \/ /\ phase' = After[call]
     /\ stored' = IF call \in Lane THEN [stored EXCEPT ![call] = lanes'[call]] ELSE stored
     /\ UNCHANGED running
  \/ /\ call \in Lane /\ Fail
     /\ phase' = "idle" /\ running' = FALSE
     /\ UNCHANGED stored

\* What is not due is left out; so are quotes, assets, metadata and price lows
\* that nobody needs.
Skip(call) ==
  /\ phase = call
  /\ call \in {"quotes", "rwa", "meta", "lows"} \/ ~Due(call)
  /\ phase' = After[call]
  /\ UNCHANGED <<now, running, lanes, stored, thisTick, memory, failures>>

Asked(call) ==
  /\ phase = call
  /\ Due(call)
  /\ tried' = tried \cup {call}
  /\ UNCHANGED <<now, n, began, tickCount, plan, holders, todo, attempted>>

\* The answer is stored in the database, then its record; if that fails, the
\* catch block records a failure, which may fail too.
Succeed(call) ==
  /\ Asked(call)
  /\ refreshed' = (refreshed \/ call = "quotes")
  /\ Record(call, TRUE)
  /\ Recorded(call)
  /\ phase' # "idle" => UNCHANGED failures
  /\ UNCHANGED <<pausedUntil, quotaAt>>

\* handleFailure(): a quota error of a lane pauses polling; metadata and price
\* lows only log theirs.  The tick goes on.
Refused(call, quota) ==
  /\ Asked(call)
  /\ Fail
  /\ Record(call, FALSE)
  /\ Recorded(call)
  /\ pausedUntil' = IF quota /\ call \in Lane THEN now + Pause ELSE pausedUntil
  /\ quotaAt' = IF quota THEN [quotaAt EXCEPT ![call] = now] ELSE quotaAt
  /\ UNCHANGED refreshed

\* userIdsHolding.
FindHolders ==
  /\ phase = "holders"
  /\ phase' = "users"
  /\ holders' \in IF refreshed THEN SUBSET User ELSE {{}}
  /\ todo' = holders'
  /\ UNCHANGED <<now, running, n, began, tried, refreshed, attempted, lanes, stored, memory, failures>>

\* Slip: a failed evaluation ends the loop.
EvaluateOrLeave(u) ==
  /\ phase = "users" /\ u \in todo
  /\ attempted' = attempted \cup {u}
  /\ \/ todo' = todo \ {u} /\ UNCHANGED failures
     \/ Fail /\ todo' = {}
  /\ UNCHANGED <<now, running, phase, n, began, tried, refreshed, holders, lanes, stored, memory>>

\* evaluateUser, which may throw: the next user's turn comes all the same.
Evaluate(u) ==
  /\ phase = "users" /\ u \in todo
  /\ todo' = todo \ {u}
  /\ attempted' = attempted \cup {u}
  /\ UNCHANGED failures \/ Fail
  /\ UNCHANGED <<now, running, phase, n, began, tried, refreshed, holders, lanes, stored, memory>>

UsersDone ==
  /\ phase = "users" /\ todo = {}
  /\ phase' = "digests"
  /\ UNCHANGED <<now, running, lanes, stored, thisTick, memory, failures>>

\* runDigests (module Digest), and the end of the tick.
Digests ==
  /\ phase = "digests"
  /\ phase' = "idle"
  /\ running' = FALSE
  /\ UNCHANGED <<now, lanes, stored, thisTick, memory, failures>>

\* Slip: the flag is reset only when the tick ends well.
ThrowStuck ==
  /\ phase \notin {"idle", "planned"} \cup Unrecorded
  /\ Fail
  /\ phase' = "idle"
  /\ UNCHANGED <<now, running, lanes, stored, thisTick, memory>>

\* A query fails where nothing catches it.
Throw ==
  /\ phase \notin {"idle", "planned"} \cup Unrecorded
  /\ Fail
  /\ phase' = "idle"
  /\ running' = FALSE
  /\ UNCHANGED <<now, lanes, stored, thisTick, memory>>

\* The process is started again, and loads poll_state.
Restart ==
  /\ Fail
  /\ lanes' = stored
  /\ UNCHANGED <<now, stored>>
  /\ Begin(0)
  /\ plan' = NoPlan
  /\ pausedUntil' = 0
  /\ quotaAt' = [c \in Metered |-> Never]

\* What a tick does once it has begun.
Work ==
  \/ Planning
  \/ CheckPause
  \/ \E call \in Metered : Skip(call)
  \/ \E call \in Metered : Succeed(call)
  \/ \E call \in Metered, quota \in Quotas : Refused(call, quota)
  \/ FindHolders
  \/ \E u \in User : Evaluate(u)
  \/ UsersDone
  \/ Digests

Next ==
  \/ Minute
  \/ Work
  \/ Throw
  \/ Restart

Spec == Init /\ [][Next]_vars

\* Every call has a timeout, and the database answers.
FairSpec == Spec /\ WF_vars(Work)

-----------------------------------------------------------------------------
(* Correctness *)

TypeOK ==
  /\ now \in 0..MaxNow
  /\ running \in BOOLEAN
  /\ phase \in {"idle", "planning", "planned", "holders", "users", "digests"} \cup Metered
  /\ running <=> phase # "idle"
  /\ n \in Nat /\ tickCount = n + 1
  /\ began \in 0..now
  /\ plan \in Plans \cup {NoPlan}
  /\ pausedUntil \in 0..MaxNow + Pause
  /\ lanes \in [Lane -> {Never} \cup 0..now] /\ stored \in [Lane -> {Never} \cup 0..now]
  /\ tried \subseteq Metered
  /\ refreshed \in BOOLEAN
  /\ holders \subseteq User
  /\ todo \subseteq holders
  /\ attempted \subseteq User
  /\ quotaAt \in [Metered -> {Never} \cup 0..now]
  /\ failures \in 0..MaxFailures

\* A tick asks CoinMarketCap for something.
Calls == tried' # tried /\ tried' # {}

\* After a quota error of a lane, no tick that begins later asks for anything
\* until the pause is over, however long ticks last and whichever lane had it
\* (poller.ts:134-143, 193).
QuietAfterQuota ==
  [][Calls => \A l \in Lane : quotaAt[l] < began => now >= quotaAt[l] + Pause]_vars

\* A lane that fails, or has failed, keeps no other lane from its turn: when it
\* comes to the users every market-wide lane that was due has been asked for (poller.ts:197-232).
LanesAreIsolated ==
  phase = "holders" =>
    \A l \in {"global", "categories"} : Due(l) => l \in tried

\* An evaluation that fails costs no other user theirs: at the end of a tick that
\* was not cut short, whoever holds a refreshed coin had a turn (poller.ts:238-250).
EveryHolderHasATurn == phase = "digests" => holders \subseteq attempted

\* One failure costs nobody else their turn, neither lane nor user.
EveryoneHasATurn == LanesAreIsolated /\ EveryHolderHasATurn

\* Nothing is polled without a plan, though the first replan may throw and its
\* tick number never comes again (poller.ts:190-192).
PlannedBeforePolling == phase \in Metered => plan # NoPlan

\* /status never takes back a success that was stored, whatever fails in
\* between: a later one replaces it, a restart loads it (poller.ts:124-132, 301-304).
LastSuccessIsKept ==
  [][\A l \in Lane : stored'[l] >= stored[l] /\ lanes'[l] >= stored'[l]]_vars

\* Whatever fails or throws, the tick ends and makes room for the next one
\* (poller.ts:177-185).
TickEnds == running ~> ~running

\* The inductive invariant: what each phase of a tick knows of the ones before,
\* and that the pause covers every quota error a lane has met (poller.ts:187-256).
TurnsTaken ==
  /\ phase \in {"categories", "rwa", "meta", "lows", "holders"} =>
       (Due("global") => "global" \in tried)
  /\ phase \in {"rwa", "meta", "lows", "holders"} =>
       (Due("categories") => "categories" \in tried)

PlanInHand == phase \notin {"idle", "planning"} => plan # NoPlan

QuietSince ==
  phase \in Metered => \A l \in Lane : quotaAt[l] < began => quotaAt[l] + Pause <= now

IInv ==
  /\ TypeOK
  /\ \A l \in Lane : quotaAt[l] + Pause <= pausedUntil
  /\ QuietSince
  /\ PlanInHand
  /\ TurnsTaken
  /\ phase \in {"users", "digests"} => holders \subseteq attempted \cup todo
  /\ phase = "digests" => todo = {}
  /\ \A l \in Lane : stored[l] <= lanes[l]
=============================================================================
