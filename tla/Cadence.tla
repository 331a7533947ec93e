-------------------------------- MODULE Cadence --------------------------------
(***************************************************************************)
(* What is polled on which tick and what it costs: the tiers of the        *)
(* holdings (packages/alerts/src/portfolio.ts, apps/api/src/services/      *)
(* watchlist.ts), the plan made for the credits of the key                 *)
(* (packages/cmc-client/src/budget.ts) and the ticks that follow it        *)
(* (apps/api/src/services/poller.ts), with everything they ask             *)
(* CoinMarketCap for.  The poller's failures are the matter of Poller;     *)
(* here every call succeeds, tells of every coin it is asked about, and no *)
(* tick is skipped.                                                        *)
(*                                                                         *)
(* Cadences are counted in ticks, multipliers in halves, shares in         *)
(* hundredths.                                                             *)
(***************************************************************************)
EXTENDS Integers, FiniteSets, FiniteSetsExt

CONSTANTS
  User,
  Coin,         \* numbers: coins of one value keep their order
  Value,        \* what a holding may be worth
  Portfolios,   \* what users hold in the beginning
  Pegged,       \* PEGGED_IDS, the stablecoins that are always watched
  Wrappers,     \* the coins that are tokenised assets
  Desired,      \* DESIRED_CADENCE
  Multipliers,  \* MULTIPLIERS, in halves
  IdsPerCredit, \* IDS_PER_CREDIT
  Reserve,      \* ON_DEMAND_RESERVE
  TopShare,     \* TOP_HOLDING_SHARE
  ReplanEvery,  \* REPLAN_EVERY_TICKS
  RwaEvery,     \* RWA_EVERY_CATEGORY_RUNS
  RwaCost,      \* RWA_CREDITS_PER_REFRESH
  RwaStale,     \* MAX_RWA_AGE_MS - RWA_STALE_MARGIN_MS
  LowEvery,     \* LOW_REFRESH_EVERY_TICKS
  LowsPerRun,   \* LOWS_PER_RUN
  LowTtl,       \* LOW_TTL_MS
  LowCost,      \* what the price low of a coin costs: its statistics, a year of history, or both
  MinQuoteAge,  \* MIN_QUOTE_AGE_MS
  Month,        \* SECONDS_PER_MONTH; the bound on the ticks
  Limits,       \* credits that a key may have for a month
  MaxChanges,   \* bound on the changes of holdings and prices
  Unset

Tier == {"stable", "top", "small"}

Lane == Tier \cup {"global", "categories"}

ASSUME CadenceAssumption ==
  /\ Coin \subseteq Nat /\ IsFiniteSet(Coin) /\ Value \subseteq Nat
  /\ Portfolios \subseteq [Coin -> Value \cup {Unset}]
  /\ Pegged \subseteq Coin /\ Wrappers \subseteq Coin
  /\ Desired \in [Lane -> Nat \ {0}]
  /\ Multipliers \subseteq Nat \ {0} /\ IsFiniteSet(Multipliers) /\ Multipliers # {}
  /\ {IdsPerCredit, ReplanEvery, RwaEvery, LowEvery, LowTtl, Month} \subseteq Nat \ {0}
  /\ LowCost \in [Coin -> Nat] /\ LowsPerRun \in Nat
  /\ {RwaCost, RwaStale, MinQuoteAge, MaxChanges} \subseteq Nat /\ Limits \subseteq Nat
  /\ Reserve \in 0..100 /\ TopShare \in 0..100
  /\ Unset \notin Nat

VARIABLES
  tickCount,
  held,     \* User -> Coin -> what the user's rows of it are worth, or Unset
  key,      \* the credits the key really has
  limit,    \* creditLimit, Unset until it could be read
  plan,     \* plan, Unset until the first tick
  workload, \* workload
  runs,     \* categoryRuns
  rwaAge,   \* how long ago the tokenised assets were refreshed, Unset before
  age,      \* Coin -> how long ago it was refreshed, or first watched
  moved,    \* Coin -> how often its tier changed since then, 2 after a new plan
  described, \* the coins whose metadata is stored
  lowAge,   \* Coin -> how long ago its price low was stored, LowTtl when it is stale
  spent,    \* the credits spent so far
  since,    \* history: the tick since which the cadence and what is watched are as they are
  before,   \* history: what was spent before that
  blind,    \* whether a tick ran before the key could be read
  changes

account == <<spent, since, before>>

cadenceVars == <<tickCount, held, key, limit, plan, workload, runs, rwaAge, age, moved,
                 described, lowAge, account, blind, changes>>

-----------------------------------------------------------------------------
(* The workload *)

\* A user's holdings, with their worth by the latest quotes.
RowsOf(h) == {c \in Coin : h[c] # Unset}

Worth(h, cs) == SumFunctionOnSet(h, cs)

\* The coins sorted before c, from the largest on.
Before(h, c) == {d \in RowsOf(h) : h[d] > h[c] \/ (h[d] = h[c] /\ d < c)}

\* Slip: a coin counts towards the share it is compared with.
TopWithin(h) ==
  LET total == Worth(h, RowsOf(h)) IN
  {c \in RowsOf(h) : total = 0 \/ 100 * (Worth(h, Before(h, c)) + h[c]) < TopShare * total}

\* tierHoldings: the largest coins, until they make up TopShare.
TopOf(h) ==
  LET total == Worth(h, RowsOf(h)) IN
  {c \in RowsOf(h) : total = 0 \/ 100 * Worth(h, Before(h, c)) < TopShare * total}

\* buildWorkload: top for one user is top for all.
Workload(hs) ==
  LET top == UNION {TopOf(hs[u]) : u \in User}
      all == UNION {RowsOf(hs[u]) : u \in User}
  IN [stable |-> Pegged, top |-> top \ Pegged, small |-> all \ (top \cup Pegged)]

Watched(w) == w.stable \cup w.top \cup w.small

-----------------------------------------------------------------------------
(* The budget *)

\* scaleCadence: rounded to whole ticks, one at least.
Scale(m) == [l \in Lane |-> Max({1, (Desired[l] * m + 1) \div 2})]

Due(t, period) == t % period = 0

\* idsDueOnTick
IdsDue(t, cadence, w) == UNION {w[l] : l \in {x \in Tier : Due(t, cadence[x])}}

Lcm(a, b) == Min({k * a : k \in {i \in 1..b : (i * a) % b = 0}})

Cycle(cadence) ==
  Lcm(Lcm(Lcm(Lcm(cadence["stable"], cadence["top"]), cadence["small"]),
          cadence["global"]), cadence["categories"])

CreditsForIds(k) == (k + IdsPerCredit - 1) \div IdsPerCredit

\* What CoinMarketCap takes for the calls getQuotes makes: one for each chunk of ids.
Billed(ids) == (Cardinality(ids) + IdsPerCredit - 1) \div IdsPerCredit

\* What a tick costs but for the tokenised assets.
Flat(t, cadence) ==
  (IF Due(t, cadence["global"]) THEN 1 ELSE 0) + (IF Due(t, cadence["categories"]) THEN 1 ELSE 0)

\* What the plan counts for a tick, and for the first of them.
Cost(t, cadence, w) == CreditsForIds(Cardinality(IdsDue(t, cadence, w))) + Flat(t, cadence)

CostOf(ticks, cadence, w) == SumFunction([t \in 0..(ticks - 1) |-> Cost(t, cadence, w)])

\* estimateMonthlyCredits as planCadence calls it.
Estimate(cadence, w) ==
  LET cycle == Cycle(cadence) IN
  (CostOf(cycle, cadence, w) * Month + cycle - 1) \div cycle

\* collapseTiers: as long as one credit pays for all coins, all go with the stablecoins.
Collapse(cadence, w) ==
  IF Cardinality(Watched(w)) > IdsPerCredit THEN cadence
  ELSE [cadence EXCEPT !["top"] = cadence["stable"], !["small"] = cadence["stable"]]

\* planCadence: the first multiplier that leaves the reserve.
PlanFor(credits, w) ==
  LET with(m) == Collapse(Scale(m), w)
      fits(m) == 100 * Estimate(with(m), w) <= credits * (100 - Reserve)
      fitting == {m \in Multipliers : fits(m)}
  IN
  IF credits = Unset THEN [cadence |-> Desired, verdict |-> "unknown"]
  ELSE IF fitting = {} THEN [cadence |-> with(Max(Multipliers)), verdict |-> "insufficient"]
  ELSE [cadence |-> with(Min(fitting)), verdict |-> IF Min(fitting) = 2 THEN "fits" ELSE "stretched"]

-----------------------------------------------------------------------------
(* The poller *)

CadenceInit ==
  /\ tickCount = 0
  /\ held \in [User -> Portfolios]
  /\ key \in Limits
  /\ limit = Unset
  /\ plan = Unset
  /\ workload = [t \in Tier |-> {}]
  /\ runs = 0
  /\ rwaAge = Unset
  /\ age = [c \in Coin |-> 0]
  /\ moved = [c \in Coin |-> 0]
  /\ described = UNION {RowsOf(held[u]) : u \in User}
  /\ lowAge = [c \in Coin |-> LowTtl]
  /\ spent = 0 /\ since = 0 /\ before = 0
  /\ blind = FALSE
  /\ changes = 0

\* A holding is added, edited or removed, or its price moves.  The metadata of what is
\* added is stored first.
Change(u, c, v) ==
  /\ changes < MaxChanges
  /\ tickCount > 0 /\ tickCount < Month
  /\ v # held[u][c]
  /\ held' = [held EXCEPT ![u][c] = v]
  /\ changes' = changes + 1
  /\ described' = described \cup (IF v = Unset THEN {} ELSE {c})
  /\ UNCHANGED <<tickCount, key, limit, plan, workload, runs, rwaAge, age, moved, lowAge, account, blind>>

Replans == tickCount % ReplanEvery = 0 \/ plan = Unset

\* parseKeyInfo: what the answer says of the key, which may lack its monthly limit.
KeyInfo == [creditLimitMonthly : {key, Unset}]

\* What a tick comes to know of the key: nothing when it does not replan, or the call
\* fails.
Replies == {Unset} \cup (IF Replans THEN KeyInfo ELSE {})

\* Slip: the plan is made for the last answer, not for what is known.
PlannedByReply(info) ==
  /\ limit' = IF info = Unset THEN limit ELSE info.creditLimitMonthly
  /\ plan' = IF Replans THEN PlanFor(IF info = Unset THEN Unset ELSE info.creditLimitMonthly, workload') ELSE plan

\* replan takes what it reads, or keeps what it knew; other ticks keep the plan.
Planned(info) ==
  /\ limit' = IF info = Unset THEN limit ELSE info.creditLimitMonthly
  /\ plan' = IF Replans THEN PlanFor(limit', workload') ELSE plan

\* rwaWorthRefreshing, rwaWentStale: asked on the category runs only.
RefreshRwa ==
  /\ Due(tickCount, plan'.cadence["categories"])
  /\ rwaAge = Unset \/ Watched(workload') \cap Wrappers # {}
  /\ \/ runs % RwaEvery = 0
     \/ rwaAge # Unset /\ rwaAge > RwaStale

TierOf(c, w) == {t \in Tier : c \in w[t]}

\* How fresh the quotes are after the tick: what is due is refreshed.
Aged ==
  LET due == IdsDue(tickCount, plan'.cadence, workload')
      renewed(c) == c \in due \/ c \notin Watched(workload)
  IN
  /\ age' = [c \in Coin |-> IF renewed(c) THEN 0 ELSE Min({age[c] + 1, Month})]
  /\ moved' = [c \in Coin |->
       IF renewed(c) THEN 0
       ELSE IF plan = Unset \/ plan'.cadence # plan.cadence THEN 2
       ELSE IF TierOf(c, workload') # TierOf(c, workload) THEN Min({moved[c] + 1, 2}) ELSE moved[c]]

\* fillMissingMeta
MissingMeta == Watched(workload') \ described

\* refreshLows: of the top coins whose low is stale, as many as one run may ask for.
LowsToAsk ==
  LET stale == {c \in workload'.top : lowAge[c] = LowTtl} IN
  IF Due(tickCount, LowEvery)
  THEN {lows \in SUBSET stale : Cardinality(lows) = Min({LowsPerRun, Cardinality(stale)})}
  ELSE {{}}

\* Neither the cadence nor what is watched has changed since the tick before.
Steady == plan # Unset /\ plan'.cadence = plan.cadence /\ workload' = workload

\* runTick, as far as it asks CoinMarketCap.
RunTick(info) ==
  /\ tickCount < Month
  /\ workload' = Workload(held)
  /\ Planned(info)
  /\ Aged
  /\ \E lows \in LowsToAsk :
       /\ lowAge' = [c \in Coin |-> IF c \in lows THEN 1 ELSE Min({lowAge[c] + 1, LowTtl})]
       /\ LET quotes == Billed(IdsDue(tickCount, plan'.cadence, workload')) IN
          spent' = spent + quotes + Flat(tickCount, plan'.cadence)
                         + (IF RefreshRwa THEN RwaCost ELSE 0)
                         + Billed(MissingMeta) + Worth(LowCost, lows)
  /\ described' = described \cup MissingMeta
  /\ runs' = IF Due(tickCount, plan'.cadence["categories"]) THEN (runs + 1) % RwaEvery ELSE runs
  /\ rwaAge' = IF RefreshRwa THEN 1 ELSE IF rwaAge = Unset THEN Unset ELSE Min({rwaAge + 1, RwaStale + 1})
  /\ blind' = (blind \/ limit' = Unset)
  /\ since' = IF Steady THEN since ELSE tickCount
  /\ before' = IF Steady THEN before ELSE spent
  /\ tickCount' = tickCount + 1
  /\ UNCHANGED <<held, key, changes>>

CadenceNext ==
  \/ \E u \in User, c \in Coin, v \in Value \cup {Unset} : Change(u, c, v)
  \/ \E info \in Replies : RunTick(info)

CadenceSpec == CadenceInit /\ [][CadenceNext]_cadenceVars

-----------------------------------------------------------------------------
(* Correctness *)

\* The coins that are polled with the stablecoins or the top coins make up TopShare of
\* what each user holds, whoever else holds what (portfolio.ts:56-72, watchlist.ts:10-24).
TopCoversPortfolio ==
  [][tickCount' # tickCount =>
       \A u \in User :
         LET seen == RowsOf(held[u]) \cap (workload'.top \cup workload'.stable) IN
         100 * Worth(held[u], seen) >= TopShare * Worth(held[u], RowsOf(held[u]))]_cadenceVars

\* Slip: a coin may be as old as it is when it is refreshed in time.
MaxQuoteAgeOnce ==
  Max({MinQuoteAge, Max({plan.cadence[t] : t \in Tier})})

\* maxQuoteAgeMs
MaxQuoteAge ==
  Max({MinQuoteAge, 2 * Max({plan.cadence[t] : t \in Tier})})

\* The quote of a watched coin is never too old for the alerts, as long as its tier has
\* changed at most once and the cadence not at all since it was refreshed
\* (poller.ts:78-82, budget.ts:55-61).
QuotesAreUsable ==
  plan # Unset => \A c \in Watched(workload) : moved[c] <= 1 => age[c] <= MaxQuoteAge

\* How often it happens in n ticks at most, when p ticks lie between two times.
Times(n, p) == (n + p - 1) \div p

\* The tokenised assets: whenever it is their turn, and whenever they went stale.
RwaRuns(n, cadence) ==
  LET categories == Times(n, cadence["categories"]) IN
  Min({categories, Times(categories, RwaEvery) + Times(n, RwaStale + 1)})

\* What the plan leaves out, in n ticks: the assets, the stablecoins' metadata, and a price
\* low of each top coin.
LeftOut(n, cadence, w) ==
  RwaCost * RwaRuns(n, cadence) + CreditsForIds(Cardinality(w.stable))
    + Times(n, LowTtl) * Worth(LowCost, w.top)

\* However holdings, prices, the plan and what is known of the key have changed before: since
\* they last did, polling has cost no more than the cycles begun since then, at the price
\* that the plan puts on one, and what it leaves out (budget.ts:81-161, poller.ts:186-234).
SpentAsPlanned ==
  plan # Unset =>
    LET n == tickCount - since
        cycle == Cycle(plan.cadence)
    IN spent - before <= Times(n, cycle) * CostOf(cycle, plan.cadence, workload)
                           + LeftOut(n, plan.cadence, workload)

\* With the portfolios it was planned for, a month of polling costs no more than the key
\* has: what the plan leaves out is paid from the reserve (budget.ts:139-161,
\* poller.ts:221-234).
MonthIsPaidFor ==
  plan # Unset /\ plan.verdict \in {"fits", "stretched"} /\ changes = 0 /\ ~blind =>
    spent <= key

\* What polling costs, in any stretch of ticks and in a whole month.
CreditsAreEnough == SpentAsPlanned /\ MonthIsPaidFor

\* The cycle that a month ends in may cost more than its share.
Uneven(cadence, w) ==
  LET cycle == Cycle(cadence) rest == Month % cycle IN
  CostOf(rest, cadence, w) - (CostOf(cycle, cadence, w) * rest) \div cycle

\* The reserve has room for what a plan leaves out, and for the last cycle.
ReserveCovers ==
  \A k \in Limits, hs \in [User -> Portfolios] :
    LET w == Workload(hs) p == PlanFor(k, w) IN
    p.verdict \in {"fits", "stretched"} =>
      100 * (Uneven(p.cadence, w) + LeftOut(Month, p.cadence, w)) <= Reserve * k
=============================================================================
