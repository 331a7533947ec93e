# Nemea in TLA+: models, checks and proofs

Nemea watches crypto portfolios. A poller refreshes market data from CoinMarketCap within a
credit budget, an alert engine turns the data into a few alerts per user, and a delivery service
sends them by Telegram, browser push and email. This directory holds TLA+ models of the parts
where order, failure, concurrency and time decide whether the program is right, the TLC runs
that check them on small instances, and TLAPS proofs of the main results for every value of the
constants.

Paths below are relative to `src/`; `services/` stands for `apps/api/src/services/`.

- [1. Inventory](#1-inventory)
- [2. Modules](#2-modules)
- [3. Runs](#3-runs)
- [4. Fairness](#4-fairness)
- [5. Proofs](#5-proofs)
- [6. Observed while modelling](#6-observed-while-modelling)
- [7. What is not modelled](#7-what-is-not-modelled)
- [8. What could come next](#8-what-could-come-next)
- [9. Running it](#9-running-it)

## 1. Inventory

One API process owns a Postgres database and runs the poller; the bot and the web app reach it
over HTTP. Inside the process everything runs on one thread, and control changes hands only at
an `await`, so a model's action is the code between two awaits. The database makes single
statements and explicit transactions atomic, and nothing else.

| component | state | operations | talks to | what is hard | what makes it correct |
|---|---|---|---|---|---|
| alert rules (`packages/alerts/src/rules.ts`, `portfolio.ts`) | none | twelve rules over quotes, holdings, context | evaluator | missing values, stale figures, units | at most one candidate per dedupe key; no alert on stale data |
| alert-fatigue gate (`packages/alerts/src/engine.ts`) | none | `evaluate` | evaluator | cooldown, roll-up and two caps in one ordered pass | caps hold, repeats wait, nothing is silent without a reason |
| evaluation of a user (`services/evaluator.ts`) | `alerts` | `evaluateUser`, `simulate`, `persist` | gate, delivery, repo | decides on a snapshot, stores row by row | the stored log obeys the gate's policy whatever was interleaved |
| explanations (`packages/alerts/src/explain.ts`, `similar-drops.ts`, `actions.ts`, `routes/alerts.ts`) | none | `explainAlert`, `findSimilarDrops`, `summarizePegExcursions`, `suggestActions` | client, market | counting slides once, missing data, time that passes while CoinMarketCap answers | nothing is made up, the past is counted right, swaps are safe |
| delivery (`services/delivery/*`) | `deliveries`, channel columns of `users`, `push_subscriptions` | `deliver`, three channels | Telegram, web push, Resend | lost answers, dead links, users that change settings meanwhile | at most one message per target, an honest ledger, every batch ends |
| email digest (`services/delivery/index.ts`) | `users.last_digest_at`, `deliveries` | `runDigests`, `sendDigest` | poller, Resend | a quarter-hourly run inside ticks that may be late | each alert mailed once, none forgotten |
| poller (`services/poller.ts`, `watchlist.ts`) | `poll_state`, timers, plan, pause | `start`, `stop`, `tick` | client, market, evaluator, delivery | partial failures, overlapping ticks, pause, restart | failures stay in their lane, holders are evaluated, a pause is a pause |
| credit budget (`packages/cmc-client/src/budget.ts`) | none | `planCadence`, `idsDueOnTick`, `estimateMonthlyCredits` | poller | a common cycle, rounding, tiers that change under the plan, calls the plan leaves out | polling costs what was planned, a month no more than the key has, quotes are fresh enough |
| request limiter (`packages/cmc-client/src/limiter.ts`) | time stamps of a minute | `acquire`, `setPerMinute` | every call of the client | callers that wait, a limit that changes | never above the limit in force; no caller waits for ever |
| response cache (`packages/cmc-client/src/cache.ts`) | entries, loads in flight | `getOrLoad`, eviction | client | coalesced loads, failures | nothing paid for twice, a failure never cached |
| CMC client (`packages/cmc-client/src/client.ts`, `errors.ts`, `parse.ts`) | call log, key info | one method per endpoint | limiter, cache | time-outs, classified errors, chunks, partial answers | typed errors; every job ends in time |
| market store (`services/market.ts`) | `quotes`, `meta`, `global`, `categories` | `refreshQuotes`, `ensureQuotes`, ... | client, repo | concurrent refreshes | what is given out is recent |
| holdings (`routes/portfolio.ts`, `repo.ts`, `holding-dialogs.tsx`, `wallet-import-dialog.tsx`, `queries.ts`) | `holdings`, the window's copy | add, edit, delete, sample, preview and confirm an import, poll | market, wallet reader | check-then-act, two-step import, answers out of order | the cap holds, imports are whole, promised room is there, the window catches up |
| preferences and push subscriptions (`routes/portfolio.ts`, `routes/channels.ts`, `settings-sheet.tsx`, `channels-panel.tsx`, `push.ts`) | `users.preferences`, `push_subscriptions`, drafts | `PUT /preferences`, subscribe, unsubscribe | push service | read, merge, write; drafts; count, then save | a save touches what it was told to; five browsers |
| one-time tokens and links (`routes/channels.ts`, `routes/internal.ts`, `repo.ts`) | `one_time_tokens`, channel columns | link code, email verification | bot, Resend | two users of one token | single use, not after expiry |
| sign-in (`routes/auth.ts`, `auth/session.ts`) | `users`, cookie | guest, nonce, verify | | a guest signed in twice at once | one user per wallet, no wallet replaced |
| wallet reader (`packages/chain-reader/src/*`) | pacing queue | `readWallet`, `readChain`, `matchBalances` | Blockscout, Etherscan | partial failure of providers, spam, limits | a chain is read or reported, never silently short |
| alert routes (`routes/alerts.ts`) | read marks | lists, read, simulate, explain, actions | evaluator | | |
| http and rate limits (`http.ts`, `app.ts`) | counters per key | `WindowRateLimiter.hit` | every route | window edges | no more than the limit per window |
| Telegram bot (`apps/bot/src/*`) | a flag for the health check | long polling, commands | API | nothing restarts a polling that stopped | |
| web app (`apps/web`) | what each window keeps: copies of the user and the portfolio, drafts | renders, calls `/api` | API | copies that are old | in holdings and preferences above |

How one alert comes about: a tick of the poller (every 60 s, `poller.ts:177`) refreshes the lanes
that are due, asks the repo who holds a refreshed coin, and for each of them calls
`evaluateUser`; that reads holdings, quotes and 30 days of past alerts, calls the pure
`evaluate`, inserts each row (`evaluator.ts:60-68`) and delivers it, three channels at once
(`delivery/index.ts:37`). Routes call `simulate` and change preferences, links and holdings at
any time in between.

## 2. Modules

| module | models | state and actions |
|---|---|---|
| `AlertGate` | `evaluate` of the engine, lines 64-166 | no state: `AfterCooldown`, `RolledUp`, `Surviving` and `Emissions`, the steps of the code in its order, as set expressions; candidates that tie under the code's sort are taken in any order |
| `Rules` | `rules.ts`, `portfolio.ts`, `engine.ts` 64-105, `parse.ts` and `market.ts` for quotes, categories and tokenised assets | one operator per rule over rows, quotes and market context; `RefreshQuotes`, `Age`, `RefreshMarket` (which parses a reply, drops what is unusable and stores the rest), `AddHolding`, `DeleteHolding`. Percentages and prices are integers in units that the constants fix, compared exactly by cross-multiplication where the code divides floats |
| `AlertPolicy` | what the gate promises, with no snapshot, batch or failure in it | `raised`, `now`; `Raise` one real alert under the two caps and the cooldown, `Pass` of time |
| `Evaluator` | `evaluator.ts`, the `alerts` table, `setPreferences`, restarts | `Load` the snapshot, `Evaluate` it, `Insert` row by row, `Finish`, or `Abort` at any point (a failed query, a restart); `Simulate`, `SetWeeklyCap` and `Tick` in between; refines `AlertPolicy` |
| `Delivery` | `delivery/index.ts:37-108` and its senders, for the rows of a batch | `Store` a batch, `Deliver` its next row: one job per chat, browser and mailbox goes through `SendPush`, `Answer`, `Record`, `Cleanup` (or `QueryFails` and `Rescue`), the jobs interleaved, `Delivered` when all are through; `Link`, `Unlink`, `SetChannels`, `Subscribe` by the user, `Die` of a target, `Crash` |
| `Digest` | `runDigests`, `sendDigest` within the poller's ticks | `Minute` starts a tick (or finds one running), which may be `Paused`; `Evaluate` raises an alert, whose own mail, when it is critical, is refused, taken or taken with its answer lost (`AnswerCritical`) and then recorded or not (`RecordCritical`); `RunDigests`, `AnswerMail`, `RecordMailed`, `Close`, each with lost answers and failed queries; `Restart` between any two |
| `Limiter` | `limiter.ts` | `stamps`, the callers' deadlines; `Acquire`, `Wake`, `SetPerMinute`, `Tick` |
| `Feed` | `cache.ts`, `client.ts` (`loadChunks`, `call`), `market.ts` (`refreshQuotes`, `ensureQuotes`) over the limiter's operators | entries and loads under way of the cache, the rows of the store with when they were fetched, and each caller's job, which `Start`s and goes from key to key by `Hit`, `Join` or `Miss`; a load waits in the limiter and ends by `Answer`, `NothingFound`, `Refuse` or `CallFails`; `Store` puts what came into its row, or `StoreFails`; `Replan` changes the rate, `Pass` lets time go on |
| `Poller` | `poller.ts` 60-304, `errors.ts` | the tick's program counter: `Minute`, `Planning`, `CheckPause`, each lane's `Skip`, `Succeed` or `Refused` with an error whose scope decides about a pause, `FindHolders`, `Evaluate` each user, metadata, lows, `Digests`; `Throw` out of the tick; `Restart` |
| `Cadence` | `budget.ts`, `portfolio.ts` 56-72, `watchlist.ts`, the poller's ticks and replans | the plan and workload in force, when each coin, its metadata and its price low were last refreshed, and what has been spent; `RunTick` replans when it is time and asks for what is due: quotes, global metrics, categories, assets, missing metadata and stale lows; `Change` moves a holding |
| `Holdings` | `portfolio.ts` 106-186, `repo.ts` 107-157, the web dialogs and queries | `rows` of one user, where each request is, and what the window shows; `CheckNew` and `CheckEmpty` before the await, `AddHolding` and `ReplaceWalletHoldings` as the transactions under the advisory lock, `Preview`, `Edit`, `Delete`; `Poll` and `ReadPortfolio` read what `Arrive` shows; `Abandon` loses an answer |
| `Accounts` | `auth.ts`, `channels.ts` 43-92, `internal.ts` 14-28, `repo.ts` 56-85 and 211-241 | `users`, `tokens` and where each request is; `Present` and `Claim` are the two halves of `consumeToken`, whatever the token is for; sign-in goes on by `ReadSession`, `ReadOwner`, `Attach` or `Create`, and `Lose`, `FindWinner` when the unique index refuses; an email by `AddEmail`, `MailToken`, `ReadUser`, `Confirm`; a chat by `LinkTelegram`; `Guest`, `Nonce`, `LinkCode`, `RemoveEmail`, `Unlink`, `Stop` and `Stopped`, and `Expire`, `Abandon` at any time |
| `Settings` | `settings-sheet.tsx`, `channels-panel.tsx`, `protect-section.tsx`, `push.ts`, `queries.ts` and their routes | each window's copy of the user, its draft and requests; `OpenSheet`, `Move`, `Submit`, `Toggle`, `Raise`; `RequireUser` and `SetPreferences` are the two halves of a save, `Learn` its answer; `enablePush`, `Look`, `SavePush`, `disablePush`, `DeletePush` the way of a subscription; `LoseSave`, `LosePush` lose a request or its answer |
| `Wallets` | `chain-reader/src/*` | per chain of a request its stage and what it has been told; `ReadStep` walks through Blockscout's pages or Etherscan's paced calls, `Fail` with an error that is retried, passed on to the next provider or final; `Finish` matches the balances and answers |
| `History` | `similar-drops.ts` | one turn of a loop per action: `DropTurn` over the falls of a history, `PegTurn` over the stretches below the floor |
| `Explain` | `explain.ts`, `actions.ts`, `evaluator.ts` 142-190, `routes/alerts.ts` | what is opened, the quote in hand and the answers of CoinMarketCap as they come in while time passes; then the sections and gaps that are told, and the swaps |

`MC*` modules give the constants their values. `*Proofs` modules hold theorems only.

**Composition.** `Evaluator` instantiates `AlertGate` for its decision and `AlertPolicy` as the
specification it implements (`ImplementsPolicy`). What it takes as a batch, candidates with
different dedupe keys, is what `Rules` is shown to produce (`OneVoicePerCoin`). `Feed` extends
`Limiter`: every call of its loads goes through the limiter's own operators, and the limiter's
theorem is checked on it (`GrantFits`). `Explain` extends `History`: the loops run as part of an
explanation. `Poller` treats an evaluation as one step that succeeds or fails; `Evaluator` looks
inside it, `Delivery` inside its last part. `Digest` is the last part of a tick. `Poller` takes
any plan from a set, `Cadence` makes the plans; `Holdings` takes any subset of the requested
chains as readable, `Wallets` reads them.

**Abstractions shared by the modules.** A coin, user, chat or browser is a model value. A
message's text, facts and context are left out. Time is an integer in the smallest unit the
component's decisions can tell apart. A query that fails, a call that fails and a call whose
answer is lost are separate outcomes wherever the code reacts to them differently. A mutated form
of a definition, marked `Slip:`, stands beside it: the mistake the property next to it is there
to catch.

**Abstractions of single modules.**

- `Holdings`: one window with one poll in flight. Amounts and cost bases are the mark of the
  last edit.
- `Settings`: at most one save per kind and window under way, as the disabled controls see to.
  `Look`, which asks the browser for its subscription, is one step; reloading the page is left out.
- `Feed`: queries take no time on the limiter's clock, and a sleeper that is due wakes before
  time goes on.
- `Wallets`: what was told is a set, since each provider is told of the same wallet; the order in
  which items are listed is left out, and so are amounts.
- `Cadence`: exact arithmetic; no call fails and no tick is skipped, which is `Poller`'s subject;
  CoinMarketCap tells of every coin it is asked about, so that metadata once asked for is there.
  What requests on demand cost is not counted, nor what their answers in the cache save.
- `Rules`: the floats' rounding is left out.

## 3. Runs

All runs pass and are exhaustive.

| run | asks | bounds, and why they are enough |
|---|---|---|
| `Evaluator` | do the stored alerts obey caps and cooldowns whatever comes between a decision and its inserts, is the gate silent only with a reason, and is what was rolled up told of? | five candidates under three keys: an hour's and a day's drop of one coin with one dedupe key (an escalation), a depeg, a portfolio drop in two severities. The day cap is 2 and the weekly cap up to 2, so that both are reached by one batch and by two; a day is 2 ticks, a week 3, the lookback 4, so that a cooldown ends inside the run; one simulated alert; failures and restarts anywhere |
| `Rules` | do the rules give one candidate per key, never speak from stale data, grow louder with the fall, and speak of a portfolio only with a cause? | two coins of two categories, one of them thematic, and a stablecoin, up to three rows, so that one coin fills two rows and another has the rest; quotes that hit each rule below, at and above its threshold in one window or both, with missing fields and a total loss; a fresh reply about the market with all context and an old one, with a category without a name, one listed twice, an asset without a name and a wrapper without an id. Every kind of alert in every severity is reached |
| `Delivery` | is a target sent at most one message per alert, is a `sent` record true, does every batch end? | one critical and one ordinary alert, so that the immediate email is and is not due; one chat and one browser; one failure and one user change, placed anywhere |
| `Digest` | is an alert mailed twice only after a loss, and within a day? | a day of 6 steps whose digest hour holds two runs, 14 steps: two digest hours and the day after; three alerts, one delayed tick, one loss |
| `Feed` | is the rate kept, is nothing paid for twice, is what is given out recent, does every job end in time? | three ids in chunks of two, so that a job has two calls; the poller and one request with two jobs each, starting within 4 ticks of a clock that runs to 8; a window of 2 ticks, waits of up to 1, a time-out of 1, an answer that is cached for 2 and a quote that is good for 3; a rate that changes between 1 and 2; a cache with room for 2 entries; an id that CoinMarketCap may leave out |
| `Poller` | does a failure cost nobody else a turn, is a pause kept, is no success taken back, does every tick end? | two users, a plan where everything is always due and one where lanes alternate, up to two failures per behaviour, time to 2: a tick, its successor within the pause and one after it |
| `Cadence` | does polling cost what the plan says, do the key's credits cover a month, are quotes fresh enough, does what makes up most of a portfolio count as top? | four coins, one of them pegged and one a tokenised asset, worth 0, 1 or 4; two users; a month of 32 ticks with a replan every 12, two cycles of the stretched plans and a part; three limits, too low for any plan, enough for a stretched one and enough for the desired one, which each replan may learn or not; a low asked for every 8 ticks that is good for 16, assets that go stale after 9; one change of a holding; the users are interchangeable (symmetry) |
| `Holdings` | does the cap hold with what was promised, are imports whole, does the window catch up? | three requests of any kind over two coins, two chains, one wallet and room for 3; the requests are interchangeable (symmetry) |
| `Accounts` | does a token work once, is a verified address or a linked chat really the user's, does a wallet keep its user? | three requests that take several steps (symmetry), two users, two tokens, two wallets, two addresses, one chat: two requests race for a token while a third, or one of the requests of a single step that come without limit, changes the user under them |
| `Settings` | does a save touch only what it was told to, is the limit of browsers kept? | two windows, two fields of the sheet and a switch with two values each, three push subscriptions with a limit of one, five clicks of users; windows and subscriptions are interchangeable (symmetry) |
| `Wallets` | is a preview all that one provider tells, does spam hide nothing, are calls spaced, does every request end? | one request that reads two chains and one that reads a third at the same time, with both providers in order on the first and the third, so that both requests wait for Etherscan, and Blockscout alone on the second; five tokens (a coin of worth, one of little, one without a price, a spent one, spam) on two pages of two and on less than a page, so that each limit of what is looked up is reached |
| `Explain` | is the past counted right, is nothing made up, does the blame follow the depth, are swaps safe? | every history of up to six days, each with one of three prices or none, where a slide is counted within two points; every mix of the coin's, its group's and the market's moves around the thresholds, and every depth up to 30 points more; every kind of alert; portfolios on two chains with two stablecoins |

`CHECK_DEADLOCK FALSE` stands where a model comes to rest: bounded time has run out, every
request is answered, or the last batch is done. `Evaluator` and `Rules` never stop and are
checked for deadlock.

What each property says stands above its definition. Every property is tied to a `Slip:`
operator of its module that breaks it under the same configuration.

## 4. Fairness

Safety needs none. The liveness properties assume weak fairness of what the code or its
environment does by itself, and never of users, of failures or of a restart:

- `Delivery`, `DeliveryEnds`: a channel that has begun goes on. Each sender has a deadline
  (10 s Telegram, 10 s push, 12 s email), after which the attempt counts as failed, and the
  database answers.
- `Poller`, `TickEnds`: a tick that has begun goes on: the client's calls time out, and the
  database answers or fails.
- `Wallets`, `EveryRequestEnds`: a reader that can go on goes on, a request whose chains are
  through is answered, and time passes. Every call has a time-out (`http.ts` of the reader), and
  the pacing queue goes on behind a call that failed.

That jobs of the client end is stated more sharply, as a bound on their time that holds in every
state (`JobsEndInTime` of `Feed`), and needs no fairness.

A call of the database that hangs for ever would leave the poller's `running` flag set. With
Postgres a statement is cut off after 20 s (`db/client.ts:18`); the embedded PGlite has no deadline,
and there `TickEnds` rests on the database.

## 5. Proofs

All proofs are checked by tlapm with SMT, Zenon and, for the temporal steps, LS4.

**`AlertPolicyProofs`.** Raising one alert at a time under the policy's guards keeps every window
of a day within the critical cap and every window of a week within the weekly cap (`PolicyCaps`),
and two alerts in a row with one key a cooldown apart or escalating (`PolicyCooldowns`). The guard
speaks of one window, the one that ends now, the invariant of every window there ever was. The
argument: any other window gains nothing by an alert raised now, and a window that does contain
it is a part of the one the guard counted.

**`EvaluatorProofs`.** `TypeCorrect`, `Invariance`, `Refinement`, and through it `CriticalCap`,
`WeeklyCap`, `Caps` (the run's `CapsHold`) and `Cooldowns`. The invariant that the properties need says, of a batch that has
been decided and not yet wholly stored: its candidates have different dedupe keys; each is past
its cooldown in the log *as it is now*; and those that count against a cap, together with what the
log holds in the window of that cap, fit under it. It is inductive because, while one evaluation
runs, nobody else adds real alerts: simulated ones count against nothing, and the passing of time
can only free room. With it each `Insert` is a `Raise` of the policy and every other step but
`Tick` and `Simulate` a stutter; the policy's theorems carry over. `SpeaksUp` (`NeverSilenced`)
and `RolledUpCovered` (`RolledUpIsCovered`) rest on a second invariant, `Verdict`: what an
evaluation decided is right of the log it was decided on, because at that moment every real alert
is an earlier one and the windows that were read hold what the log holds; and it stays right while
the batch is stored, because nothing is added to what the decision was made on.

About `Rules`, in the same module: `Louder` (`DeeperIsLouder`), `Silence` (`StaleIsSilent`), `Caused`
(`PortfolioDropHasACause`) and `OneVoice` (`OneVoicePerCoin`), for any coins, tags, groups, rows,
quotes, replies and preferences with positive thresholds. They hold of every state that is well
typed, so that the inductive invariant (`RulesInvariance`) is the types of rows, quotes and market;
the work is in what the rules compute.

- `CandidatesAre` says what an evaluation yields: for each rule and each held coin, group or
  portfolio what that rule yields of it, and nothing else; `KeysApart`, that no two of them share a
  key. Both rest on lemmas on lists that are put together (`FlatHas`, `FlatApart`) and on what a map
  makes of rows of one coin (`CoinsAre`).
- `Louder`: the rule judges the severity by the one window it speaks of, the one further past its own
  threshold, and the fall that deepens may be the other. The choice makes no difference
  (`EitherWindow`): the alert is critical exactly if either window is twice past its threshold.
- `Silence`: two sets of quotes that agree wherever they can be used give the same candidates
  (`SameCandidates`), and a stale quote cannot be used.
- `OneVoice`: the rules know the rows by who holds what (`HeldIs`), by which of them crossed their
  cost basis, and by sums. A sum over rows is a number of units, counted as a finite set (`SumIs`,
  which the sums of `Cadence` do likewise), so that rows may be moved (`SumMoved`) and a row split
  in two (`SumMore`) without a change to any of them.
- `Caused`: the portfolio's value a day ago is a fraction that a fold adds up coin by coin. If no
  coin had fallen by the depth of the alert, neither would have the sum (`SomeFell`): after any
  part of the fold the sum has fallen by less (`Keeps`). Folds are recursive in the library, and
  the prover cannot do induction over an operator; a smallest set of coins for which the claim
  failed (`Smallest`) leads to a contradiction instead.

**`LimiterProofs`.** `Invariance` (stamps are ordered, lie in the past, and what has been dropped
is a window old), `Rate` (`GrantFits`) and `Refusals`, for any set of callers, window, wait and
rates. `InPlace` carries them over to the composition: every step of `Feed` is a step of the
limiter or leaves it alone, so that `FeedRate` holds `GrantFits` where the run `Feed` checks it,
with the client, its cache and the market store on top.

Of the composition itself there are `FeedInvariance`, then `EndInTime` (`JobsEndInTime`), `Paid`
(`PaidOnce`), `Backwards` and `StaysRecent` (`QuotesStayRecent`), for any callers, jobs, chunks,
waits and time-outs. A load under way belongs to one task, which is the one that pays for it; and
whoever waits for it, its owner or one that joined, has by the time it began spent no more than one
wait and one time-out on each key it is done with. That second part is what makes the bound on a
job hold for those who join: a load that is shared began before they came. `StaysRecent` follows
what an id of `ensureQuotes` goes through (to be asked for, in hand, stored) and assumes
`AgeCoversRefresh`: an answer as old as the cache keeps it, and the time all later chunks may take,
fit into what counts as recent. In the code an answer is cached for 45 s, a chunk takes up to 15 s (a
wait of 5 and a time-out of 10) and a quote is recent for 120 s, so that the assumption holds for
requests of up to six chunks, 600 coins; the run meets it with equality.

About `Cadence`, in the same module: `CadenceInvariance`, then `Usable` (`QuotesAreUsable`) and
`Covered` (`TopCoversPortfolio`), for any users, coins, portfolios, cadences, multipliers and
credits. Since a coin was last refreshed no tick has come that is a multiple of its tier's cadence,
nor, up to the tick in which it moved, of the tier it was in before; of as many ticks in a row as a
cadence is long one is a multiple (`SomeIsDue`), so that two waits of at most the slowest cadence
are what `maxQuoteAgeMs` must allow for, and does. For `Covered`, the first coin that is not top
has the share before it. That needs what a sum over a set is, which the community modules define by
recursion: `WorthIs` shows that it is the number of units the coins are worth. The number of units
solves the equation of the recursion, so that there is a solution; and two solutions agree, since a
smallest set on which they differ (`Smallest`) cannot be.

Then what polling costs, all calls of a tick together. `AsPlanned` (`SpentAsPlanned`, one half of
`CreditsAreEnough`) holds for any holdings, keys, cadences and costs, and on every tick of every
behaviour, whatever changed before and whether or not the key could be read. A stretch begins when
the cadence or the workload is another than on the tick before (`since`, `before`). Since then the
poller has spent no more than the cycles begun in the stretch, at the price that
`estimateMonthlyCredits` puts on one, and what the estimate leaves out (`LeftOut`): the assets
when it is their turn or they went stale, the stablecoins' metadata, and a price low of each top coin
per `LowTtl`. `MonthPaid` adds the other half, `MonthIsPaidFor`: a month with the portfolios and the
limit it was planned for costs no more than the key has. That is under `ReserveCovers`, a condition
on the constants, since what the plan leaves out and the part of a cycle that the month ends in are
paid from the reserve. It speaks of the reserve alone; that the estimate bounds what the tiers, the
global metrics and the categories cost is proved. The argument has four parts.

- The estimate: every lane's cadence divides the cycle (`Common`, `Cycles`), so that a tick costs what
  the one a cycle before did (`Repeats`), whole cycles cost so many times the first, from whichever
  tick on (`Cycled`), and the rounding up in `estimateMonthlyCredits` is never to the plan's
  disadvantage (`MonthCosts`).
- The rest: the account of the state (`Account`) splits the refreshes of a stretch into those in
  their turn, one for every `RwaEvery` category runs, wherever the count stood when it began
  (`Windows`), and those because the assets went stale, which are `RwaStale` + 1 ticks after the one
  before (`TickRefreshes`, `RefreshBound`); the lows of a coin are `LowTtl` ticks apart (`TickAsks`,
  `LowsBound`); and what is held has its metadata, so that only the first tick asks for any
  (`Described`, `TickDescribes`).
- Each tick pays for what the account says (`TickPays`), and each stretch starts one
  (`StretchBegins`, `TickAccounted`).
- The plan: it is made for the same key and the same workload on every replan, whether or not the
  key can be read again (`TickAccount`). This is where a replan that forgets the limit would break it.

TLC evaluates `ReserveCovers` for the run's figures (`MCReserve`). For the code's it comes down to
arithmetic, and holds only as long as there are few top coins. Without any, it holds for each of the
fifteen multipliers with the smallest key that it fits, and a watchlist of stablecoins that is not
empty: at its closest, multiplier 16, the estimate and the rest are 3421 credits of 3495. A year of
history costs 4 credits (`docs/evidence/gate-a-cmc.json`), so that a low that comes from the history
costs a top coin up to 120 credits a month. With the Basic key of 15,000 credits and its
estimate of 11,880 (`docs/HONEST_LIMITS.md`) the assets may take 850 of the reserve of 2250, and the
lows of eleven top coins the rest; from nineteen on the bound is above the whole key.

**`DeliveryProofs`.** `Invariance`, then `NoDuplicates` (`AtMostOnce`), `HonestLedger`
(`SentMeansTaken`) and `EveryChannel`, the safety half of `DeliveryEnds`, for any alerts, chats,
browsers and senders. The invariant places every alert: it is still to come, in the batch, in its
turn or through; nothing was taken of those before their turn, nor of a job that has still to be
answered. `DigestInvariance`, then `LossesPay` (`MailedTwiceOnlyAfterLoss`) and `WithinADay`
(`MailedWithinADay`), for any length of the day, the digest's hour and its rhythm. The first
counts: a mail is taken down, about to be, or has a loss to its name. For the second the invariant
follows one minute of the hour: while no tick is late, the digest goes out in the same minute of
every day, and what it looks back on joins what the day before looked back on.

**`PollerProofs`.** `Invariance`, then `Isolation`, `Turns`, `EveryTurn`, `Planned`, `Quiet` and
`Successes`, for any users, plans, cadences and pause. The invariant ties the program counter to
what has been done: which lanes had their turn, which users are left, that a plan exists from the
lanes on, and that the pause covers every quota error a lane has met, which is why a tick that got
past the check of the pause began with none in force. `Advances` states a measure: every step of
a tick, a thrown one and a failed call too, leaves fewer phases, or the same phase and fewer users.

**`HoldingsProofs`.** `Invariance`, `Room`, `Replacing`, `Whole` (`ImportsAreWhole`) and `CatchesUp`, for any requests, coins,
chains and wallets. Room and replacement are cardinality arguments over the rows an import
deletes and inserts. For the window, the invariant says that unless it is behind (an answer was
lost, or an older one came last), one of three things holds: somebody still owes an answer; the
answer that was read last is on its way; or the window shows the portfolio. Once nothing is under
way only the third is left.

About `Wallets`, in the same module: `WalletsInvariance`, `OneProvider` (`OneProviderTellsAll`),
`Spam` (`SpamHidesNothing`) and `Spaced` (`CallsAreSpaced`), for any requests, chains, providers,
tokens and limits. The invariant is about each chain by itself: what the provider that is asked has
told and has still to tell is all it has to tell within its limits, which a failure empties; and
about the queue: whoever sleeps before its call is the first in it, and sleeps for the rest of the
interval. That spam hides nothing is a counting argument over what goes before a token.

**`AccountsProofs`.** `Invariance`, then `SingleUse`, `Verified`, `Chats`, `Links` as parts of the
invariant and `DurableWallets`, `DeadLinks`, `OnlyRaces` as action properties, for any requests,
users, tokens, wallets, addresses and chats. The invariant carries what a request has learnt
across its awaits: that its token exists, is of the purpose it was presented for and has been
spent by it; and that its user is still a guest, or still has the address it read, unless the
request is in `overtaken`. That history is what lets the action properties say exactly which race
can take a user from a wallet, or bring an address back, and that nothing else can.

About `Settings`, in the same module: `SettingsInvariance`, `Untouched` (`UntouchedIsKept`) and
`PushLimit` (`PushLimitHolds`), for any windows, fields, values and endpoints. A draft differs from
its window's copy only where its user moved something or the window was told of a change, so that
a save carries nothing else; and whoever is about to save a subscription counted fewer than the
limit, or saw its own among them.

**`ExplainProofs`.** About the loops of `History`: `Invariance` and `TrueHistory`
(`HistoryIsRight`), for any histories, thresholds, floor and windows: what the loops have counted
by the time they end is what the definitions over the whole history say. The invariant is about the
part of the history that a loop has passed: the falls counted are those of it that no earlier fall
runs into, the fall that is remembered is the latest of all that pass the threshold, and the peg
loop is in a stretch exactly if the point before is below the floor.

About `Explain`: `ExplainInvariance`, then `TruePast` (`HistoryIsRight` as the run checks it),
`Honest` (`NothingIsMadeUp`), `Blamed` (`BlameFollowsDepth`) and `SafeSwaps` (`SwapsAreSafe`), for
any cases, coins, chains, holdings, quotes and limits. The invariant adds that an alert which is
about to be composed knows of the past what its kind asks for, so that a fall is told with its past
or with a gap and never with neither, and that the loops were begun on points. `Depth` is the lemma
on the chain of thresholds. For the swaps, `First` needs the first stablecoin of a list, which is
the least of its places: `Least` gets it from the library's theorem that no set has ever smaller
finite subsets for ever, in place of an induction.

**Assumptions.** Each module names its own (`GateAssumption`, `EvaluatorAssumption`,
`RulesAssumption`, `DeliveryAssumption`, `DigestAssumption`, `LimiterAssumption`, `FeedAssumption`,
`CadenceAssumption`, `PollerAssumption`, `HoldingsAssumption`, `AccountsAssumption`, `SettingsAssumption`,
`WalletsAssumption`, `HistoryAssumption`, `ExplainAssumption`): finiteness where something is counted, positive windows,
limits and pages, a digest rhythm that divides the day, cooldowns that are naturals, a null that is
no value. `ExplainAssumption` also says that a history without its unusable days is a sequence of
points, which follows from what `SelectSeq` is but not from anything the prover knows of it. TLC
evaluates all of them in every run.

**Model-checked only.** Liveness under fairness (`DeliveryEnds`, `TickEnds`, `EveryRequestEnds`),
which is beyond the prover; of `TickEnds`, `Advances` leaves only that the steps are taken. Every other property of the runs is a theorem: two of them,
`QuotesStayRecent` under a condition on the figures that the code and the run meet
(`AgeCoversRefresh`), and the half of `CreditsAreEnough` that is about a month, under one that the
run meets and the code does while there are few top coins (`ReserveCovers`).

## 6. Observed while modelling

The models allow the following, and the properties are worded around it. None of it is a run of
its own.

Alerts and delivery:

- The roll-up is decided before the caps (`engine.ts:123-146`). A critical portfolio alert that
  swallowed a coin's warning can itself be dropped by the daily cap on critical alerts, and nothing
  goes out although the weekly cap had room for the warning.
- A portfolio alert in its cooldown no longer rolls anything up (`engine.ts:123`): at the next poll
  of the same crash the coins are alerted one by one. `README.md:65` speaks of "a roll-up so one
  crash is one alert"; the test at `packages/alerts/test/engine.test.ts:358` fixes the behaviour.
- A refusal by the old chat unlinks whatever chat is linked when it arrives
  (`delivery/index.ts:55`, next to `docs/ARCHITECTURE.md:41`). `/stop` in the bot reads the user of
  the chat and then clears whatever chat that user has (`internal.ts:25-26`). A batch under way still
  goes to a chat that was unlinked meanwhile.
- Rows stored before a crash are never sent, and their cooldown silences the next evaluation.
- The digest looks back 24 hours from now, not to the last digest (`delivery/index.ts:112`,
  `README.md:67`); a digest that runs later in its hour than yesterday's leaves a gap.
- A critical alert whose own mail was taken, but whose answer or record was lost, is on record as
  nothing (`delivery/index.ts:104-107`): the day's digest mails it again.
- A stale quote takes its coin out of the total, so that the *shares* of the other coins grow: one
  coin going stale can raise a dry-up or category alert about another that was below 10 % before.
  Only the portfolio alert asks whether data is missing (`rules.ts:242`, `327`, `363`).

Polling and budget:

- A quota error that answers a request for metadata or price lows is logged and pauses nothing
  (`poller.ts:285-298`); the tick that meets one still polls its remaining lanes; a restart forgets
  the pause. `docs/HONEST_LIMITS.md:28` says that polling pauses.
- The plan leaves the refreshes of tokenised assets, the metadata and the price lows out
  (`poller.ts:219-234`); they are paid from the 15 % that are reserved for requests on demand
  (`docs/HONEST_LIMITS.md:27`). The lows grow with the number of top coins and nothing stretches
  them: a key whose lows come from a year of history, as the Basic plan's do, can run out before the month does
  (section 5 has the figures). Key info without a limit, even after
  one that had it, turns the plan to "unknown", the desired cadence whatever it costs.
- Chunks of one `ensureQuotes` are loaded one after another, each in up to 15 s (a wait of 5 s and a
  time-out of 10 s), and an answer may come from the cache, up to 45 s old. The first chunk's quotes
  are still within their two minutes when the last is stored for up to six chunks, 600 coins.

Portfolio, accounts, settings:

- Whether a coin is held is looked up before a remote call and outside the transaction that inserts
  it (`portfolio.ts:109`): two requests at once add it twice, which `apps/api/test/api.test.ts:127`
  rules out for one after the other. Two sample requests at once load the sample twice.
- Answers to changes and polls that overtake each other can show an older portfolio until the next
  poll, 30 s later (`queries.ts:66-76`, `182-227`).
- Of two wallets that sign in on one guest at once, the later `attachWallet` overwrites the earlier
  (`auth.ts:87`): both are answered with the same user, and the earlier wallet will open an empty
  account next time.
- A confirmation that has passed its check writes the address back (`channels.ts:85`), although it
  may have been removed or replaced meanwhile; it is an address that the user once confirmed.
- The limit of five browsers is counted before it is used (`channels.ts:100-106`).
- "Turn off on this browser" in a browser without a subscription of its own deletes all the user's
  subscriptions (`channels-panel.tsx:258`, `push.ts:38-49`, `channels.ts:112-115`), and `subscribed`
  speaks of the account, so that a second browser is offered no way to turn push on until its copy
  says otherwise.
- The settings sheet keeps the draft it was opened with; saving it takes back a field that was
  changed elsewhere since, once the window has been told of the change (`settings-sheet.tsx:81`).
- A Telegram code that is linked in the 3 s between two polls can be shown as expired
  (`channels-panel.tsx:70-78`, `139`).

Wallets and explanations:

- Etherscan is asked for the balances of 40 contracts at most, found in 2000 transfers at most, and
  no note tells of the cut; a preview from it can miss a token that Blockscout would have shown
  (`docs/HONEST_LIMITS.md:61`, `etherscan.test.ts:136`). The note about tokens that were left out
  for want of a price cannot appear for it.
- An error on the second page of Blockscout drops the tokens of the first. A 404 means that the
  address never held anything; one that answers a later page is left out of the model.
- Why no swap is suggested is told only if none is. The check that a stablecoin is on its peg has a
  lower bound only. The gap that a portfolio alert would have about history (`explain.ts:343`) cannot
  be reached, and a portfolio without groups gets neither the section nor a gap.

## 7. What is not modelled

- **Http and rate limits**: a limiter counts and decides without an await, so that nothing
  interleaves with it; the rest is the wiring of routes and errors.
- **The bot**: one call of the API per command, whose effect is in `Accounts`, and a flag for the
  health check. Nothing in the code restarts polling.
- **Wording, formatting, layout**, logs, the status page, notices to the administrator, lists and
  read marks of alerts: no decision depends on them.
- **Amounts, cost basis and the valuation**, and the medians and extremes that summarize a history:
  data that no property tells apart.
- **The map of tokenised assets and the global metrics' fields that no rule reads**; metadata of
  tokens, which is written once and appears as constants.
- **Session cookies** are the id of their user in `Accounts`: their signature and their expiry, and
  the signature of the sign-in message are left out.
- **Start-up, configuration, scripts and the replay**, run once or outside the service.
- **Postgres**: a statement or transaction is one atomic step that succeeds or fails.

## 8. What could come next

The modules cover the plan this project began with. Left over, in the order in which they would
add most: the tiers of `Cadence` under the poller's failures, as one composed module; several
windows in `Holdings`.

## 9. Running it

```
tlc -workers 2 -config Evaluator.cfg MCEvaluator
tlapm EvaluatorProofs.tla
```

`Digest` is run directly, every other run through its `MC` module. The longest, `Rules`,
`Wallets` and `Cadence`, take one to two minutes. `PROJECT.json` lists the module and configuration of every run,
the source lines of every definition, the slips each property catches and the hazards they are
aimed at.
