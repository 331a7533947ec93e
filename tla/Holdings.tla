------------------------------- MODULE Holdings -------------------------------
(***************************************************************************)
(* The portfolio of one user under requests that run at the same time      *)
(* (apps/api/src/routes/portfolio.ts, repo.ts): adding a coin, loading the *)
(* sample, importing a wallet in two steps, editing, deleting, polling.  A *)
(* request is cut wherever it awaits; the database serialises the          *)
(* transactions that take the user's advisory lock.                        *)
(*                                                                         *)
(* A window of the web app (apps/web/lib/queries.ts, components) shows the *)
(* portfolio of the last answer that reached it, and picks from a preview  *)
(* as many coins as it was told there is room for.                         *)
(***************************************************************************)
EXTENDS Integers, FiniteSets

CONSTANTS
  Request,      \* requests, each sent once
  Coin,
  Chain,
  Wallet,
  SampleCoin,   \* SAMPLE_PORTFOLIO
  MaxHoldings

Item == [coin : Coin, chain : Chain]   \* a balance found in a wallet

ASSUME HoldingsAssumption ==
  /\ SampleCoin \subseteq Coin /\ SampleCoin # {}
  /\ IsFiniteSet(Item)
  /\ MaxHoldings \in Nat

\* One row of holdings, known by the request that inserted it.
ManualRow(r, c) == [by |-> r, source |-> "manual", coin |-> c]

WalletRow(r, w, i) ==
  [by |-> r, source |-> "wallet", coin |-> i.coin, wallet |-> w, chain |-> i.chain]

Row ==
  {ManualRow(r, c) : r \in Request, c \in Coin}
    \cup {WalletRow(r, w, i) : r \in Request, w \in Wallet, i \in Item}

\* A portfolio as an answer tells it: its rows, and which have been edited.
View == [rows : SUBSET Row, edited : SUBSET Row]

VARIABLES
  rows,      \* holdings of the user
  edited,    \* those whose amount or cost the user has changed since
  at,        \* Request -> where it is
  coins,     \* Request -> coins it has yet to insert
  import,    \* Request -> [wallet, items, chains] picked in the dialog
  answer,    \* Request -> the portfolio its answer tells
  shown,     \* the portfolio the window shows
  outdated,  \* history: requests whose preview the portfolio has moved on from
  latest,    \* history: the last request to read the portfolio, unless it has changed since
  behind     \* history: the answer that tells of the last change was lost, or overtaken

vars == <<rows, edited, at, coins, import, answer, shown, outdated, latest, behind>>

window == <<shown, behind>>

At ==
  {"unsent", "adding", "loading", "picked", "viewing", "polling", "answered", "done", "refused"}

Ended == {"done", "refused"}

Imports == [wallet : Wallet, items : SUBSET Item, chains : SUBSET Chain]

Send(r, place) == at[r] = "unsent" /\ at' = [at EXCEPT ![r] = place]

Portfolio == [rows |-> rows, edited |-> edited]

Nothing == [rows |-> {}, edited |-> {}]

\* Whoever looked at the portfolio before it changed has an old picture of it.
Becomes(portfolio) ==
  /\ rows' = portfolio
  /\ edited' = edited \cap portfolio
  /\ outdated' = IF rows' = rows THEN outdated ELSE outdated \cup {r \in Request : at[r] = "picked"}
  /\ latest' = {}

StaysAsItIs == UNCHANGED <<rows, edited, outdated, latest>>

Init ==
  /\ rows = {}
  /\ at = [r \in Request |-> "unsent"]
  /\ coins = [r \in Request |-> {}]
  /\ import \in [Request -> {[wallet |-> w, items |-> {}, chains |-> {}] : w \in Wallet}]
  /\ edited = {}
  /\ answer = [r \in Request |-> Nothing]
  /\ shown = Nothing
  /\ outdated = {}
  /\ latest = {}
  /\ behind = FALSE

-----------------------------------------------------------------------------
(* Adding a coin, and the sample *)

\* findManualHolding.
HasManual(c) == \E x \in rows : x.source = "manual" /\ x.coin = c

\* POST /portfolio/holdings, up to the lookup of the coin's metadata.
CheckNew(r, c) ==
  /\ IF HasManual(c) THEN Send(r, "refused") /\ UNCHANGED coins
     ELSE Send(r, "adding") /\ coins' = [coins EXCEPT ![r] = {c}]
  /\ StaysAsItIs
  /\ UNCHANGED <<import, answer, window>>

\* POST /portfolio/sample, up to the lookup of metadata.
CheckEmpty(r) ==
  /\ IF rows # {} THEN Send(r, "refused") /\ UNCHANGED coins
     ELSE Send(r, "loading") /\ coins' = [coins EXCEPT ![r] = SampleCoin]
  /\ StaysAsItIs
  /\ UNCHANGED <<import, answer, window>>

\* A request has changed the portfolio and has yet to read it.
Owed(r) == at[r] = "viewing" \/ (at[r] = "loading" /\ coins[r] # SampleCoin)

\* The request fails before it has read the portfolio it would answer with.  What it
\* has changed by then is not told to the window.
Refuses(r) ==
  /\ at' = [at EXCEPT ![r] = "refused"]
  /\ behind' = (behind \/ Owed(r))

Full == Cardinality(rows) >= MaxHoldings

\* addHolding, a transaction under the lock.
AddHolding(r, c) ==
  /\ at[r] \in {"adding", "loading"} /\ c \in coins[r]
  /\ IF Full THEN Refuses(r) /\ coins' = [coins EXCEPT ![r] = {}] /\ StaysAsItIs
     ELSE /\ coins' = [coins EXCEPT ![r] = @ \ {c}]
          /\ at' = [at EXCEPT ![r] = IF coins'[r] = {} THEN "viewing" ELSE @]
          /\ Becomes(rows \cup {ManualRow(r, c)})
          /\ UNCHANGED behind
  /\ UNCHANGED <<import, answer, shown>>

-----------------------------------------------------------------------------
(* Importing a wallet *)

Imported(w, chains) ==
  {x \in rows : x.source = "wallet" /\ x.wallet = w /\ x.chain \in chains}

\* Slip: chains that could not be read are promised to be replaced, too.
CapacityAsRequested(w, requested, readOk) == MaxHoldings - Cardinality(rows \ Imported(w, requested))

\* How many coins the dialog may tick.
Capacity(w, requested, readOk) == MaxHoldings - Cardinality(rows \ Imported(w, readOk))

\* POST /portfolio/import-wallet/preview, its answer, and what the user ticks of
\* it: some of the requested chains cannot be read.
Preview(r, w, requested, readOk, items) ==
  /\ items # {}
  /\ Cardinality(items) <= Capacity(w, requested, readOk)
  /\ Send(r, "picked")
  /\ import' = [import EXCEPT ![r] = [wallet |-> w, items |-> items, chains |-> readOk]]
  /\ StaysAsItIs
  /\ UNCHANGED <<coins, answer, window>>

Unpick(r) == import' = [import EXCEPT ![r].items = {}, ![r].chains = {}]

\* Slip: no transaction; a refused import has already deleted.
ReplaceInPieces(r) ==
  LET i    == import[r]
      kept == rows \ Imported(i.wallet, i.chains) IN
  /\ at[r] = "picked"
  /\ IF Cardinality(kept) + Cardinality(i.items) > MaxHoldings
       THEN Refuses(r) /\ Becomes(kept)
       ELSE /\ at' = [at EXCEPT ![r] = "viewing"]
            /\ Becomes(kept \cup {WalletRow(r, i.wallet, j) : j \in i.items})
            /\ UNCHANGED behind
  /\ Unpick(r)
  /\ UNCHANGED <<coins, answer, shown>>

\* POST /portfolio/import-wallet/confirm: replaceWalletHoldings, a transaction
\* under the lock.
ReplaceWalletHoldings(r) ==
  LET i    == import[r]
      kept == rows \ Imported(i.wallet, i.chains) IN
  /\ at[r] = "picked"
  /\ IF Cardinality(kept) + Cardinality(i.items) > MaxHoldings
       THEN Refuses(r) /\ StaysAsItIs
       ELSE /\ at' = [at EXCEPT ![r] = "viewing"]
            /\ Becomes(kept \cup {WalletRow(r, i.wallet, j) : j \in i.items})
            /\ UNCHANGED behind
  /\ Unpick(r)
  /\ UNCHANGED <<coins, answer, shown>>

-----------------------------------------------------------------------------
(* Editing and deleting a row that the window shows *)

\* updateHolding, a single update.
UpdateHolding(x) ==
  /\ x \in rows
  /\ edited' = edited \cup {x}
  /\ latest' = {}
  /\ UNCHANGED <<rows, outdated>>

\* deleteHolding, a single delete.
DeleteHolding(x) ==
  /\ x \in rows
  /\ Becomes(rows \ {x})

\* The row is gone: 404.
Gone(r, x) ==
  /\ x \notin rows
  /\ Send(r, "refused")
  /\ StaysAsItIs

\* The form of EditHoldingDialog, and PATCH /portfolio/holdings/:id up to its update.
Edit(r, x) ==
  /\ x \in shown.rows
  /\ (UpdateHolding(x) /\ Send(r, "viewing")) \/ Gone(r, x)
  /\ UNCHANGED <<coins, import, answer, window>>

\* DeleteHoldingDialog, and DELETE /portfolio/holdings/:id up to its delete.
Delete(r, x) ==
  /\ x \in shown.rows
  /\ (DeleteHolding(x) /\ Send(r, "viewing")) \/ Gone(r, x)
  /\ UNCHANGED <<coins, import, answer, window>>

-----------------------------------------------------------------------------
(* What the window shows *)

\* usePortfolio asks again; it has one question under way at a time.
Poll(r) ==
  /\ \A q \in Request : at[q] # "polling"
  /\ Send(r, "polling")
  /\ StaysAsItIs
  /\ UNCHANGED <<coins, import, answer, window>>

\* portfolioView, its query.
ReadPortfolio(r) ==
  /\ at[r] \in {"viewing", "polling"}
  /\ at' = [at EXCEPT ![r] = "answered"]
  /\ answer' = [answer EXCEPT ![r] = Portfolio]
  /\ latest' = {r}
  /\ UNCHANGED <<rows, edited, coins, import, outdated, window>>

\* There was a later answer, and it has come before this one, or never will.
Overtaken(r) == \E q \in latest \ {r} : at[q] \in Ended

\* Slip: the window waits for its next poll.
ArriveUnseen(r) ==
  /\ at[r] = "answered"
  /\ at' = [at EXCEPT ![r] = "done"]
  /\ answer' = [answer EXCEPT ![r] = Nothing]
  /\ behind' = (r \notin latest /\ (behind \/ Overtaken(r)))
  /\ UNCHANGED <<rows, edited, coins, import, shown, outdated, latest>>

\* onSuccess of a request, or the answer to a poll: whatever it tells is shown.
Arrive(r) ==
  /\ at[r] = "answered"
  /\ at' = [at EXCEPT ![r] = "done"]
  /\ shown' = answer[r]
  /\ answer' = [answer EXCEPT ![r] = Nothing]
  /\ behind' = (r \notin latest /\ (behind \/ Overtaken(r)))
  /\ UNCHANGED <<rows, edited, coins, import, outdated, latest>>

-----------------------------------------------------------------------------
\* CoinMarketCap does not know a coin or does not answer, a query fails, or the
\* answer gets lost: the request ends where it is.
Abandon(r) ==
  /\ at[r] \notin Ended \cup {"unsent"}
  /\ at' = [at EXCEPT ![r] = "refused"]
  /\ behind' = (behind \/ Owed(r) \/ r \in latest)
  /\ coins' = [coins EXCEPT ![r] = {}]
  /\ answer' = [answer EXCEPT ![r] = Nothing]
  /\ Unpick(r)
  /\ StaysAsItIs
  /\ UNCHANGED shown

Next ==
  \E r \in Request :
    \/ \E c \in Coin : CheckNew(r, c) \/ AddHolding(r, c)
    \/ CheckEmpty(r)
    \/ \E w \in Wallet, requested \in SUBSET Chain : \E readOk \in SUBSET requested :
         \E items \in SUBSET {i \in Item : i.chain \in readOk} :
           Preview(r, w, requested, readOk, items)
    \/ ReplaceWalletHoldings(r)
    \/ \E x \in shown.rows : Edit(r, x) \/ Delete(r, x)
    \/ Poll(r)
    \/ ReadPortfolio(r)
    \/ Arrive(r)
    \/ Abandon(r)

Spec == Init /\ [][Next]_vars

-----------------------------------------------------------------------------
(* Correctness *)

TypeOK ==
  /\ rows \subseteq Row
  /\ edited \subseteq rows
  /\ at \in [Request -> At]
  /\ coins \in [Request -> SUBSET Coin]
  /\ import \in [Request -> Imports]
  /\ answer \in [Request -> View]
  /\ shown \in View
  /\ outdated \subseteq Request
  /\ latest \subseteq Request
  /\ behind \in BOOLEAN
  /\ \A r \in Request : at[r] \in {"adding", "loading"} => coins[r] # {}

\* A portfolio never holds more than MAX_HOLDINGS coins, whatever races
\* (repo.ts:112-123, 144-157; docs/HONEST_LIMITS.md:62).
CapHolds == IsFiniteSet(rows) /\ Cardinality(rows) <= MaxHoldings

\* What was imported from a wallet on a chain came with one import: imports that
\* are confirmed twice, or overlap, replace each other and never add up
\* (repo.ts:144-157).
ImportsReplace ==
  \A x, y \in rows :
    /\ x.source = "wallet" /\ y.source = "wallet"
    /\ x.wallet = y.wallet /\ x.chain = y.chain
    => x.by = y.by

\* An import that is refused leaves the portfolio as it was (repo.ts:147-152).
RefusedImportKeepsAll ==
  [][\A r \in Request : at[r] = "picked" /\ at'[r] = "refused" => rows' = rows]_vars

\* Imports are whole: they replace what the wallet held before, or nothing.
ImportsAreWhole == []ImportsReplace /\ RefusedImportKeepsAll

\* The dialog's promise: as many coins as there was room for can be imported, as
\* long as nothing else has changed the portfolio since the preview, chains that
\* could not be read included (portfolio.ts:157-160, repo.ts:147-152).
CapacityIsHonest ==
  \A r \in Request :
    at[r] = "picked" /\ r \notin outdated =>
      Cardinality(rows \ Imported(import[r].wallet, import[r].chains))
        + Cardinality(import[r].items) <= MaxHoldings

\* Once nothing is under way, the window shows the portfolio as it is, whatever raced,
\* unless the answer that told of the last change was lost, or one that was read before
\* it came after it (queries.ts:67-76, 182-227).  Then it takes the next poll.
WindowCatchesUp ==
  (~behind /\ \A r \in Request : at[r] \in Ended \cup {"unsent", "picked"}) => shown = Portfolio

\* There is room for what the portfolio holds, and for what was promised.
RoomIsHonest == CapHolds /\ CapacityIsHonest

-----------------------------------------------------------------------------
(* The inductive invariants *)

IInv ==
  /\ TypeOK
  /\ CapHolds
  /\ ImportsReplace
  /\ CapacityIsHonest
  /\ \A r \in Request : /\ IsFiniteSet(import[r].items)
                        /\ \A i \in import[r].items : i.chain \in import[r].chains

\* Where the last change will be, or has been, told from.
Told ==
  \/ behind
  \/ \E r \in Request : Owed(r) /\ latest = {}
  \/ \E r \in latest : at[r] = "answered"
  \/ shown = Portfolio /\ latest # {} /\ \A r \in latest : at[r] \in Ended
  \/ shown = Portfolio /\ latest = {} /\ \A r \in Request : at[r] # "answered"

WindowInv ==
  /\ \A r \in Request : at[r] = "adding" => \E c \in Coin : coins[r] = {c}
  /\ \A r \in Request : at[r] = "loading" => coins[r] \subseteq SampleCoin
  /\ \A q, r \in latest : q = r
  /\ \A r \in latest : /\ at[r] \in {"answered", "done", "refused"}
                       /\ at[r] = "answered" => answer[r] = Portfolio
  /\ Told

=============================================================================
