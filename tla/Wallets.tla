-------------------------------- MODULE Wallets --------------------------------
(***************************************************************************)
(* Reading a wallet (packages/chain-reader/src): each request reads its    *)
(* chains at once, each chain from its first provider that answers, and    *)
(* matches what was told with CoinMarketCap.  Etherscan takes calls one    *)
(* after another, a while apart, from every chain of every request;        *)
(* Blockscout takes them as they come.                                     *)
(*                                                                         *)
(* What the wallet holds does not change while it is read.  Amounts are    *)
(* left out: a token is held or it was spent.  Time is counted in ticks,   *)
(* from the last call of Etherscan on; a call that is never answered ends  *)
(* with its timeout.                                                       *)
(***************************************************************************)
EXTENDS Naturals, FiniteSets, Sequences, Functions

CONSTANTS
  Caller,      \* calls of readWallet, one for each preview that is asked for
  CHAINS, Token,
  Asks,        \* Caller -> the chains it asks for
  Providers,   \* chain -> its providers in order, "etherscan" and "blockscout"
  Native,      \* the chains on which the wallet holds the native coin
  Transfers,   \* chain -> the tokens Etherscan lists as transferred, latest first
  Rows,        \* chain -> the tokens Blockscout lists
  Held,        \* the tokens that were not spent
  Worth,       \* Token -> what Blockscout says they are worth; 0 when it has no price
  Named,       \* those with a symbol that can be looked up
  Listed,      \* those CoinMarketCap knows by chain and contract
  MinInterval, \* minIntervalMs between calls of Etherscan
  TxPage,      \* TOKENTX_PAGE_SIZE
  MaxTxPages,  \* maxTokentxPages
  MaxTokens,   \* maxTokens: how many balances Etherscan is asked for
  RowPage,     \* how many rows Blockscout puts on a page, when it pages
  MaxPages,    \* MAX_PAGES of Blockscout
  MinWorth,    \* MIN_HINT_VALUE_USD
  MaxPriced,   \* MAX_PRICED_TOKENS_PER_CHAIN
  MaxUnpriced  \* MAX_UNPRICED_TOKENS_PER_CHAIN

Reader == {r \in Caller \X CHAINS : r[2] \in Asks[r[1]]}

ASSUME WalletsAssumption ==
  /\ Asks \in [Caller -> SUBSET CHAINS \ {{}}]
  /\ Providers \in [CHAINS -> Seq({"etherscan", "blockscout"})]
  /\ Native \subseteq CHAINS
  /\ Transfers \in [CHAINS -> Seq(Token)] /\ Rows \in [CHAINS -> Seq(Token)]
  /\ IsFiniteSet(Token) /\ Held \subseteq Token /\ Named \subseteq Token /\ Listed \subseteq Token
  /\ Worth \in [Token -> Nat]
  /\ MinInterval \in Nat /\ MinWorth \in Nat \ {0}
  /\ {TxPage, MaxTxPages, MaxTokens, RowPage, MaxPages} \subseteq Nat \ {0}
  /\ MaxPriced \in Nat /\ MaxUnpriced \in Nat

VARIABLES
  readers, \* Reader -> how far it is
  queue,   \* the readers that wait for their turn at Etherscan, the one that has it first
  since,   \* how long ago Etherscan was called last, MinInterval when longer
  replies  \* Caller -> what became of it

walletsVars == <<readers, queue, since, replies>>

Stage == {"native", "listing", "balances", "read", "failed"}

Call == {"none", "queued", "pacing", "sent", "resting"}

\* A chain to be read from the providers that are left, nothing told yet.
From(left) ==
  [left |-> left, stage |-> IF left = <<>> THEN "failed" ELSE "native", call |-> "none", pace |-> 0,
   page |-> 1, todo |-> {}, retried |-> FALSE, native |-> FALSE, told |-> {}]

Provider(r) == Head(readers[r].left)

-----------------------------------------------------------------------------
(* What providers tell *)

\* In a list t comes before u.
Before(s, t, u) == \E n \in DOMAIN s : s[n] = t /\ \A m \in 1..n : s[m] # u

\* The first n tokens of S in the order of the list.
First(S, s, n) == {t \in S : Cardinality({u \in S : Before(s, u, t)}) < n}

\* discover, of EtherscanProvider: the different tokens on so many pages of transfers.
Discovered(c, pages) ==
  LET transfers == {n \in DOMAIN Transfers[c] : n <= pages * TxPage}
  IN First({Transfers[c][n] : n \in transfers}, Transfers[c], MaxTokens)

\* parseRows: what Blockscout lists and was not spent.
Parsed(c) == Range(Rows[c]) \cap Held

-----------------------------------------------------------------------------
WalletsInit ==
  /\ readers = [r \in Reader |-> From(Providers[r[2]])]
  /\ queue = <<>>
  /\ since = MinInterval
  /\ replies = [q \in Caller |-> [is |-> "reading"]]

\* A reader wants its next answer: Blockscout is called, Etherscan when it is its turn.
Ask(r) ==
  /\ readers[r].call = "none"
  /\ readers[r].stage \in {"native", "listing", "balances"}
  /\ IF Provider(r) = "etherscan"
     THEN readers' = [readers EXCEPT ![r].call = "queued"] /\ queue' = Append(queue, r)
     ELSE readers' = [readers EXCEPT ![r].call = "sent", ![r].retried = FALSE] /\ queue' = queue
  /\ UNCHANGED <<since, replies>>

\* Slip: a turn does not wait for the turn before it.
BeginTurnAtOnce(r) ==
  /\ readers[r].call = "queued"
  /\ readers' = [readers EXCEPT ![r].call = "pacing", ![r].pace = MinInterval - since]
  /\ UNCHANGED <<queue, since, replies>>

\* acquire: the turn before is over; sleep for what is left of the interval.
BeginTurn(r) ==
  /\ readers[r].call = "queued"
  /\ queue # <<>> /\ Head(queue) = r
  /\ readers' = [readers EXCEPT ![r].call = "pacing", ![r].pace = MinInterval - since]
  /\ UNCHANGED <<queue, since, replies>>

\* acquire: the sleep is over, however late; the call goes out.
TakeTurn(r) ==
  /\ readers[r].call = "pacing" /\ readers[r].pace = 0
  /\ readers' = [readers EXCEPT ![r].call = "sent"]
  /\ queue' = Tail(queue)
  /\ since' = 0
  /\ UNCHANGED replies

Tick ==
  /\ since < MinInterval
  /\ since' = since + 1
  /\ readers' = [r \in Reader |->
       [readers[r] EXCEPT !.pace = IF @ > 0 THEN @ - 1 ELSE @]]
  /\ UNCHANGED <<queue, replies>>

\* The answer moves the reader to r2.
Answered(r, r2) ==
  /\ readers[r].call = "sent"
  /\ readers' = [readers EXCEPT ![r] = [r2 EXCEPT !.call = "none"]]
  /\ UNCHANGED <<queue, since, replies>>

ReadNative(r) ==
  /\ readers[r].stage = "native"
  /\ Answered(r, [readers[r] EXCEPT !.native = (r[2] \in Native), !.stage = "listing"])

\* readBalances goes on from the tokens it has discovered to the balance of each.
ToBalances(row, found) ==
  [row EXCEPT !.todo = found, !.page = 1, !.stage = IF found = {} THEN "read" ELSE "balances"]

\* discover: a page of transfers, the last one when it is short or MaxTxPages is reached.
ReadTransfers(r) ==
  LET row == readers[r]
      last == Len(Transfers[r[2]]) < row.page * TxPage \/ row.page = MaxTxPages
  IN
  /\ row.stage = "listing" /\ Provider(r) = "etherscan"
  /\ Answered(r, IF last THEN ToBalances(row, Discovered(r[2], row.page)) ELSE [row EXCEPT !.page = @ + 1])

\* The balance of the next token; one that was spent is left out.
ReadBalance(r) ==
  LET row == readers[r] IN
  /\ row.stage = "balances"
  /\ \E t \in row.todo :
       /\ \A u \in row.todo : ~Before(Transfers[r[2]], u, t)
       /\ Answered(r, [row EXCEPT !.told = @ \cup ({t} \cap Held),
                                  !.todo = @ \ {t},
                                  !.stage = IF row.todo = {t} THEN "read" ELSE "balances"])

\* readTokens: a page of rows.  After the last one they are all parsed; one more than
\* MaxPages is an error (Fail).
ReadRows(r) ==
  LET row == readers[r]
      more == Len(Rows[r[2]]) > row.page * RowPage
  IN
  /\ row.stage = "listing" /\ Provider(r) = "blockscout"
  /\ more => row.page < MaxPages
  /\ Answered(r, IF more THEN [row EXCEPT !.page = @ + 1]
                 ELSE [row EXCEPT !.told = @ \cup Parsed(r[2]), !.page = 1, !.stage = "read"])

\* readTokens: all rows in one list, or HTTP 404 for an address that never held any.
ReadAllRows(r) ==
  /\ readers[r].stage = "listing" /\ Provider(r) = "blockscout" /\ readers[r].page = 1
  /\ Answered(r, [readers[r] EXCEPT !.told = @ \cup Parsed(r[2]), !.stage = "read"])

\* What an Etherscan envelope may say in place of a result.
Messages == {"rate limit", "paid chain", "invalid key", "other error"}

\* What a call may come back with in place of what was asked for.
Trouble == {"no answer", "no connection", "HTTP 429", "HTTP 5xx", "not JSON", "wrong shape"} \cup Messages

\* httpGet, call, classify, parseJson: the error each of them becomes.
Kind(trouble) ==
  CASE trouble = "no answer" -> "timeout"
    [] trouble \in {"no connection", "HTTP 5xx"} -> "network"
    [] trouble \in {"HTTP 429", "rate limit"} -> "rate_limited"
    [] trouble \in {"paid chain", "invalid key"} -> "plan_unsupported"
    [] OTHER -> "bad_response"

\* FALL_THROUGH_KINDS: another provider may do better.
FallThrough == {"plan_unsupported", "network", "timeout", "rate_limited"}

\* Slip: what the failed provider had told stays.
FailKeepingRows(r, trouble) ==
  LET left == Tail(readers[r].left)
      goOn == Kind(trouble) \in FallThrough /\ left # <<>>
  IN
  /\ readers[r].call = "sent"
  /\ Answered(r, IF goOn THEN [From(left) EXCEPT !.native = readers[r].native, !.told = readers[r].told]
                 ELSE From(<<>>))

\* readChain: what the provider has told is dropped; the next one is asked if it may do
\* better.
Fail(r, trouble) ==
  LET left == Tail(readers[r].left) IN
  /\ readers[r].call = "sent"
  /\ trouble \in Messages => Provider(r) = "etherscan"
  /\ Answered(r, From(IF Kind(trouble) \in FallThrough THEN left ELSE <<>>))

\* get, of BlockscoutProvider: HTTP 429 asks for a short rest.
Rest(r) ==
  /\ readers[r].call = "sent" /\ Provider(r) = "blockscout" /\ ~readers[r].retried
  /\ readers' = [readers EXCEPT ![r].call = "resting"]
  /\ UNCHANGED <<queue, since, replies>>

\* Slip: the attempts are not counted.
RetryUncounted(r) ==
  /\ readers[r].call = "resting"
  /\ readers' = [readers EXCEPT ![r].call = "sent"]
  /\ UNCHANGED <<queue, since, replies>>

Retry(r) ==
  /\ readers[r].call = "resting"
  /\ readers' = [readers EXCEPT ![r].call = "sent", ![r].retried = TRUE]
  /\ UNCHANGED <<queue, since, replies>>

-----------------------------------------------------------------------------
(* readWallet, once every chain is read or has failed *)

Hinted(r) == Provider(r) = "blockscout"

Priced(S) == {t \in S : Worth[t] >= MinWorth}

\* Slip: the first of those with a price, whatever they are worth.
FirstPriced(r, S) ==
  IF Hinted(r) THEN First(Priced(S), Rows[r[2]], MaxPriced)
  ELSE First(S, Transfers[r[2]], MaxUnpriced)

\* Those that are looked up rather than t: they are worth more, or come first.
Dearer(r, S, t) ==
  {u \in Priced(S) : Worth[u] > Worth[t] \/ (Worth[u] = Worth[t] /\ Before(Rows[r[2]], u, t))}

\* prefilter: the tokens that are looked up.
Kept(r, S) ==
  IF Hinted(r) THEN {t \in Priced(S) : Cardinality(Dearer(r, S, t)) < MaxPriced}
  ELSE First(S, Transfers[r[2]], MaxUnpriced)

\* The numbers in the notes of prefilter.
Noted(r, S) == Cardinality(S) - Cardinality(Kept(r, S))

\* What the preview says of one chain.
ChainView(r) ==
  LET row == readers[r]
      kept == Kept(r, row.told)
  IN
  [error |-> FALSE, native |-> row.native, items |-> kept \cap Named \cap Listed,
   skipped |-> kept \ (Named \cap Listed), noted |-> Noted(r, row.told)]

Unread == [error |-> TRUE, native |-> FALSE, items |-> {}, skipped |-> {}, noted |-> 0]

Settled(q) == \A c \in Asks[q] : readers[<<q, c>>].stage \in {"read", "failed"}

LookedUp(q) ==
  UNION {Kept(<<q, c>>, readers[<<q, c>>].told) : c \in {d \in Asks[q] : readers[<<q, d>>].stage = "read"}}

Reply(q) ==
  /\ replies[q].is = "reading" /\ Settled(q)
  /\ replies' = [replies EXCEPT ![q] =
       [is |-> "preview",
        of |-> [c \in Asks[q] |-> IF readers[<<q, c>>].stage = "failed" THEN Unread ELSE ChainView(<<q, c>>)]]]
  /\ UNCHANGED <<readers, queue, since>>

\* getInfoBySymbols throws: there is no preview.
LookupFails(q) ==
  /\ replies[q].is = "reading" /\ Settled(q)
  /\ LookedUp(q) \cap Named # {}
  /\ replies' = [replies EXCEPT ![q] = [is |-> "refused"]]
  /\ UNCHANGED <<readers, queue, since>>

-----------------------------------------------------------------------------
ReadStep(r) ==
  \/ Ask(r)
  \/ BeginTurn(r)
  \/ TakeTurn(r)
  \/ ReadNative(r)
  \/ ReadTransfers(r)
  \/ ReadBalance(r)
  \/ ReadRows(r)
  \/ ReadAllRows(r)
  \/ \E trouble \in Trouble : Fail(r, trouble)
  \/ Rest(r)
  \/ Retry(r)

Finish(q) == Reply(q) \/ LookupFails(q)

WalletsNext ==
  \/ \E r \in Reader : ReadStep(r)
  \/ \E q \in Caller : Finish(q)
  \/ Tick

\* Timers fire, calls end by their timeout at the latest, and node runs what is ready.
Fairness ==
  /\ \A r \in Reader : WF_walletsVars(ReadStep(r))
  /\ \A q \in Caller : WF_walletsVars(Finish(q))
  /\ WF_walletsVars(Tick)

WalletsSpec == WalletsInit /\ [][WalletsNext]_walletsVars /\ Fairness

-----------------------------------------------------------------------------
(* Correctness *)

\* Calls of Etherscan are MinInterval apart, whichever chains of whichever requests
\* make them, whatever fails in between (etherscan.ts:101-111).
CallsAreSpaced ==
  [][\A r \in Reader : readers[r].call = "pacing" /\ readers'[r].call = "sent" => since = MinInterval]_walletsVars

\* All that a provider has to tell of a chain within its limits.
Tells(p, c) == IF p = "etherscan" THEN Discovered(c, MaxTxPages) \cap Held ELSE Parsed(c)

\* A preview says of each chain that it could not be read, or all that one of its
\* providers tells, by name or counted in a note, with nothing told by a provider that
\* failed half-way (read-wallet.ts:30-67, 105-147).
OneProviderTellsAll ==
  \A q \in Caller : replies[q].is = "preview" =>
    \A c \in Asks[q] :
      LET v == replies[q].of[c] IN
      v.error \/ \E p \in Range(Providers[c]) :
        /\ v.native = (c \in Native)
        /\ v.items \cup v.skipped \subseteq Tells(p, c)
        /\ Cardinality(v.items \cup v.skipped) + v.noted = Cardinality(Tells(p, c))

\* A token CoinMarketCap knows and Blockscout lists is offered, however much spam the
\* wallet got, unless it is worth too little or too many are worth as much
\* (read-wallet.ts:46-68, 126-147).
SpamHidesNothing ==
  \A q \in Caller : replies[q].is = "preview" =>
    \A c \in Asks[q] : ~replies[q].of[c].error /\ Providers[c] = <<"blockscout">> =>
      \A t \in Tells("blockscout", c) \cap Named \cap Listed :
        \/ Worth[t] < MinWorth
        \/ t \in replies[q].of[c].items
        \/ Cardinality({u \in Tells("blockscout", c) \ {t} : Worth[u] >= Worth[t]}) >= MaxPriced

\* Every request ends, with a preview or an error, whatever the providers do
\* (blockscout.ts:61-76, read-wallet.ts:30-44).
EveryRequestEnds == \A q \in Caller : <>(replies[q].is # "reading")
-----------------------------------------------------------------------------
(* Why they do: a chain is told of by the provider that is being asked, and   *)
(* nobody but the first in the queue sleeps before its call.                  *)

Outcome ==
  [left : Seq({"etherscan", "blockscout"}), stage : Stage, call : Call, pace : 0..MinInterval,
   page : Nat \ {0}, todo : SUBSET Token, retried : BOOLEAN, native : BOOLEAN, told : SUBSET Token]

WalletsTypeOK ==
  /\ readers \in [Reader -> Outcome]
  /\ queue \in Seq(Reader) /\ since \in 0..MinInterval
  /\ DOMAIN replies = Caller

\* How far one provider of a chain has told what it has to tell.
OnItsWay(c, row) ==
  /\ Range(row.left) \subseteq Range(Providers[c])
  /\ row.stage # "failed" => row.left # <<>>
  /\ row.call # "none" => row.stage \notin {"read", "failed"}
  /\ row.stage \in {"native", "listing"} => row.told = {}
  /\ row.stage = "native" => row.page = 1
  /\ row.stage \in {"listing", "balances", "read"} => row.native = (c \in Native)
  /\ row.stage = "listing" /\ Head(row.left) = "etherscan" => row.page <= MaxTxPages
  /\ row.stage = "balances" =>
       /\ Head(row.left) = "etherscan" /\ row.todo # {}
       /\ row.told \cup (row.todo \cap Held) = Tells("etherscan", c)
  /\ row.stage = "read" => row.told = Tells(Head(row.left), c)

\* Who sleeps before its call is first in the queue, and sleeps for the rest of the
\* interval.
InTurn ==
  \A r \in Reader : readers[r].call = "pacing" =>
    queue # <<>> /\ Head(queue) = r /\ readers[r].pace = MinInterval - since

WalletsIInv ==
  /\ WalletsTypeOK /\ InTurn
  /\ \A r \in Reader : OnItsWay(r[2], readers[r])
  /\ OneProviderTellsAll /\ SpamHidesNothing
=============================================================================
