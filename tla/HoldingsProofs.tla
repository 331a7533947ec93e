---------------------------- MODULE HoldingsProofs ----------------------------
(***************************************************************************)
(* Proofs about Holdings, for any requests, coins, chains, wallets and     *)
(* cap: the cap holds whatever races, imports replace each other, the room *)
(* that a preview promised is there unless the portfolio has changed, and  *)
(* the window catches up with it unless an answer is lost or overtaken.    *)
(* Then about Wallets, which a preview is read from, for any chains,       *)
(* providers, tokens and limits: a chain is told of by one provider, spam  *)
(* hides nothing, and calls of Etherscan keep their distance.              *)
(***************************************************************************)
EXTENDS Holdings, Wallets, FiniteSetTheorems, TLAPS

\* What an import adds is no more than was picked.
LEMMA RowsOfItems ==
  ASSUME NEW r, NEW w, NEW items, IsFiniteSet(items)
  PROVE  LET new == {WalletRow(r, w, j) : j \in items}
         IN  IsFiniteSet(new) /\ Cardinality(new) <= Cardinality(items)
<1> DEFINE new == {WalletRow(r, w, j) : j \in items}
           f   == [j \in items |-> WalletRow(r, w, j)]
<1>1. f \in Surjection(items, new)
  BY DEF Surjection
<1> HIDE DEF new, f
<1>2. IsFiniteSet(new) /\ Cardinality(new) <= Cardinality(items)
  BY <1>1, FS_Surjection
<1> QED
  BY <1>2 DEF new

LEMMA Start == Init => IInv
<1> SUFFICES ASSUME Init PROVE IInv
  OBVIOUS
<1>1. TypeOK
  <2>1. Nothing \in View
    BY DEF Nothing, View
  <2>2. import \in [Request -> Imports]
    BY DEF Init, Imports
  <2>3. at \in [Request -> At] /\ coins \in [Request -> SUBSET Coin]
    BY DEF Init, At
  <2> QED
    BY <2>1, <2>2, <2>3 DEF Init, TypeOK
<1>2. CapHolds
  BY FS_EmptySet, HoldingsAssumption DEF Init, CapHolds
<1>3. ASSUME NEW r \in Request PROVE import[r].items = {}
  BY DEF Init
<1> QED
  BY <1>1, <1>2, <1>3, FS_EmptySet DEF Init, IInv, ImportsReplace, CapacityIsHonest

\* A portfolio that is read is one.
LEMMA PortfolioType == TypeOK => Portfolio \in View
BY DEF TypeOK, Portfolio, View

\* The changes of a portfolio keep the types of what goes with it.
LEMMA BecomesType ==
  ASSUME TypeOK, NEW S, S \subseteq Row, Becomes(S)
  PROVE  rows' \subseteq Row /\ edited' \subseteq rows' /\ outdated' \subseteq Request
         /\ latest' \subseteq Request
BY DEF TypeOK, Becomes

LEMMA NewRows ==
  ASSUME NEW r \in Request
  PROVE  /\ \A c \in Coin : ManualRow(r, c) \in Row
         /\ \A w \in Wallet, i \in Item : WalletRow(r, w, i) \in Row
BY DEF Row

\* What a request that ends leaves of its import.
LEMMA Unpicked ==
  ASSUME TypeOK, NEW r \in Request, Unpick(r)
  PROVE  /\ import' \in [Request -> Imports]
         /\ import'[r].items = {}
         /\ \A q \in Request \ {r} : import'[q] = import[q]
BY DEF TypeOK, Unpick, Imports

LEMMA SentType ==
  ASSUME TypeOK, NEW r \in Request, NEW place \in At, Send(r, place)
  PROVE  at' \in [Request -> At]
BY DEF TypeOK, Send

LEMMA AddTyped ==
  ASSUME TypeOK, NEW r \in Request, NEW c \in Coin, AddHolding(r, c)
  PROVE  TypeOK'
<1>1. /\ at' \in [Request -> At] /\ coins' \in [Request -> SUBSET Coin]
      /\ \A q \in Request : at'[q] \in {"adding", "loading"} => coins'[q] # {}
  BY DEF AddHolding, Refuses, TypeOK, At
<1>2. /\ rows' \subseteq Row /\ edited' \subseteq rows' /\ outdated' \subseteq Request
      /\ latest' \subseteq Request
  <2>1. CASE Full
    BY <2>1 DEF AddHolding, StaysAsItIs, TypeOK
  <2>2. CASE ~Full
    <3>1. ManualRow(r, c) \in Row /\ rows \subseteq Row
      BY NewRows DEF TypeOK
    <3>2. Becomes(rows \cup {ManualRow(r, c)})
      BY <2>2 DEF AddHolding
    <3> QED
      BY <3>1, <3>2, BecomesType
  <2> QED
    BY <2>1, <2>2
<1>3. behind' \in BOOLEAN
  BY DEF AddHolding, Refuses, TypeOK
<1>4. import' = import /\ answer' = answer /\ shown' = shown
  BY DEF AddHolding
<1> QED
  BY <1>1, <1>2, <1>3, <1>4 DEF TypeOK

LEMMA ReplaceTyped ==
  ASSUME TypeOK, NEW r \in Request, ReplaceWalletHoldings(r)
  PROVE  TypeOK'
<1> DEFINE i    == import[r]
           kept == rows \ Imported(i.wallet, i.chains)
           new  == {WalletRow(r, i.wallet, j) : j \in i.items}
<1>1. /\ at' \in [Request -> At] /\ coins' = coins
      /\ \A q \in Request : at'[q] \in {"adding", "loading"} => at[q] = at'[q]
  BY DEF ReplaceWalletHoldings, Refuses, TypeOK, At
<1>2. /\ rows' \subseteq Row /\ edited' \subseteq rows' /\ outdated' \subseteq Request
      /\ latest' \subseteq Request
  <2>1. CASE Cardinality(kept) + Cardinality(i.items) > MaxHoldings
    BY <2>1 DEF ReplaceWalletHoldings, StaysAsItIs, TypeOK
  <2>2. CASE ~(Cardinality(kept) + Cardinality(i.items) > MaxHoldings)
    <3>1. i.wallet \in Wallet /\ i.items \subseteq Item /\ kept \subseteq Row
      BY DEF TypeOK, Imports
    <3>2. kept \cup new \subseteq Row
      BY <3>1, NewRows
    <3>3. Becomes(kept \cup new)
      BY <2>2 DEF ReplaceWalletHoldings
    <3> QED
      BY <3>2, <3>3, BecomesType
  <2> QED
    BY <2>1, <2>2
<1>3. behind' \in BOOLEAN
  BY DEF ReplaceWalletHoldings, Refuses, TypeOK
<1>4. import' \in [Request -> Imports] /\ answer' = answer /\ shown' = shown
  BY Unpicked DEF ReplaceWalletHoldings
<1> QED
  BY <1>1, <1>2, <1>3, <1>4 DEF TypeOK

LEMMA PreviewTyped ==
  ASSUME TypeOK, NEW r \in Request, NEW w \in Wallet, NEW requested \in SUBSET Chain,
         NEW readOk \in SUBSET requested, NEW items \in SUBSET {i \in Item : i.chain \in readOk},
         Preview(r, w, requested, readOk, items)
  PROVE  TypeOK'
<1>1. [wallet |-> w, items |-> items, chains |-> readOk] \in Imports
  BY DEF Imports
<1>2. import' \in [Request -> Imports] /\ at' \in [Request -> At]
  BY <1>1 DEF Preview, Send, TypeOK, At
<1>3. \A q \in Request : at'[q] \in {"adding", "loading"} => at[q] = at'[q]
  BY DEF Preview, Send, TypeOK
<1> QED
  BY <1>2, <1>3 DEF Preview, StaysAsItIs, window, TypeOK

LEMMA EditTyped ==
  ASSUME TypeOK, NEW r \in Request, NEW x \in shown.rows, Edit(r, x) \/ Delete(r, x)
  PROVE  TypeOK'
<1>1. /\ at' \in [Request -> At] /\ coins' = coins /\ import' = import /\ answer' = answer
      /\ shown' = shown /\ behind' = behind
      /\ \A q \in Request : at'[q] \in {"adding", "loading"} => at[q] = at'[q]
  BY DEF Edit, Delete, Gone, Send, TypeOK, At, window
<1>2. /\ rows' \subseteq Row /\ edited' \subseteq rows' /\ outdated' \subseteq Request
      /\ latest' \subseteq Request
  <2>1. CASE Gone(r, x)
    BY <2>1 DEF Gone, StaysAsItIs, TypeOK
  <2>2. CASE UpdateHolding(x)
    BY <2>2 DEF UpdateHolding, TypeOK
  <2>3. CASE DeleteHolding(x)
    <3>1. Becomes(rows \ {x}) /\ rows \ {x} \subseteq Row
      BY <2>3 DEF DeleteHolding, TypeOK
    <3> QED
      BY <3>1, BecomesType
  <2> QED
    BY <2>1, <2>2, <2>3 DEF Edit, Delete
<1> QED
  BY <1>1, <1>2 DEF TypeOK

\* Looking at the database, answering and giving up.
LEMMA OthersTyped ==
  ASSUME TypeOK, NEW r \in Request,
         \/ \E c \in Coin : CheckNew(r, c)
         \/ CheckEmpty(r) \/ Poll(r) \/ ReadPortfolio(r) \/ Arrive(r) \/ Abandon(r)
  PROVE  TypeOK'
<1>1. CASE \E c \in Coin : CheckNew(r, c)
  BY <1>1 DEF CheckNew, Send, StaysAsItIs, window, TypeOK, At
<1>2. CASE CheckEmpty(r)
  BY <1>2, HoldingsAssumption DEF CheckEmpty, Send, StaysAsItIs, window, TypeOK, At
<1>3. CASE Poll(r)
  BY <1>3 DEF Poll, Send, StaysAsItIs, window, TypeOK, At
<1>4. CASE ReadPortfolio(r)
  BY <1>4, PortfolioType DEF ReadPortfolio, window, TypeOK, At
<1>5. CASE Arrive(r)
  <2>1. Nothing \in View
    BY DEF Nothing, View
  <2>2. behind' \in BOOLEAN
    BY <1>5 DEF Arrive
  <2>3. answer' \in [Request -> View] /\ shown' \in View
    BY <1>5, <2>1 DEF Arrive, TypeOK
  <2>4. /\ at' \in [Request -> At]
        /\ \A q \in Request : at'[q] \in {"adding", "loading"} => at[q] = at'[q]
    BY <1>5 DEF Arrive, TypeOK, At
  <2> QED
    BY <1>5, <2>2, <2>3, <2>4 DEF Arrive, TypeOK
<1>6. CASE Abandon(r)
  <2>1. Nothing \in View
    BY DEF Nothing, View
  <2>2. import' \in [Request -> Imports]
    BY <1>6, Unpicked DEF Abandon
  <2>3. behind' \in BOOLEAN
    BY <1>6, Zenon DEF Abandon
  <2>4. answer' \in [Request -> View]
    BY <1>6, <2>1 DEF Abandon, TypeOK
  <2>5. /\ at' \in [Request -> At] /\ coins' \in [Request -> SUBSET Coin]
        /\ \A q \in Request : at'[q] \in {"adding", "loading"} => coins'[q] # {}
    BY <1>6 DEF Abandon, TypeOK, At
  <2> QED
    BY <1>6, <2>2, <2>3, <2>4, <2>5 DEF Abandon, StaysAsItIs, TypeOK
<1> QED
  BY <1>1, <1>2, <1>3, <1>4, <1>5, <1>6

-----------------------------------------------------------------------------
\* A request that is not about an import changes nothing that one relies on.
LEMMA ElsewhereKeeps ==
  ASSUME IInv, TypeOK',
         CapHolds', ImportsReplace',
         \/ (rows' = rows /\ outdated' = outdated)
         \/ Becomes(rows'),
         \A r \in Request :
           \/ import'[r] = import[r] /\ (at'[r] = "picked" => at[r] = "picked")
           \/ import'[r].items = {} /\ at'[r] # "picked"
  PROVE  IInv'
<1>1. CapacityIsHonest'
  <2> SUFFICES ASSUME NEW r \in Request, at'[r] = "picked", r \notin outdated'
               PROVE  Cardinality(rows' \ Imported(import[r].wallet, import[r].chains)')
                        + Cardinality(import'[r].items) <= MaxHoldings
    BY DEF CapacityIsHonest, Imported
  <2>1. at[r] = "picked" /\ rows' = rows /\ outdated' = outdated /\ import'[r] = import[r]
    BY DEF Becomes
  <2> QED
    BY <2>1 DEF IInv, CapacityIsHonest, Imported
<1>2. \A r \in Request : /\ IsFiniteSet(import'[r].items)
                         /\ \A i \in import'[r].items : i.chain \in import'[r].chains
  BY FS_EmptySet DEF IInv
<1> QED
  BY <1>1, <1>2 DEF IInv

\* Nothing that is read of the database, told, edited or abandoned adds or removes a row.
LEMMA LookingKeeps ==
  ASSUME IInv, NEW r \in Request, TypeOK',
         \/ \E c \in Coin : CheckNew(r, c)
         \/ CheckEmpty(r) \/ Poll(r) \/ ReadPortfolio(r) \/ Arrive(r) \/ Abandon(r)
         \/ \E x \in shown.rows : Edit(r, x)
  PROVE  IInv'
<1>1. rows' = rows /\ outdated' = outdated
  BY DEF CheckNew, CheckEmpty, Poll, ReadPortfolio, Arrive, Abandon, Edit, UpdateHolding,
         Gone, StaysAsItIs
<1>2. \A q \in Request :
        \/ import'[q] = import[q] /\ (at'[q] = "picked" => at[q] = "picked")
        \/ import'[q].items = {} /\ at'[q] # "picked"
  <2>1. CASE Abandon(r)
    <3>1. TypeOK
      BY DEF IInv
    <3>2. import'[r].items = {} /\ \A q \in Request \ {r} : import'[q] = import[q]
      BY <2>1, <3>1, Unpicked DEF Abandon
    <3>3. at'[r] = "refused" /\ \A q \in Request \ {r} : at'[q] = at[q]
      BY <2>1, <3>1 DEF Abandon, TypeOK
    <3> QED
      BY <3>2, <3>3
  <2>2. CASE ~Abandon(r)
    BY <2>2 DEF CheckNew, CheckEmpty, Poll, ReadPortfolio, Arrive, Edit, Gone, Send, window,
                IInv, TypeOK
  <2> QED
    BY <2>1, <2>2
<1>3. CapHolds' /\ ImportsReplace'
  BY <1>1 DEF IInv, CapHolds, ImportsReplace
<1> QED
  BY <1>1, <1>2, <1>3, ElsewhereKeeps

\* A coin is added only where there is room, and is not an imported one.
LEMMA AddKeeps ==
  ASSUME IInv, NEW r \in Request, NEW c \in Coin, AddHolding(r, c), TypeOK'
  PROVE  IInv'
<1>1. /\ import' = import
      /\ \A q \in Request : at'[q] = "picked" => at[q] = "picked"
  BY DEF AddHolding, Refuses, IInv, TypeOK
<1>2. CASE Full
  <2>1. rows' = rows /\ outdated' = outdated
    BY <1>2 DEF AddHolding, StaysAsItIs
  <2>2. CapHolds' /\ ImportsReplace'
    BY <2>1 DEF IInv, CapHolds, ImportsReplace
  <2> QED
    BY <1>1, <2>1, <2>2, ElsewhereKeeps
<1>3. CASE ~Full
  <2>1. rows' = rows \cup {ManualRow(r, c)} /\ Becomes(rows')
    BY <1>3 DEF AddHolding, Becomes
  <2>2. ManualRow(r, c).source = "manual"
    BY DEF ManualRow
  <2>5. CapHolds'
    <3>1. IsFiniteSet(rows) /\ Cardinality(rows) \in Nat /\ Cardinality(rows) < MaxHoldings
      BY <1>3, FS_CardinalityType, HoldingsAssumption DEF Full, IInv, CapHolds
    <3>2. /\ IsFiniteSet(rows')
          /\ Cardinality(rows') = IF ManualRow(r, c) \in rows THEN Cardinality(rows)
                                  ELSE Cardinality(rows) + 1
      BY <2>1, <3>1, FS_AddElement
    <3> QED
      BY <3>1, <3>2, HoldingsAssumption DEF CapHolds
  <2>6. ImportsReplace'
    BY <2>1, <2>2 DEF IInv, ImportsReplace
  <2> QED
    BY <1>1, <2>1, <2>5, <2>6, ElsewhereKeeps
<1> QED
  BY <1>2, <1>3

LEMMA DeleteKeeps ==
  ASSUME IInv, NEW r \in Request, NEW x \in shown.rows, Delete(r, x), TypeOK'
  PROVE  IInv'
<1>1. /\ import' = import
      /\ \A q \in Request : at'[q] = "picked" => at[q] = "picked"
      /\ rows' \subseteq rows
      /\ (rows' = rows /\ outdated' = outdated) \/ Becomes(rows')
  BY DEF Delete, DeleteHolding, Gone, StaysAsItIs, Send, Becomes, IInv, TypeOK
<1>4. CapHolds'
  <2>1. IsFiniteSet(rows) /\ rows' \in SUBSET rows
    BY <1>1 DEF IInv, CapHolds
  <2>2. IsFiniteSet(rows') /\ Cardinality(rows') <= Cardinality(rows)
    BY <2>1, FS_Subset
  <2> QED
    BY <2>1, <2>2, FS_CardinalityType, HoldingsAssumption DEF IInv, CapHolds
<1>5. ImportsReplace'
  BY <1>1 DEF IInv, ImportsReplace
<1> QED
  BY <1>1, <1>4, <1>5, ElsewhereKeeps

\* What is picked fits into the room that the preview has just seen.
LEMMA PreviewKeeps ==
  ASSUME IInv, NEW r \in Request, NEW w \in Wallet, NEW requested \in SUBSET Chain,
         NEW readOk \in SUBSET requested, NEW items \in SUBSET {i \in Item : i.chain \in readOk},
         Preview(r, w, requested, readOk, items), TypeOK'
  PROVE  IInv'
<1> DEFINE picked == [wallet |-> w, items |-> items, chains |-> readOk]
<1>1. /\ rows' = rows /\ outdated' = outdated
      /\ at' = [at EXCEPT ![r] = "picked"]
      /\ import' = [import EXCEPT ![r] = picked]
      /\ Cardinality(items) <= Capacity(w, requested, readOk)
  BY DEF Preview, Send, StaysAsItIs
<1>2. /\ picked \in Imports /\ IsFiniteSet(items) /\ \A i \in items : i.chain \in readOk
  <2>1. items \in SUBSET Item
    OBVIOUS
  <2> QED
    BY <2>1, FS_Subset, HoldingsAssumption DEF Imports
<1>4. CapHolds' /\ ImportsReplace'
  BY <1>1 DEF IInv, CapHolds, ImportsReplace
<1>5. /\ import'[r] = picked
      /\ \A q \in Request \ {r} : import'[q] = import[q] /\ at'[q] = at[q]
  BY <1>1 DEF IInv, TypeOK
<1>6. CapacityIsHonest'
  <2> SUFFICES ASSUME NEW q \in Request, at'[q] = "picked", q \notin outdated
               PROVE  Cardinality(rows \ Imported(import'[q].wallet, import'[q].chains))
                        + Cardinality(import'[q].items) <= MaxHoldings
    BY <1>1 DEF CapacityIsHonest, Imported
  <2>1. CASE q = r
    <3>1. IsFiniteSet(rows \ Imported(w, readOk))
      <4>1. IsFiniteSet(rows) /\ rows \ Imported(w, readOk) \in SUBSET rows
        BY DEF IInv, CapHolds
      <4> QED
        BY <4>1, FS_Subset
    <3>2. Cardinality(rows \ Imported(w, readOk)) \in Nat /\ Cardinality(items) \in Nat
      BY <1>2, <3>1, FS_CardinalityType
    <3>3. Cardinality(rows \ Imported(w, readOk)) + Cardinality(items) <= MaxHoldings
      BY <1>1, <3>2, HoldingsAssumption DEF Capacity
    <3>4. import'[q].wallet = w /\ import'[q].chains = readOk /\ import'[q].items = items
      BY <1>5, <2>1
    <3> QED
      BY <3>3, <3>4
  <2>2. CASE q # r
    <3>1. import'[q] = import[q] /\ at[q] = "picked"
      BY <1>5, <2>2
    <3>2. Cardinality(rows \ Imported(import[q].wallet, import[q].chains))
            + Cardinality(import[q].items) <= MaxHoldings
      BY <3>1 DEF IInv, CapacityIsHonest
    <3> QED
      BY <3>1, <3>2
  <2> QED
    BY <2>1, <2>2
<1>7. \A q \in Request : /\ IsFiniteSet(import'[q].items)
                         /\ \A i \in import'[q].items : i.chain \in import'[q].chains
  BY <1>2, <1>5 DEF IInv
<1> QED
  BY <1>4, <1>6, <1>7 DEF IInv

\* A confirmed import takes the place of the one before on its chains.
LEMMA ReplaceKeeps ==
  ASSUME IInv, NEW r \in Request, ReplaceWalletHoldings(r), TypeOK'
  PROVE  IInv'
<1> DEFINE i    == import[r]
           kept == rows \ Imported(i.wallet, i.chains)
           new  == {WalletRow(r, i.wallet, j) : j \in i.items}
<1>1. \A q \in Request :
        \/ import'[q] = import[q] /\ (at'[q] = "picked" => at[q] = "picked")
        \/ import'[q].items = {} /\ at'[q] # "picked"
  <2>1. TypeOK
    BY DEF IInv
  <2>2. import'[r].items = {} /\ \A q \in Request \ {r} : import'[q] = import[q]
    BY <2>1, Unpicked DEF ReplaceWalletHoldings
  <2>3. at'[r] # "picked" /\ \A q \in Request \ {r} : at'[q] = at[q]
    BY <2>1 DEF ReplaceWalletHoldings, Refuses, TypeOK
  <2> QED
    BY <2>2, <2>3
<1>2. CASE Cardinality(kept) + Cardinality(i.items) > MaxHoldings
  <2>1. rows' = rows /\ outdated' = outdated
    BY <1>2 DEF ReplaceWalletHoldings, StaysAsItIs
  <2>2. CapHolds' /\ ImportsReplace'
    BY <2>1 DEF IInv, CapHolds, ImportsReplace
  <2> QED
    BY <1>1, <2>1, <2>2, ElsewhereKeeps
<1>3. CASE ~(Cardinality(kept) + Cardinality(i.items) > MaxHoldings)
  <2>1. rows' = kept \cup new /\ Becomes(rows')
    BY <1>3 DEF ReplaceWalletHoldings, Becomes
  <2>2. i \in Imports /\ IsFiniteSet(i.items) /\ \A j \in i.items : j.chain \in i.chains
    BY DEF IInv, TypeOK
  <2>5. CapHolds'
    <3>1. IsFiniteSet(rows) /\ kept \in SUBSET rows
      BY DEF IInv, CapHolds
    <3>2. IsFiniteSet(kept) /\ Cardinality(kept) \in Nat
      BY <3>1, FS_Subset, FS_CardinalityType
    <3>3. IsFiniteSet(new) /\ Cardinality(new) <= Cardinality(i.items)
      BY <2>2, RowsOfItems
    <3> HIDE DEF new, kept
    <3>4. /\ Cardinality(new) \in Nat /\ Cardinality(i.items) \in Nat
          /\ IsFiniteSet(kept \cap new) /\ Cardinality(kept \cap new) \in Nat
      BY <2>2, <3>2, <3>3, FS_CardinalityType, FS_Intersection
    <3>5. /\ IsFiniteSet(kept \cup new)
          /\ Cardinality(kept \cup new)
               = Cardinality(kept) + Cardinality(new) - Cardinality(kept \cap new)
      BY <3>2, <3>3, FS_Union
    <3>6. Cardinality(kept \cup new) <= MaxHoldings
      BY <1>3, <3>2, <3>3, <3>4, <3>5, HoldingsAssumption
    <3> QED
      BY <2>1, <3>5, <3>6 DEF CapHolds
  <2>6. ImportsReplace'
    <3> SUFFICES ASSUME NEW x \in rows', NEW y \in rows',
                        x.source = "wallet", y.source = "wallet",
                        x.wallet = y.wallet, x.chain = y.chain
                 PROVE  x.by = y.by
      BY DEF ImportsReplace
    <3>1. \A z \in new : z.by = r /\ z.wallet = i.wallet /\ z.chain \in i.chains
      BY <2>2 DEF WalletRow
    <3>2. \A z \in kept : z.source = "wallet" /\ z.wallet = i.wallet => z.chain \notin i.chains
      BY DEF Imported
    <3> HIDE DEF new
    <3>3. CASE x \in kept /\ y \in kept
      BY <3>3 DEF IInv, ImportsReplace
    <3>4. CASE x \in new \/ y \in new
      BY <2>1, <3>1, <3>2, <3>4
    <3> QED
      BY <2>1, <3>3, <3>4
  <2> QED
    BY <1>1, <2>1, <2>5, <2>6, ElsewhereKeeps
<1> QED
  BY <1>2, <1>3

LEMMA Step == IInv /\ [Next]_vars => IInv'
<1> SUFFICES ASSUME IInv, [Next]_vars PROVE IInv'
  OBVIOUS
<1>1. CASE Next
  <2>1. PICK r \in Request :
          \/ \E c \in Coin : CheckNew(r, c) \/ AddHolding(r, c)
          \/ CheckEmpty(r)
          \/ \E w \in Wallet, requested \in SUBSET Chain : \E readOk \in SUBSET requested :
               \E items \in SUBSET {i \in Item : i.chain \in readOk} :
                 Preview(r, w, requested, readOk, items)
          \/ ReplaceWalletHoldings(r)
          \/ \E x \in shown.rows : Edit(r, x) \/ Delete(r, x)
          \/ Poll(r) \/ ReadPortfolio(r) \/ Arrive(r) \/ Abandon(r)
    BY <1>1 DEF Next
  <2>2. TypeOK
    BY DEF IInv
  <2>3. TypeOK'
    BY <2>1, <2>2, AddTyped, ReplaceTyped, PreviewTyped, EditTyped, OthersTyped
  <2> HIDE DEF IInv
  <2> QED
    BY <2>1, <2>3, LookingKeeps, AddKeeps, PreviewKeeps, ReplaceKeeps, DeleteKeeps
<1>2. CASE UNCHANGED vars
  BY <1>2 DEF vars, window, IInv, TypeOK, CapHolds, ImportsReplace, CapacityIsHonest, Imported
<1> QED
  BY <1>1, <1>2

\* The inductive invariant.
THEOREM Invariance == Spec => []IInv
BY Start, Step, PTL DEF Spec

\* No portfolio grows past its cap, whatever races, and the room that a preview promised
\* is there (repo.ts:112-123, 144-157, portfolio.ts:157-160).
THEOREM Room == Spec => []RoomIsHonest
<1>1. IInv => RoomIsHonest
  BY DEF IInv, RoomIsHonest
<1> QED
  BY <1>1, Invariance, PTL

\* Imports of one wallet and chain replace each other (repo.ts:144-157).
THEOREM Replacing == Spec => []ImportsReplace
<1>1. IInv => ImportsReplace
  BY DEF IInv
<1> QED
  BY <1>1, Invariance, PTL

\* Only a refused confirmation, or one that fails before it, ends what was picked.
LEMMA RefusalKeepsRows ==
  ASSUME IInv, [Next]_vars, NEW r \in Request, at[r] = "picked", at'[r] = "refused"
  PROVE  rows' = rows
<1>0. at \in [Request -> At]
  BY DEF IInv, TypeOK
<1>1. ASSUME NEW q \in Request, NEW place, Send(q, place)
      PROVE  FALSE
  BY <1>0, <1>1 DEF Send
<1>2. ASSUME NEW q \in Request, NEW c \in Coin, AddHolding(q, c)
      PROVE  FALSE
  BY <1>0, <1>2 DEF AddHolding, Refuses
<1>3. ASSUME NEW q \in Request, ReplaceWalletHoldings(q)
      PROVE  rows' = rows
  BY <1>0, <1>3 DEF ReplaceWalletHoldings, Refuses, StaysAsItIs
<1>4. ASSUME NEW q \in Request, ReadPortfolio(q) \/ Arrive(q) \/ Abandon(q)
      PROVE  rows' = rows
  BY <1>4 DEF ReadPortfolio, Arrive, Abandon, StaysAsItIs
<1>5. CASE UNCHANGED vars
  BY <1>5 DEF vars
<1> QED
  BY <1>1, <1>2, <1>3, <1>4, <1>5
  DEF Next, CheckNew, CheckEmpty, Preview, Edit, Delete, Gone, Poll

\* Imports are whole: they replace what the wallet held before, or nothing
\* (repo.ts:144-157).
THEOREM Whole == Spec => ImportsAreWhole
<1>1. IInv /\ [Next]_vars =>
        [\A r \in Request : at[r] = "picked" /\ at'[r] = "refused" => rows' = rows]_vars
  BY RefusalKeepsRows
<1> QED
  BY <1>1, Invariance, Replacing, PTL DEF Spec, ImportsAreWhole, RefusedImportKeepsAll

-----------------------------------------------------------------------------
(* The window *)

LEMMA WindowStart == Init => WindowInv
<1> SUFFICES ASSUME Init PROVE WindowInv
  OBVIOUS
<1>1. shown = Portfolio /\ latest = {} /\ \A r \in Request : at[r] = "unsent"
  BY DEF Init, Portfolio, Nothing
<1> QED
  BY <1>1 DEF WindowInv, Told

\* What the requests that insert coins have yet to insert.
Inserting(r) ==
  /\ at[r] = "adding" => \E c \in Coin : coins[r] = {c}
  /\ at[r] = "loading" => coins[r] \subseteq SampleCoin

\* Whoever changes the portfolio is to tell.
LEMMA ChangeOwes ==
  ASSUME NEW r \in Request, Owed(r)', latest' = {}, \A q \in Request : Inserting(q)'
  PROVE  WindowInv'
<1>1. \A q \in Request :
        /\ at'[q] = "adding" => \E c \in Coin : coins'[q] = {c}
        /\ at'[q] = "loading" => coins'[q] \subseteq SampleCoin
  BY DEF Inserting
<1> QED
  BY <1>1 DEF WindowInv, Told

\* Steps that neither change nor tell anything leave it to be told by the same request.
LEMMA AsideKeeps ==
  ASSUME WindowInv, \A q \in Request : Inserting(q)',
         UNCHANGED <<rows, edited, latest, shown, answer>>, behind => behind',
         \A q \in Request : Owed(q) => Owed(q)' \/ behind',
         \A q \in Request : at'[q] = "answered" => at[q] = "answered",
         \A q \in latest : at'[q] = at[q]
  PROVE  WindowInv'
<1>1. Portfolio' = Portfolio
  BY DEF Portfolio
<1>2. \A q \in Request :
        /\ at'[q] = "adding" => \E c \in Coin : coins'[q] = {c}
        /\ at'[q] = "loading" => coins'[q] \subseteq SampleCoin
  BY DEF Inserting
<1>3. \A r \in latest : /\ at'[r] \in {"answered", "done", "refused"}
                        /\ at'[r] = "answered" => answer'[r] = Portfolio'
  BY <1>1 DEF WindowInv, Told
<1>4. \/ behind'
      \/ \E r \in Request : Owed(r)' /\ latest' = {}
      \/ \E r \in latest' : at'[r] = "answered"
      \/ shown' = Portfolio' /\ latest' # {} /\ \A r \in latest' : at'[r] \in Ended
      \/ shown' = Portfolio' /\ latest' = {} /\ \A r \in Request : at'[r] # "answered"
  BY <1>1 DEF WindowInv, Told
<1> QED
  BY <1>2, <1>3, <1>4 DEF WindowInv, Told

LEMMA StillInserting ==
  ASSUME WindowInv, NEW q \in Request,
         at'[q] \in {"adding", "loading"} => at'[q] = at[q] /\ coins'[q] = coins[q]
  PROVE  Inserting(q)'
BY DEF WindowInv, Told, Inserting

LEMMA ChecksKeepWindow ==
  ASSUME WindowInv, TypeOK, NEW r \in Request,
         (\E c \in Coin : CheckNew(r, c)) \/ CheckEmpty(r) \/ Poll(r)
  PROVE  WindowInv'
<1>1. /\ UNCHANGED <<rows, edited, latest, shown, answer, behind>>
      /\ at[r] = "unsent" /\ at'[r] \in {"adding", "loading", "polling", "refused"}
      /\ \A q \in Request \ {r} : at'[q] = at[q] /\ coins'[q] = coins[q]
  BY DEF CheckNew, CheckEmpty, Poll, Send, StaysAsItIs, window, TypeOK
<1>2. Inserting(r)'
  BY DEF CheckNew, CheckEmpty, Poll, Send, TypeOK, Inserting
<1>3. \A q \in Request : Inserting(q)'
  BY <1>1, <1>2, StillInserting
<1>4. \A q \in Request : Owed(q) => Owed(q)'
  BY <1>1 DEF Owed
<1>5. r \notin latest
  BY <1>1 DEF WindowInv, Told
<1> QED
  BY <1>1, <1>3, <1>4, <1>5, AsideKeeps DEF TypeOK

LEMMA PreviewKeepsWindow ==
  ASSUME WindowInv, TypeOK, NEW r \in Request, NEW w \in Wallet, NEW requested \in SUBSET Chain,
         NEW readOk \in SUBSET requested, NEW items \in SUBSET {i \in Item : i.chain \in readOk},
         Preview(r, w, requested, readOk, items)
  PROVE  WindowInv'
<1>1. /\ UNCHANGED <<rows, edited, latest, shown, answer, behind>>
      /\ at[r] = "unsent" /\ at'[r] = "picked" /\ coins' = coins
      /\ \A q \in Request \ {r} : at'[q] = at[q]
  BY DEF Preview, Send, StaysAsItIs, window, TypeOK
<1>3. \A q \in Request : Inserting(q)'
  BY <1>1, StillInserting
<1>4. \A q \in Request : Owed(q) => Owed(q)'
  BY <1>1 DEF Owed
<1>5. r \notin latest
  BY <1>1 DEF WindowInv, Told
<1> QED
  BY <1>1, <1>3, <1>4, <1>5, AsideKeeps DEF TypeOK

LEMMA AddKeepsWindow ==
  ASSUME WindowInv, TypeOK, NEW r \in Request, NEW c \in Coin, AddHolding(r, c)
  PROVE  WindowInv'
<1>1. /\ shown' = shown /\ answer' = answer
      /\ at[r] \in {"adding", "loading"} /\ c \in coins[r]
      /\ \A q \in Request \ {r} : at'[q] = at[q] /\ coins'[q] = coins[q]
  BY DEF AddHolding, Refuses, TypeOK
<1>2. CASE Full
  <2>1. /\ UNCHANGED <<rows, edited, latest>>
        /\ at'[r] = "refused"
        /\ behind => behind'
        /\ Owed(r) => behind'
    BY <1>2 DEF AddHolding, Refuses, StaysAsItIs, TypeOK
  <2>2. \A q \in Request : Inserting(q)'
    BY <1>1, <2>1, StillInserting
  <2>3. \A q \in Request : Owed(q) => Owed(q)' \/ behind'
    BY <1>1, <2>1 DEF Owed
  <2>4. r \notin latest
    BY <1>1 DEF WindowInv, Told
  <2> QED
    BY <1>1, <2>1, <2>2, <2>3, <2>4, AsideKeeps DEF TypeOK
<1>3. CASE ~Full
  <2>1. /\ latest' = {} /\ coins'[r] = coins[r] \ {c}
        /\ at'[r] = IF coins'[r] = {} THEN "viewing" ELSE at[r]
    BY <1>3 DEF AddHolding, Becomes, TypeOK
  <2>2. CASE at[r] = "adding"
    <3>1. at'[r] = "viewing"
      BY <1>1, <2>1, <2>2 DEF WindowInv, Told
    <3>2. \A q \in Request : Inserting(q)'
      BY <1>1, <3>1, StillInserting
    <3> QED
      BY <2>1, <3>1, <3>2, ChangeOwes DEF Owed
  <2>3. CASE at[r] = "loading"
    <3>1. coins[r] \subseteq SampleCoin
      BY <2>3 DEF WindowInv, Told
    <3>2. coins'[r] \subseteq SampleCoin /\ coins'[r] # SampleCoin
      BY <1>1, <2>1, <3>1
    <3>3. Owed(r)' /\ Inserting(r)'
      BY <2>1, <2>3, <3>2 DEF Owed, Inserting
    <3>4. \A q \in Request : Inserting(q)'
      BY <1>1, <3>3, StillInserting
    <3> QED
      BY <2>1, <3>3, <3>4, ChangeOwes
  <2> QED
    BY <1>1, <2>2, <2>3
<1> QED
  BY <1>2, <1>3

\* An import, an edit or a removal: something changes, or the request is refused.
LEMMA ChangesKeepWindow ==
  ASSUME WindowInv, TypeOK, NEW r \in Request,
         ReplaceWalletHoldings(r) \/ \E x \in shown.rows : Edit(r, x) \/ Delete(r, x)
  PROVE  WindowInv'
<1>1. /\ shown' = shown /\ answer' = answer /\ coins' = coins
      /\ at[r] \in {"picked", "unsent"} /\ behind' = behind
      /\ \A q \in Request \ {r} : at'[q] = at[q]
      /\ at'[r] \in {"viewing", "refused"}
  BY DEF ReplaceWalletHoldings, Edit, Delete, Gone, Send, Refuses, Owed, window, TypeOK
<1>2. \A q \in Request : Inserting(q)'
  BY <1>1, StillInserting
<1>3. CASE at'[r] = "viewing"
  <2>1. latest' = {}
    BY <1>3 DEF ReplaceWalletHoldings, Edit, Delete, Gone, Send, Refuses, UpdateHolding,
                DeleteHolding, Becomes, TypeOK
  <2> QED
    BY <1>2, <1>3, <2>1, ChangeOwes DEF Owed
<1>4. CASE at'[r] = "refused"
  <2>1. UNCHANGED <<rows, edited, latest>>
    BY <1>4 DEF ReplaceWalletHoldings, Edit, Delete, Gone, Send, StaysAsItIs, TypeOK
  <2>2. \A q \in Request : Owed(q) => Owed(q)'
    BY <1>1 DEF Owed
  <2>3. r \notin latest
    BY <1>1 DEF WindowInv, Told
  <2> QED
    BY <1>1, <1>2, <1>4, <2>1, <2>2, <2>3, AsideKeeps DEF TypeOK
<1> QED
  BY <1>1, <1>3, <1>4

LEMMA ReadKeepsWindow ==
  ASSUME WindowInv, TypeOK, NEW r \in Request, ReadPortfolio(r)
  PROVE  WindowInv'
<1>1. /\ Portfolio' = Portfolio /\ coins' = coins /\ latest' = {r}
      /\ at'[r] = "answered" /\ answer'[r] = Portfolio
      /\ \A q \in Request \ {r} : at'[q] = at[q]
  BY DEF ReadPortfolio, Portfolio, TypeOK
<1>2. \A q \in Request :
        /\ at'[q] = "adding" => \E c \in Coin : coins'[q] = {c}
        /\ at'[q] = "loading" => coins'[q] \subseteq SampleCoin
  BY <1>1 DEF WindowInv, Told
<1> QED
  BY <1>1, <1>2 DEF WindowInv, Told

LEMMA ArriveKeepsWindow ==
  ASSUME WindowInv, TypeOK, NEW r \in Request, Arrive(r)
  PROVE  WindowInv'
<1>1. /\ Portfolio' = Portfolio /\ coins' = coins /\ latest' = latest
      /\ at[r] = "answered" /\ at'[r] = "done" /\ shown' = answer[r]
      /\ \A q \in Request \ {r} : at'[q] = at[q] /\ answer'[q] = answer[q]
  BY DEF Arrive, Portfolio, TypeOK
<1>2. \A q \in Request :
        /\ at'[q] = "adding" => \E c \in Coin : coins'[q] = {c}
        /\ at'[q] = "loading" => coins'[q] \subseteq SampleCoin
  BY <1>1 DEF WindowInv, Told
<1>3. \A q \in latest : /\ at'[q] \in {"answered", "done", "refused"}
                        /\ at'[q] = "answered" => answer'[q] = Portfolio'
  BY <1>1 DEF WindowInv, Told, TypeOK
<1>4. CASE r \in latest
  <2>1. shown' = Portfolio' /\ \A q \in latest' : at'[q] \in Ended
    BY <1>1, <1>4 DEF WindowInv, Told, Ended
  <2> QED
    BY <1>1, <1>2, <1>3, <1>4, <2>1 DEF WindowInv, Told
<1>5. CASE r \notin latest /\ ~behind'
  <2>1. ~behind /\ ~Overtaken(r)
    BY <1>5 DEF Arrive
  <2>2. \A q \in latest : at[q] \notin Ended
    BY <1>5, <2>1 DEF Overtaken
  <2>3. CASE \E q \in latest : at[q] = "answered"
    <3>1. \E q \in latest' : at'[q] = "answered"
      BY <1>1, <1>5, <2>3 DEF TypeOK
    <3> QED
      BY <1>1, <1>2, <1>3, <3>1 DEF WindowInv, Told
  <2>4. CASE \E q \in Request : Owed(q) /\ latest = {}
    <3>1. PICK q \in Request : Owed(q) /\ latest = {}
      BY <2>4
    <3>2. Owed(q)' /\ latest' = {}
      BY <1>1, <3>1 DEF Owed
    <3> QED
      BY <1>1, <1>2, <1>3, <3>2 DEF WindowInv, Told
  <2> QED
    BY <1>1, <2>1, <2>2, <2>3, <2>4 DEF WindowInv, Told
<1>6. CASE behind'
  <2>1. \A p, q \in latest' : p = q
    BY <1>1 DEF WindowInv, Told
  <2>2. \A q \in latest' : /\ at'[q] \in {"answered", "done", "refused"}
                           /\ at'[q] = "answered" => answer'[q] = Portfolio'
    BY <1>1, <1>3
  <2>3. Told'
    BY <1>6, Zenon DEF Told
  <2> QED
    BY <1>2, <2>1, <2>2, <2>3 DEF WindowInv
<1> QED
  BY <1>4, <1>5, <1>6

LEMMA AbandonKeepsWindow ==
  ASSUME WindowInv, TypeOK, NEW r \in Request, Abandon(r)
  PROVE  WindowInv'
<1>1. /\ Portfolio' = Portfolio /\ latest' = latest /\ shown' = shown
      /\ at[r] \notin Ended /\ at'[r] = "refused" /\ coins'[r] = {}
      /\ \A q \in Request \ {r} : at'[q] = at[q] /\ answer'[q] = answer[q] /\ coins'[q] = coins[q]
  BY DEF Abandon, StaysAsItIs, Portfolio, TypeOK
<1>2. \A q \in Request :
        /\ at'[q] = "adding" => \E c \in Coin : coins'[q] = {c}
        /\ at'[q] = "loading" => coins'[q] \subseteq SampleCoin
  BY <1>1 DEF WindowInv, Told
<1>3. \A q \in latest : /\ at'[q] \in {"answered", "done", "refused"}
                        /\ at'[q] = "answered" => answer'[q] = Portfolio'
  BY <1>1 DEF WindowInv, Told, TypeOK
<1>4. CASE behind'
  <2>1. \A p, q \in latest' : p = q
    BY <1>1 DEF WindowInv, Told
  <2>2. \A q \in latest' : /\ at'[q] \in {"answered", "done", "refused"}
                           /\ at'[q] = "answered" => answer'[q] = Portfolio'
    BY <1>1, <1>3
  <2>3. Told'
    BY <1>4, Zenon DEF Told
  <2> QED
    BY <1>2, <2>1, <2>2, <2>3 DEF WindowInv
<1>5. CASE ~behind'
  <2>1. ~behind /\ ~Owed(r) /\ r \notin latest
    BY <1>5 DEF Abandon
  <2>2. \A q \in latest : at'[q] = at[q]
    BY <1>1, <2>1 DEF TypeOK
  <2>3. \A q \in Request : Owed(q) => Owed(q)'
    BY <1>1, <2>1 DEF Owed
  <2> QED
    BY <1>1, <1>2, <1>3, <2>1, <2>2, <2>3 DEF WindowInv, Told
<1> QED
  BY <1>4, <1>5

LEMMA WindowStep == IInv /\ WindowInv /\ [Next]_vars => WindowInv'
<1> SUFFICES ASSUME IInv, WindowInv, [Next]_vars PROVE WindowInv'
  OBVIOUS
<1>1. TypeOK
  BY DEF IInv
<1>2. CASE Next
  <2>1. PICK r \in Request :
          \/ \E c \in Coin : CheckNew(r, c) \/ AddHolding(r, c)
          \/ CheckEmpty(r)
          \/ \E w \in Wallet, requested \in SUBSET Chain : \E readOk \in SUBSET requested :
               \E items \in SUBSET {i \in Item : i.chain \in readOk} :
                 Preview(r, w, requested, readOk, items)
          \/ ReplaceWalletHoldings(r)
          \/ \E x \in shown.rows : Edit(r, x) \/ Delete(r, x)
          \/ Poll(r) \/ ReadPortfolio(r) \/ Arrive(r) \/ Abandon(r)
    BY <1>2 DEF Next
  <2> HIDE DEF WindowInv, Told
  <2> QED
    BY <1>1, <2>1, ChecksKeepWindow, PreviewKeepsWindow, AddKeepsWindow, ChangesKeepWindow,
       ReadKeepsWindow, ArriveKeepsWindow, AbandonKeepsWindow
<1>3. CASE UNCHANGED vars
  BY <1>3 DEF vars, WindowInv, Told, Owed, Portfolio
<1> QED
  BY <1>2, <1>3

\* Once nothing is under way, the window shows the portfolio as it is, unless an answer
\* was lost or overtaken (queries.ts:67-76, 182-227).
THEOREM CatchesUp == Spec => []WindowCatchesUp
<1>1. IInv /\ WindowInv => WindowCatchesUp
  <2> SUFFICES ASSUME IInv, WindowInv, ~behind, \A r \in Request : at[r] \in Ended \cup {"unsent", "picked"}
               PROVE  shown = Portfolio
    BY DEF WindowCatchesUp
  <2>1. \A r \in Request : ~Owed(r) /\ at[r] # "answered"
    BY DEF Owed, Ended
  <2>2. \A r \in latest : r \in Request
    BY DEF IInv, TypeOK
  <2> QED
    BY <2>1, <2>2 DEF WindowInv, Told
<1>2. Spec => []WindowInv
  BY WindowStart, WindowStep, Invariance, PTL DEF Spec
<1> QED
  BY <1>1, <1>2, Invariance, PTL

-----------------------------------------------------------------------------
(* Wallets: what providers tell *)

\* One more page is no less transfers.
LEMMA MorePages ==
  ASSUME NEW a \in Nat, NEW b \in Nat, a <= b, NEW W \in Nat
  PROVE  a * W <= b * W /\ a * W \in Nat
<1>1. PICK d \in Nat : b = a + d
  <2>1. b - a \in Nat /\ b = a + (b - a)
    OBVIOUS
  <2> QED
    BY <2>1
<1>2. a * W \in Nat /\ d * W \in Nat
  BY SMT
<1>3. b * W = a * W + d * W
  BY <1>1, SMT
<1> QED
  BY <1>2, <1>3

\* When Etherscan's pages end, all has been listed that its limits let through.
LEMMA LastPage ==
  ASSUME NEW c \in CHAINS, NEW page \in Nat \ {0}, page <= MaxTxPages,
         Len(Transfers[c]) < page * TxPage \/ page = MaxTxPages
  PROVE  Discovered(c, page) = Discovered(c, MaxTxPages)
<1>1. Transfers[c] \in Seq(Token) /\ TxPage \in Nat /\ MaxTxPages \in Nat
  BY WalletsAssumption
<1>2. CASE page = MaxTxPages
  BY <1>2
<1>3. CASE Len(Transfers[c]) < page * TxPage
  <2>1. page * TxPage <= MaxTxPages * TxPage /\ page * TxPage \in Nat /\ MaxTxPages * TxPage \in Nat
    BY <1>1, MorePages
  <2>2. \A n \in DOMAIN Transfers[c] : n \in Nat /\ n <= Len(Transfers[c])
    BY <1>1
  <2>3. \A n \in DOMAIN Transfers[c] : n <= page * TxPage /\ n <= MaxTxPages * TxPage
    <3> SUFFICES ASSUME NEW n \in DOMAIN Transfers[c]
                 PROVE  n <= page * TxPage /\ n <= MaxTxPages * TxPage
      OBVIOUS
    <3>1. n \in Nat /\ n <= Len(Transfers[c]) /\ Len(Transfers[c]) \in Nat
      BY <1>1, <2>2
    <3> HIDE DEF Discovered
    <3> QED
      BY <1>3, <2>1, <3>1
  <2>4. {n \in DOMAIN Transfers[c] : n <= page * TxPage}
          = {n \in DOMAIN Transfers[c] : n <= MaxTxPages * TxPage}
    BY <2>3
  <2> QED
    BY <2>4 DEF Discovered
<1> QED
  BY <1>2, <1>3

LEMMA TokensOnly ==
  ASSUME NEW c \in CHAINS
  PROVE  /\ Parsed(c) \subseteq Token
         /\ \A pages \in Nat : Discovered(c, pages) \subseteq Token
<1>1. Transfers[c] \in Seq(Token) /\ Rows[c] \in Seq(Token)
  BY WalletsAssumption
<1> QED
  BY <1>1 DEF Parsed, Range, Discovered, First

LEMMA RestOf ==
  ASSUME NEW s \in Seq({"etherscan", "blockscout"}), s # <<>>
  PROVE  /\ Head(s) \in Range(s) /\ Head(s) \in {"etherscan", "blockscout"}
         /\ Tail(s) \in Seq({"etherscan", "blockscout"})
         /\ Range(Tail(s)) \subseteq Range(s)
<1>1. Len(s) \in Nat /\ Len(s) > 0 /\ s \in [1..Len(s) -> {"etherscan", "blockscout"}]
  OBVIOUS
<1>2. Head(s) = s[1] /\ 1 \in DOMAIN s
  BY <1>1
<1>3. /\ Tail(s) \in Seq({"etherscan", "blockscout"}) /\ DOMAIN Tail(s) = 1..Len(s) - 1
      /\ \A i \in 1..Len(s) - 1 : Tail(s)[i] = s[i + 1] /\ i + 1 \in DOMAIN s
  BY <1>1
<1> QED
  BY <1>1, <1>2, <1>3 DEF Range

-----------------------------------------------------------------------------
(* Wallets: the invariant *)

LEMMA FromIsFine ==
  ASSUME NEW c \in CHAINS, NEW left \in Seq({"etherscan", "blockscout"}),
         Range(left) \subseteq Range(Providers[c])
  PROVE  From(left) \in Outcome /\ OnItsWay(c, From(left)) /\ From(left).call = "none"
BY WalletsAssumption DEF From, Outcome, OnItsWay, Stage, Call

LEMMA WalletsBegin == WalletsInit => WalletsIInv
<1> SUFFICES ASSUME WalletsInit PROVE WalletsIInv
  OBVIOUS
<1>1. ASSUME NEW r \in Reader
      PROVE  /\ readers[r] = From(Providers[r[2]])
             /\ readers[r] \in Outcome /\ OnItsWay(r[2], readers[r]) /\ readers[r].call = "none"
  <2>1. r[2] \in CHAINS
    BY DEF Reader
  <2>2. Providers[r[2]] \in Seq({"etherscan", "blockscout"})
    BY <2>1, WalletsAssumption
  <2>3. readers[r] = From(Providers[r[2]])
    BY DEF WalletsInit
  <2> QED
    BY <2>1, <2>2, <2>3, FromIsFine
<1>2. WalletsTypeOK
  BY <1>1, WalletsAssumption DEF WalletsInit, WalletsTypeOK
<1> QED
  BY <1>1, <1>2 DEF WalletsInit, WalletsIInv, InTurn, OneProviderTellsAll, SpamHidesNothing

\* A reader goes on, and no answer to a request is given.
LEMMA Moves ==
  ASSUME WalletsIInv, NEW r \in Reader, NEW row \in Outcome, OnItsWay(r[2], row),
         readers' = [readers EXCEPT ![r] = row],
         queue' \in Seq(Reader), since' \in 0..MinInterval, replies' = replies, InTurn'
  PROVE  WalletsIInv'
<1>1. WalletsTypeOK'
  BY DEF WalletsIInv, WalletsTypeOK
<1>2. \A x \in Reader : OnItsWay(x[2], readers[x])'
  BY DEF WalletsIInv, WalletsTypeOK, OnItsWay, Tells
<1>3. OneProviderTellsAll' /\ SpamHidesNothing'
  BY DEF WalletsIInv, OneProviderTellsAll, SpamHidesNothing
<1> QED
  BY <1>1, <1>2, <1>3 DEF WalletsIInv

\* It has its answer.
LEMMA Answers ==
  ASSUME WalletsIInv, NEW r \in Reader, NEW row, Answered(r, row),
         [row EXCEPT !.call = "none"] \in Outcome, OnItsWay(r[2], [row EXCEPT !.call = "none"])
  PROVE  WalletsIInv'
<1> DEFINE new == [row EXCEPT !.call = "none"]
<1>1. readers' = [readers EXCEPT ![r] = new] /\ UNCHANGED <<queue, since, replies>>
  BY DEF Answered
<1>2. new.call = "none"
  BY DEF Outcome
<1> HIDE DEF new
<1>3. readers \in [Reader -> Outcome]
  BY DEF WalletsIInv, WalletsTypeOK
<1>4. InTurn'
  BY <1>1, <1>2, <1>3 DEF WalletsIInv, InTurn
<1>5. queue' \in Seq(Reader) /\ since' \in 0..MinInterval
  BY <1>1 DEF WalletsIInv, WalletsTypeOK
<1> QED
  BY <1>1, <1>4, <1>5, Moves DEF new

LEMMA ReaderFacts ==
  ASSUME WalletsIInv, NEW r \in Reader
  PROVE  /\ readers[r] \in Outcome /\ OnItsWay(r[2], readers[r])
         /\ r[2] \in CHAINS /\ queue \in Seq(Reader) /\ since \in 0..MinInterval
         /\ readers \in [Reader -> Outcome]
BY DEF WalletsIInv, WalletsTypeOK, Reader

LEMMA AskKeeps ==
  ASSUME WalletsIInv, NEW r \in Reader, Ask(r)
  PROVE  WalletsIInv'
<1>1. /\ readers[r] \in Outcome /\ OnItsWay(r[2], readers[r])
      /\ queue \in Seq(Reader) /\ since \in 0..MinInterval /\ readers \in [Reader -> Outcome]
  BY ReaderFacts
<1>2. CASE Provider(r) = "etherscan"
  <2> DEFINE row == [readers[r] EXCEPT !.call = "queued"]
  <2>1. readers' = [readers EXCEPT ![r] = row] /\ queue' = Append(queue, r)
        /\ since' = since /\ replies' = replies
    BY <1>1, <1>2 DEF Ask
  <2>2. row \in Outcome /\ OnItsWay(r[2], row) /\ row.call = "queued"
    BY <1>1 DEF Ask, Outcome, Call, OnItsWay
  <2> HIDE DEF row
  <2>3. InTurn'
    <3> SUFFICES ASSUME NEW x \in Reader, readers'[x].call = "pacing"
                 PROVE  queue' # <<>> /\ Head(queue') = x /\ readers'[x].pace = MinInterval - since'
      BY DEF InTurn
    <3>1. x # r /\ readers'[x] = readers[x]
      BY <1>1, <2>1, <2>2
    <3>2. queue # <<>> /\ Head(queue) = x /\ readers[x].pace = MinInterval - since
      BY <3>1 DEF WalletsIInv, InTurn
    <3>3. Append(queue, r) # <<>> /\ Head(Append(queue, r)) = Head(queue)
      BY <1>1, <3>2
    <3> QED
      BY <2>1, <3>1, <3>2, <3>3
  <2>4. queue' \in Seq(Reader)
    BY <1>1, <2>1
  <2> QED
    BY <1>1, <2>1, <2>2, <2>3, <2>4, Moves
<1>3. CASE Provider(r) # "etherscan"
  <2> DEFINE row == [readers[r] EXCEPT !.call = "sent", !.retried = FALSE]
  <2>1. readers' = [readers EXCEPT ![r] = row] /\ queue' = queue
        /\ since' = since /\ replies' = replies
    BY <1>1, <1>3 DEF Ask
  <2>2. row \in Outcome /\ OnItsWay(r[2], row) /\ row.call = "sent"
    BY <1>1 DEF Ask, Outcome, Call, OnItsWay
  <2> HIDE DEF row
  <2>3. InTurn'
    BY <1>1, <2>1, <2>2 DEF WalletsIInv, InTurn
  <2> QED
    BY <1>1, <2>1, <2>2, <2>3, Moves
<1> QED
  BY <1>2, <1>3

LEMMA TurnKeeps ==
  ASSUME WalletsIInv, NEW r \in Reader, BeginTurn(r) \/ TakeTurn(r)
  PROVE  WalletsIInv'
<1>1. /\ readers[r] \in Outcome /\ OnItsWay(r[2], readers[r])
      /\ queue \in Seq(Reader) /\ since \in 0..MinInterval /\ readers \in [Reader -> Outcome]
  BY ReaderFacts
<1>2. MinInterval \in Nat /\ MinInterval - since \in 0..MinInterval /\ 0 \in 0..MinInterval
  BY <1>1, WalletsAssumption
<1>3. CASE BeginTurn(r)
  <2> DEFINE row == [readers[r] EXCEPT !.call = "pacing", !.pace = MinInterval - since]
  <2>1. /\ readers' = [readers EXCEPT ![r] = row] /\ queue' = queue
        /\ since' = since /\ replies' = replies
        /\ queue # <<>> /\ Head(queue) = r /\ readers[r].call = "queued"
    BY <1>1, <1>3 DEF BeginTurn
  <2>2. row \in Outcome /\ OnItsWay(r[2], row) /\ row.pace = MinInterval - since
    BY <1>1, <1>2, <2>1 DEF Outcome, Call, OnItsWay
  <2> HIDE DEF row
  <2>3. InTurn'
    BY <1>1, <2>1, <2>2 DEF WalletsIInv, InTurn
  <2> QED
    BY <1>1, <2>1, <2>2, <2>3, Moves
<1>4. CASE TakeTurn(r)
  <2> DEFINE row == [readers[r] EXCEPT !.call = "sent"]
  <2>1. /\ readers' = [readers EXCEPT ![r] = row] /\ queue' = Tail(queue)
        /\ since' = 0 /\ replies' = replies /\ readers[r].call = "pacing"
    BY <1>1, <1>4 DEF TakeTurn
  <2>2. row \in Outcome /\ OnItsWay(r[2], row) /\ row.call = "sent"
    BY <1>1, <1>2, <2>1 DEF Outcome, Call, OnItsWay
  <2> HIDE DEF row
  <2>3. queue # <<>> /\ Head(queue) = r
    BY <2>1 DEF WalletsIInv, InTurn
  <2>4. Tail(queue) \in Seq(Reader)
    BY <1>1, <2>3
  <2>5. InTurn'
    BY <1>1, <2>1, <2>2, <2>3 DEF WalletsIInv, InTurn
  <2> QED
    BY <1>2, <2>1, <2>2, <2>4, <2>5, Moves
<1> QED
  BY <1>3, <1>4

LEMMA RestKeeps ==
  ASSUME WalletsIInv, NEW r \in Reader, Rest(r) \/ Retry(r)
  PROVE  WalletsIInv'
<1>1. /\ readers[r] \in Outcome /\ OnItsWay(r[2], readers[r])
      /\ queue \in Seq(Reader) /\ since \in 0..MinInterval /\ readers \in [Reader -> Outcome]
  BY ReaderFacts
<1>2. PICK row \in Outcome :
        /\ readers' = [readers EXCEPT ![r] = row] /\ UNCHANGED <<queue, since, replies>>
        /\ OnItsWay(r[2], row) /\ row.call # "pacing"
  <2>1. CASE Rest(r)
    <3> DEFINE row == [readers[r] EXCEPT !.call = "resting"]
    <3>1. readers' = [readers EXCEPT ![r] = row] /\ UNCHANGED <<queue, since, replies>>
      BY <1>1, <2>1 DEF Rest
    <3>2. row \in Outcome /\ OnItsWay(r[2], row) /\ row.call # "pacing"
      BY <1>1, <2>1 DEF Rest, Outcome, Call, OnItsWay
    <3> QED
      BY <3>1, <3>2
  <2>2. CASE Retry(r)
    <3> DEFINE row == [readers[r] EXCEPT !.call = "sent", !.retried = TRUE]
    <3>1. readers' = [readers EXCEPT ![r] = row] /\ UNCHANGED <<queue, since, replies>>
      BY <1>1, <2>2 DEF Retry
    <3>2. row \in Outcome /\ OnItsWay(r[2], row) /\ row.call # "pacing"
      BY <1>1, <2>2 DEF Retry, Outcome, Call, OnItsWay
    <3> QED
      BY <3>1, <3>2
  <2> QED
    BY <2>1, <2>2
<1>3. InTurn'
  BY <1>1, <1>2 DEF WalletsIInv, InTurn
<1> QED
  BY <1>1, <1>2, <1>3, Moves

\* A sleep goes on as time does.
LEMMA WalletsTickKeeps ==
  ASSUME WalletsIInv, Tick
  PROVE  WalletsIInv'
<1> DEFINE row(r) == [readers[r] EXCEPT !.pace = IF @ > 0 THEN @ - 1 ELSE @]
<1>1. /\ since < MinInterval /\ since' = since + 1 /\ UNCHANGED <<queue, replies>>
      /\ readers' = [r \in Reader |-> row(r)]
  BY DEF Tick
<1>2. MinInterval \in Nat /\ since \in 0..MinInterval /\ since' \in 0..MinInterval
  BY <1>1, WalletsAssumption DEF WalletsIInv, WalletsTypeOK
<1>3. ASSUME NEW r \in Reader
      PROVE  /\ row(r) \in Outcome /\ OnItsWay(r[2], row(r)) /\ row(r).call = readers[r].call
             /\ row(r).pace = IF readers[r].pace > 0 THEN readers[r].pace - 1 ELSE readers[r].pace
             /\ \A f \in {"stage", "native", "told"} : row(r)[f] = readers[r][f]
             /\ row(r).left = readers[r].left
  <2>1. readers[r] \in Outcome /\ OnItsWay(r[2], readers[r])
    BY ReaderFacts
  <2>2. (IF readers[r].pace > 0 THEN readers[r].pace - 1 ELSE readers[r].pace) \in 0..MinInterval
    BY <1>2, <2>1 DEF Outcome
  <2> QED
    BY <2>1, <2>2 DEF Outcome, OnItsWay
<1> HIDE DEF row
<1>4. WalletsTypeOK'
  BY <1>1, <1>2, <1>3 DEF WalletsIInv, WalletsTypeOK
<1>5. InTurn'
  <2> SUFFICES ASSUME NEW r \in Reader, readers'[r].call = "pacing"
               PROVE  queue' # <<>> /\ Head(queue') = r /\ readers'[r].pace = MinInterval - since'
    BY DEF InTurn
  <2>1. readers[r].call = "pacing" /\ readers'[r] = row(r)
    BY <1>1, <1>3
  <2>2. queue # <<>> /\ Head(queue) = r /\ readers[r].pace = MinInterval - since
    BY <2>1 DEF WalletsIInv, InTurn
  <2>3. row(r).pace = MinInterval - (since + 1)
    BY <1>1, <1>2, <1>3, <2>2
  <2> QED
    BY <1>1, <2>1, <2>2, <2>3
<1>6. \A r \in Reader : OnItsWay(r[2], readers[r])'
  <2> SUFFICES ASSUME NEW r \in Reader PROVE OnItsWay(r[2], readers[r])'
    OBVIOUS
  <2>1. readers'[r] = row(r) /\ OnItsWay(r[2], row(r))
    BY <1>1, <1>3
  <2> QED
    BY <2>1 DEF OnItsWay, Tells
<1>7. OneProviderTellsAll' /\ SpamHidesNothing'
  BY <1>1 DEF WalletsIInv, OneProviderTellsAll, SpamHidesNothing
<1> QED
  BY <1>4, <1>5, <1>6, <1>7 DEF WalletsIInv

LEMMA ReadNativeKeeps ==
  ASSUME WalletsIInv, NEW r \in Reader, ReadNative(r)
  PROVE  WalletsIInv'
<1> DEFINE native == r[2] \in Native
           row == [readers[r] EXCEPT !.native = native, !.stage = "listing"]
           new == [row EXCEPT !.call = "none"]
<1>1. readers[r] \in Outcome /\ OnItsWay(r[2], readers[r])
  BY ReaderFacts
<1>2. Answered(r, row) /\ readers[r].stage = "native"
  BY DEF ReadNative
<1>3. 1 <= MaxTxPages
  BY WalletsAssumption
<1>4. native \in BOOLEAN /\ native = (r[2] \in Native)
  OBVIOUS
<1> HIDE DEF native
<1>5. new \in Outcome
  BY <1>1, <1>2, <1>4 DEF Outcome, Stage, Call
<1>6. /\ new.left = readers[r].left /\ new.told = readers[r].told /\ new.page = readers[r].page
      /\ new.native = native /\ new.stage = "listing" /\ new.call = "none"
  BY <1>1 DEF Outcome
<1> HIDE DEF new
<1>7. OnItsWay(r[2], new)
  BY <1>1, <1>2, <1>3, <1>4, <1>6 DEF OnItsWay
<1> QED
  BY <1>2, <1>5, <1>7, Answers DEF new, native

LEMMA ReadTransfersKeeps ==
  ASSUME WalletsIInv, NEW r \in Reader, ReadTransfers(r)
  PROVE  WalletsIInv'
<1> DEFINE row == readers[r]
           c == r[2]
<1>1. row \in Outcome /\ OnItsWay(c, row) /\ c \in CHAINS
  BY ReaderFacts
<1>2. row.stage = "listing" /\ Head(row.left) = "etherscan" /\ row.told = {}
      /\ row.page \in Nat \ {0} /\ row.page <= MaxTxPages /\ row.native = (c \in Native)
      /\ row.left # <<>> /\ Range(row.left) \subseteq Range(Providers[c])
  BY <1>1 DEF ReadTransfers, Provider, OnItsWay, Outcome
<1>3. CASE Len(Transfers[c]) < row.page * TxPage \/ row.page = MaxTxPages
  <2> DEFINE found == Discovered(c, row.page)
             next == ToBalances(row, found)
             new == [next EXCEPT !.call = "none"]
  <2>1. Answered(r, next)
    BY <1>3 DEF ReadTransfers
  <2>2. found = Discovered(c, MaxTxPages) /\ found \subseteq Token
    BY <1>1, <1>2, <1>3, LastPage, TokensOnly
  <2> HIDE DEF found, row
  <2>3. new = [row EXCEPT !.todo = found, !.page = 1, !.call = "none",
                          !.stage = IF found = {} THEN "read" ELSE "balances"]
    BY <1>1 DEF ToBalances, Outcome
  <2>4. new \in Outcome
    <3> DEFINE stage == IF found = {} THEN "read" ELSE "balances"
    <3>1. stage \in Stage /\ "none" \in Call /\ 1 \in Nat \ {0}
      BY DEF Stage, Call
    <3>2. new = [row EXCEPT !.todo = found, !.page = 1, !.call = "none", !.stage = stage]
      BY <2>3
    <3> HIDE DEF stage, new
    <3> QED
      BY <1>1, <2>2, <3>1, <3>2 DEF Outcome
  <2>5. /\ new.left = row.left /\ new.told = {} /\ new.native = (c \in Native) /\ new.todo = found
        /\ new.call = "none" /\ new.stage = IF found = {} THEN "read" ELSE "balances"
    BY <1>1, <1>2, <2>3 DEF Outcome
  <2> HIDE DEF new
  <2>6. OnItsWay(c, new)
    BY <1>2, <2>2, <2>5 DEF OnItsWay, Tells
  <2> QED
    BY <2>1, <2>4, <2>6, Answers DEF new
<1>4. CASE ~(Len(Transfers[c]) < row.page * TxPage \/ row.page = MaxTxPages)
  <2> DEFINE next == [row EXCEPT !.page = @ + 1]
             new == [next EXCEPT !.call = "none"]
  <2>1. Answered(r, next)
    BY <1>4 DEF ReadTransfers
  <2>2. row.page # MaxTxPages /\ MaxTxPages \in Nat
    BY <1>4, WalletsAssumption
  <2>3. row.page + 1 \in Nat \ {0} /\ row.page + 1 <= MaxTxPages
    BY <1>2, <2>2
  <2>4. new \in Outcome /\ OnItsWay(c, new)
    BY <1>1, <1>2, <2>3 DEF Outcome, Call, OnItsWay
  <2> QED
    BY <2>1, <2>4, Answers
<1> QED
  BY <1>3, <1>4

LEMMA ReadBalanceKeeps ==
  ASSUME WalletsIInv, NEW r \in Reader, ReadBalance(r)
  PROVE  WalletsIInv'
<1> DEFINE row == readers[r]
           c == r[2]
<1>1. row \in Outcome /\ OnItsWay(c, row) /\ row.stage = "balances"
  BY ReaderFacts DEF ReadBalance
<1>2. PICK t \in row.todo :
        Answered(r, [row EXCEPT !.told = @ \cup ({t} \cap Held), !.todo = @ \ {t},
                                !.stage = IF row.todo = {t} THEN "read" ELSE "balances"])
  BY DEF ReadBalance
<1> DEFINE next == [row EXCEPT !.told = @ \cup ({t} \cap Held), !.todo = @ \ {t},
                               !.stage = IF row.todo = {t} THEN "read" ELSE "balances"]
           new == [next EXCEPT !.call = "none"]
<1>3. new \in Outcome
  BY <1>1, <1>2 DEF Outcome, Stage, Call
<1>4. /\ new.left = row.left /\ new.native = row.native /\ new.call = "none"
      /\ new.told = row.told \cup ({t} \cap Held) /\ new.todo = row.todo \ {t}
      /\ new.stage = IF row.todo = {t} THEN "read" ELSE "balances"
  BY <1>1 DEF Outcome
<1>5. new.told \cup (new.todo \cap Held) = Tells("etherscan", c)
  BY <1>1, <1>4 DEF OnItsWay
<1>6. row.todo = {t} => new.told = Tells("etherscan", c)
  BY <1>4, <1>5
<1> HIDE DEF new, row
<1>7. OnItsWay(c, new)
  BY <1>1, <1>4, <1>5, <1>6 DEF OnItsWay
<1> QED
  BY <1>2, <1>3, <1>7, Answers DEF new, row

LEMMA ReadRowsKeeps ==
  ASSUME WalletsIInv, NEW r \in Reader, ReadRows(r) \/ ReadAllRows(r)
  PROVE  WalletsIInv'
<1> DEFINE row == readers[r]
           c == r[2]
<1>1. row \in Outcome /\ OnItsWay(c, row) /\ c \in CHAINS
  BY ReaderFacts
<1>2. row.stage = "listing" /\ Head(row.left) = "blockscout" /\ row.told = {}
      /\ row.page \in Nat \ {0} /\ row.native = (c \in Native)
      /\ row.left # <<>> /\ Range(row.left) \subseteq Range(Providers[c])
  BY <1>1 DEF ReadRows, ReadAllRows, Provider, OnItsWay, Outcome
<1>3. Parsed(c) \subseteq Token /\ "read" \in Stage /\ "none" \in Call /\ 1 \in Nat \ {0}
  BY <1>1, TokensOnly DEF Stage, Call
<1>4. CASE ReadRows(r) /\ Len(Rows[c]) > row.page * RowPage
  <2> DEFINE next == [row EXCEPT !.page = @ + 1]
             new == [next EXCEPT !.call = "none"]
  <2>1. Answered(r, next)
    BY <1>4 DEF ReadRows
  <2>2. row.page + 1 \in Nat \ {0}
    BY <1>2
  <2>3. new \in Outcome /\ OnItsWay(c, new)
    BY <1>1, <1>2, <2>2 DEF Outcome, Call, OnItsWay
  <2> QED
    BY <2>1, <2>3, Answers
<1>5. CASE ReadRows(r) /\ ~(Len(Rows[c]) > row.page * RowPage)
  <2> DEFINE next == [row EXCEPT !.told = @ \cup Parsed(c), !.page = 1, !.stage = "read"]
             new == [next EXCEPT !.call = "none"]
  <2>1. Answered(r, next)
    BY <1>5 DEF ReadRows
  <2>2. new \in Outcome
    BY <1>1, <1>3 DEF Outcome
  <2>3. /\ new.left = row.left /\ new.native = row.native /\ new.call = "none"
        /\ new.told = row.told \cup Parsed(c) /\ new.stage = "read"
    BY <1>1 DEF Outcome
  <2> HIDE DEF new, row
  <2>4. OnItsWay(c, new)
    BY <1>2, <2>3 DEF OnItsWay, Tells
  <2> QED
    BY <2>1, <2>2, <2>4, Answers DEF new, row
<1>6. CASE ReadAllRows(r)
  <2> DEFINE next == [row EXCEPT !.told = @ \cup Parsed(c), !.stage = "read"]
             new == [next EXCEPT !.call = "none"]
  <2>1. Answered(r, next)
    BY <1>6 DEF ReadAllRows
  <2>2. new \in Outcome
    BY <1>1, <1>3 DEF Outcome
  <2>3. /\ new.left = row.left /\ new.native = row.native /\ new.call = "none"
        /\ new.told = row.told \cup Parsed(c) /\ new.stage = "read"
    BY <1>1 DEF Outcome
  <2> HIDE DEF new, row
  <2>4. OnItsWay(c, new)
    BY <1>2, <2>3 DEF OnItsWay, Tells
  <2> QED
    BY <2>1, <2>2, <2>4, Answers DEF new, row
<1> QED
  BY <1>4, <1>5, <1>6 DEF ReadRows

LEMMA FailKeeps ==
  ASSUME WalletsIInv, NEW r \in Reader, NEW trouble, Fail(r, trouble)
  PROVE  WalletsIInv'
<1> DEFINE row == readers[r]
           left == IF Kind(trouble) \in FallThrough THEN Tail(row.left) ELSE <<>>
           new == From(left)
<1>1. row \in Outcome /\ OnItsWay(r[2], row) /\ r[2] \in CHAINS
  BY ReaderFacts
<1>2. row.left # <<>> /\ row.left \in Seq({"etherscan", "blockscout"})
      /\ Range(row.left) \subseteq Range(Providers[r[2]])
  BY <1>1 DEF Fail, OnItsWay, Outcome
<1>3. Range(<<>>) = {}
  BY DEF Range
<1>4. left \in Seq({"etherscan", "blockscout"}) /\ Range(left) \subseteq Range(Providers[r[2]])
  BY <1>2, <1>3, RestOf
<1>5. Answered(r, new)
  BY DEF Fail
<1> HIDE DEF left
<1>6. new \in Outcome /\ OnItsWay(r[2], new) /\ new.call = "none"
  BY <1>1, <1>4, FromIsFine
<1> HIDE DEF new
<1>7. [new EXCEPT !.call = "none"] = new
  BY <1>6 DEF Outcome
<1> QED
  BY <1>5, <1>6, <1>7, Answers

-----------------------------------------------------------------------------
(* Wallets: the preview *)

\* What is looked up is some of what was told, and the notes count the rest.
LEMMA AllCounted ==
  ASSUME NEW r \in Reader, NEW S \in SUBSET Token
  PROVE  /\ Kept(r, S) \subseteq S
         /\ IsFiniteSet(S) /\ Cardinality(Kept(r, S)) \in Nat /\ Cardinality(S) \in Nat
         /\ Cardinality(Kept(r, S)) + Noted(r, S) = Cardinality(S)
<1>1. Kept(r, S) \subseteq S
  BY DEF Kept, First, Priced
<1>2. IsFiniteSet(S)
  BY FS_Subset, WalletsAssumption
<1>3. IsFiniteSet(Kept(r, S))
  BY <1>1, <1>2, FS_Subset
<1>4. Cardinality(Kept(r, S)) \in Nat /\ Cardinality(S) \in Nat
  BY <1>2, <1>3, FS_CardinalityType
<1>5. Cardinality(Kept(r, S)) + (Cardinality(S) - Cardinality(Kept(r, S))) = Cardinality(S)
  BY <1>4
<1> QED
  BY <1>1, <1>2, <1>4, <1>5 DEF Noted

\* A token worth something that is not looked up gives way to MaxPriced others that are
\* worth as much.
LEMMA GivesWay ==
  ASSUME NEW r \in Reader, NEW S \in SUBSET Token, Hinted(r),
         NEW t \in S, Worth[t] >= MinWorth, t \notin Kept(r, S)
  PROVE  Cardinality({u \in S \ {t} : Worth[u] >= Worth[t]}) >= MaxPriced
<1> DEFINE others == {u \in S \ {t} : Worth[u] >= Worth[t]}
<1>1. \A u \in Token : Worth[u] \in Nat
  BY WalletsAssumption
<1>2. Dearer(r, S, t) \subseteq others
  <2> SUFFICES ASSUME NEW u \in Dearer(r, S, t) PROVE u \in others
    OBVIOUS
  <2>1. u \in S /\ (Worth[u] > Worth[t] \/ (Worth[u] = Worth[t] /\ Before(Rows[r[2]], u, t)))
    BY DEF Dearer, Priced
  <2>2. Before(Rows[r[2]], u, t) => u # t
    <3>1. Rows[r[2]] \in Seq(Token)
      BY WalletsAssumption DEF Reader
    <3> QED
      BY <3>1 DEF Before
  <2>3. Worth[u] \in Nat /\ Worth[t] \in Nat
    BY <1>1, <2>1
  <2> QED
    BY <2>1, <2>2, <2>3
<1>3. IsFiniteSet(others)
  BY FS_Subset, WalletsAssumption
<1>4. /\ IsFiniteSet(Dearer(r, S, t)) /\ Cardinality(others) \in Nat
      /\ Cardinality(Dearer(r, S, t)) <= Cardinality(others)
      /\ Cardinality(Dearer(r, S, t)) \in Nat
  BY <1>2, <1>3, FS_Subset, FS_CardinalityType
<1>5. ~(Cardinality(Dearer(r, S, t)) < MaxPriced)
  BY DEF Kept, Priced
<1> QED
  BY <1>4, <1>5, WalletsAssumption

LEMMA FinishKeeps ==
  ASSUME WalletsIInv, NEW q \in Caller, Finish(q)
  PROVE  WalletsIInv'
<1>1. UNCHANGED <<readers, queue, since>>
  BY DEF Finish, Reply, LookupFails
<1>2. DOMAIN replies = Caller
  BY DEF WalletsIInv, WalletsTypeOK
<1>3. DOMAIN replies' = Caller /\ \A p \in Caller \ {q} : replies'[p] = replies[p]
  BY <1>2 DEF Finish, Reply, LookupFails
<1>4. WalletsTypeOK' /\ InTurn' /\ \A r \in Reader : OnItsWay(r[2], readers[r])'
  <2>1. WalletsTypeOK'
    BY <1>1, <1>3 DEF WalletsIInv, WalletsTypeOK
  <2>2. InTurn'
    BY <1>1 DEF WalletsIInv, InTurn
  <2>3. \A r \in Reader : OnItsWay(r[2], readers[r])'
    BY <1>1 DEF WalletsIInv, OnItsWay, Tells
  <2> QED
    BY <2>1, <2>2, <2>3
<1>5. CASE LookupFails(q)
  <2>1. replies'[q].is # "preview"
    BY <1>2, <1>5 DEF LookupFails
  <2>2. OneProviderTellsAll'
    <3> SUFFICES ASSUME NEW p \in Caller, replies'[p].is = "preview", NEW c \in Asks[p]
                 PROVE  \/ replies'[p].of[c].error
                        \/ \E x \in Range(Providers[c]) :
                             LET w == replies'[p].of[c] IN
                             /\ w.native = (c \in Native)
                             /\ w.items \cup w.skipped \subseteq Tells(x, c)
                             /\ Cardinality(w.items \cup w.skipped) + w.noted = Cardinality(Tells(x, c))
      BY DEF OneProviderTellsAll, Tells
    <3>1. replies'[p] = replies[p]
      BY <1>3, <2>1
    <3> QED
      BY <3>1 DEF WalletsIInv, OneProviderTellsAll
  <2>3. SpamHidesNothing'
    <3> SUFFICES ASSUME NEW p \in Caller, replies'[p].is = "preview", NEW c \in Asks[p],
                        ~replies'[p].of[c].error, Providers[c] = <<"blockscout">>,
                        NEW t \in Tells("blockscout", c) \cap Named \cap Listed
                 PROVE  \/ Worth[t] < MinWorth
                        \/ t \in replies'[p].of[c].items
                        \/ Cardinality({u \in Tells("blockscout", c) \ {t} : Worth[u] >= Worth[t]}) >= MaxPriced
      BY Zenon DEF SpamHidesNothing, Tells
    <3>1. replies'[p] = replies[p]
      BY <1>3, <2>1
    <3> QED
      BY <3>1, Zenon DEF WalletsIInv, SpamHidesNothing, Tells
  <2> QED
    BY <1>4, <2>2, <2>3 DEF WalletsIInv
<1>6. CASE Reply(q)
  <2> DEFINE v(c) == IF readers[<<q, c>>].stage = "failed" THEN Unread ELSE ChainView(<<q, c>>)
  <2>1. Settled(q) /\ replies'[q] = [is |-> "preview", of |-> [c \in Asks[q] |-> v(c)]]
    BY <1>2, <1>6 DEF Reply
  <2>2. \A c \in Asks[q] : replies'[q].of[c] = v(c)
    BY <2>1
  <2> HIDE DEF v
  <2>3. ASSUME NEW c \in Asks[q], ~v(c).error
        PROVE  LET r == <<q, c>>
                   told == readers[r].told
               IN  /\ r \in Reader /\ c \in CHAINS /\ told \subseteq Token
                   /\ v(c) = ChainView(r) /\ v(c).native = (c \in Native)
                   /\ told = Tells(Provider(r), c)
                   /\ Provider(r) \in Range(Providers[c])
                   /\ v(c).items = Kept(r, told) \cap Named \cap Listed
                   /\ v(c).items \cup v(c).skipped = Kept(r, told)
                   /\ v(c).noted = Noted(r, told)
    <3> DEFINE r == <<q, c>>
               told == readers[r].told
    <3>1. c \in CHAINS /\ r \in Reader /\ r[2] = c
      BY WalletsAssumption DEF Reader
    <3>2. readers[r].stage = "read" /\ v(c) = ChainView(r)
      BY <2>1, <2>3 DEF v, Settled, Unread
    <3>3. readers[r] \in Outcome /\ OnItsWay(c, readers[r])
      BY <3>1, ReaderFacts
    <3>4. /\ readers[r].native = (c \in Native) /\ told = Tells(Provider(r), c)
          /\ readers[r].left # <<>> /\ Range(readers[r].left) \subseteq Range(Providers[c])
      BY <3>2, <3>3 DEF OnItsWay, Provider
    <3>5. Provider(r) \in Range(readers[r].left)
      BY <3>3, <3>4, RestOf DEF Outcome, Provider
    <3>6. told \subseteq Token
      BY <3>3 DEF Outcome
    <3> HIDE DEF r
    <3>7. /\ v(c).native = readers[r].native /\ v(c).noted = Noted(r, told)
          /\ v(c).items = Kept(r, told) \cap Named \cap Listed
          /\ v(c).skipped = Kept(r, told) \ (Named \cap Listed)
      BY <3>2 DEF ChainView
    <3>8. v(c).items \cup v(c).skipped = Kept(r, told)
      BY <3>7
    <3> QED
      BY <3>1, <3>2, <3>4, <3>5, <3>6, <3>7, <3>8 DEF r
  <2>4. OneProviderTellsAll'
    <3> SUFFICES ASSUME NEW p \in Caller, replies'[p].is = "preview", NEW c \in Asks[p]
                 PROVE  \/ replies'[p].of[c].error
                        \/ \E x \in Range(Providers[c]) :
                             LET w == replies'[p].of[c] IN
                             /\ w.native = (c \in Native)
                             /\ w.items \cup w.skipped \subseteq Tells(x, c)
                             /\ Cardinality(w.items \cup w.skipped) + w.noted = Cardinality(Tells(x, c))
      BY DEF OneProviderTellsAll, Tells
    <3>1. CASE p # q
      BY <1>3, <3>1 DEF WalletsIInv, OneProviderTellsAll
    <3>2. CASE p = q /\ ~v(c).error
      <4> DEFINE r == <<q, c>>
                 told == readers[r].told
      <4>1. /\ r \in Reader /\ told \in SUBSET Token /\ v(c).native = (c \in Native)
            /\ told = Tells(Provider(r), c) /\ Provider(r) \in Range(Providers[c])
            /\ v(c).items \cup v(c).skipped = Kept(r, told) /\ v(c).noted = Noted(r, told)
        BY <2>3, <3>2
      <4> HIDE DEF r, told
      <4>2. /\ Kept(r, told) \subseteq told
            /\ Cardinality(Kept(r, told)) + Noted(r, told) = Cardinality(told)
        BY <4>1, AllCounted
      <4>3. replies'[p].of[c] = v(c)
        BY <2>2, <3>2
      <4> QED
        BY <4>1, <4>2, <4>3
    <3> QED
      BY <2>2, <3>1, <3>2
  <2>5. SpamHidesNothing'
    <3> SUFFICES ASSUME NEW p \in Caller, replies'[p].is = "preview", NEW c \in Asks[p],
                        ~replies'[p].of[c].error, Providers[c] = <<"blockscout">>,
                        NEW t \in Tells("blockscout", c) \cap Named \cap Listed,
                        Worth[t] >= MinWorth, t \notin replies'[p].of[c].items
                 PROVE  Cardinality({u \in Tells("blockscout", c) \ {t} : Worth[u] >= Worth[t]}) >= MaxPriced
      <4>1. \A t \in Token : Worth[t] \in Nat
        BY WalletsAssumption
      <4>2. \A p \in Caller : \A c \in Asks[p] : Tells("blockscout", c) \subseteq Token
        BY TokensOnly, WalletsAssumption DEF Tells
      <4>3. MinWorth \in Nat
        BY WalletsAssumption
      <4> QED
        BY <4>1, <4>2, <4>3 DEF SpamHidesNothing, Tells
    <3>1. CASE p # q
      <4>1. replies'[p] = replies[p]
        BY <1>3, <3>1
      <4>2. t \in Token /\ Worth[t] \in Nat /\ MinWorth \in Nat
        BY TokensOnly, WalletsAssumption DEF Tells
      <4>3. ~(Worth[t] < MinWorth)
        BY <4>2
      <4>4. SpamHidesNothing
        BY DEF WalletsIInv
      <4> QED
        BY <4>1, <4>3, <4>4, Zenon DEF SpamHidesNothing
    <3>2. CASE p = q
      <4> DEFINE r == <<q, c>>
                 told == readers[r].told
      <4>1. replies'[p].of[c] = v(c) /\ ~v(c).error
        BY <2>2, <3>2
      <4>2. /\ r \in Reader /\ told \in SUBSET Token /\ told = Tells(Provider(r), c)
            /\ Provider(r) \in Range(Providers[c])
            /\ v(c).items = Kept(r, told) \cap Named \cap Listed
        BY <2>3, <3>2, <4>1
      <4> HIDE DEF r, told
      <4>3. Provider(r) = "blockscout"
        BY <4>2 DEF Range
      <4>4. t \in told /\ t \notin Kept(r, told) /\ Hinted(r)
        BY <4>1, <4>2, <4>3 DEF Hinted
      <4>5. Cardinality({u \in told \ {t} : Worth[u] >= Worth[t]}) >= MaxPriced
        BY <4>2, <4>4, GivesWay
      <4> QED
        BY <4>2, <4>3, <4>5
    <3> QED
      BY <3>1, <3>2
  <2> QED
    BY <1>4, <2>4, <2>5 DEF WalletsIInv
<1> QED
  BY <1>5, <1>6 DEF Finish

LEMMA WalletsStep == WalletsIInv /\ [WalletsNext]_walletsVars => WalletsIInv'
<1> SUFFICES ASSUME WalletsIInv, [WalletsNext]_walletsVars
             PROVE  WalletsIInv'
  OBVIOUS
<1>1. ASSUME NEW r \in Reader, ReadStep(r)
      PROVE  WalletsIInv'
  BY <1>1, AskKeeps, TurnKeeps, ReadNativeKeeps, ReadTransfersKeeps, ReadBalanceKeeps, ReadRowsKeeps,
     FailKeeps, RestKeeps DEF ReadStep
<1>2. CASE UNCHANGED walletsVars
  <2>1. /\ readers' = readers /\ queue' = queue /\ since' = since /\ replies' = replies
    BY <1>2 DEF walletsVars
  <2>2. WalletsTypeOK' /\ InTurn' /\ OneProviderTellsAll' /\ SpamHidesNothing'
    BY <2>1 DEF WalletsIInv, WalletsTypeOK, InTurn, OneProviderTellsAll, SpamHidesNothing
  <2>3. \A r \in Reader : OnItsWay(r[2], readers[r])'
    BY <2>1 DEF WalletsIInv, OnItsWay, Tells
  <2> QED
    BY <2>2, <2>3 DEF WalletsIInv
<1> QED
  BY <1>1, <1>2, FinishKeeps, WalletsTickKeeps, Zenon DEF WalletsNext

\* The inductive invariant of the wallet reader: each chain is told of by the provider it
\* is being asked, and who sleeps before a call of Etherscan is first in the queue.
THEOREM WalletsInvariance == WalletsSpec => []WalletsIInv
BY WalletsBegin, WalletsStep, PTL DEF WalletsSpec

\* A preview says of each chain that it could not be read, or all that one of its
\* providers tells, by name or counted, whatever fails on the way, for any wallet, chains,
\* providers and limits (read-wallet.ts:30-67, 105-147).
THEOREM OneProvider == WalletsSpec => []OneProviderTellsAll
<1>1. WalletsIInv => OneProviderTellsAll
  BY DEF WalletsIInv
<1> QED
  BY <1>1, WalletsInvariance, PTL

\* However much spam a wallet got, a known token is offered unless it is worth too little
\* or enough others are worth as much (read-wallet.ts:46-68, 126-147).
THEOREM Spam == WalletsSpec => []SpamHidesNothing
<1>1. WalletsIInv => SpamHidesNothing
  BY DEF WalletsIInv
<1> QED
  BY <1>1, WalletsInvariance, PTL

\* Calls of Etherscan are the interval apart, whichever chains of whichever requests make
\* them and whatever fails in between (etherscan.ts:101-111).
THEOREM Spaced == WalletsSpec => CallsAreSpaced
<1>1. ASSUME WalletsIInv, WalletsNext, NEW r \in Reader,
             readers[r].call = "pacing", readers'[r].call = "sent"
      PROVE  since = MinInterval
  <2>1. readers \in [Reader -> Outcome] /\ since \in 0..MinInterval
    BY <1>1 DEF WalletsIInv, WalletsTypeOK
  <2>2. TakeTurn(r)
    <3>1. ASSUME NEW x \in Reader, ReadStep(x)
          PROVE  x = r
      <4>1. PICK row : readers' = [readers EXCEPT ![x] = row]
        BY <3>1
        DEF ReadStep, Ask, BeginTurn, TakeTurn, ReadNative, ReadTransfers, ReadBalance, ReadRows,
            ReadAllRows, Fail, Rest, Retry, Answered
      <4> QED
        BY <1>1, <2>1, <4>1
    <3>2. ~Tick
      BY <1>1, <2>1 DEF Tick, Outcome
    <3>3. ASSUME NEW q \in Caller PROVE ~Finish(q)
      BY <1>1 DEF Finish, Reply, LookupFails
    <3>4. ReadStep(r)
      BY <1>1, <3>1, <3>2, <3>3, Zenon DEF WalletsNext
    <3> QED
      BY <1>1, <2>1, <3>4
      DEF ReadStep, Ask, BeginTurn, ReadNative, ReadTransfers, ReadBalance, ReadRows,
          ReadAllRows, Fail, Rest, Retry, Answered
  <2>3. readers[r].pace = 0 /\ readers[r].pace = MinInterval - since
    BY <1>1, <2>2 DEF TakeTurn, WalletsIInv, InTurn
  <2> QED
    BY <2>1, <2>3, WalletsAssumption
<1>2. WalletsIInv /\ [WalletsNext]_walletsVars =>
        [\A r \in Reader : readers[r].call = "pacing" /\ readers'[r].call = "sent"
                             => since = MinInterval]_walletsVars
  BY <1>1
<1> QED
  BY <1>2, WalletsInvariance, PTL DEF WalletsSpec, CallsAreSpaced
=============================================================================
