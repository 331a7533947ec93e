------------------------------ MODULE MCWallets ------------------------------
(* Two previews of one wallet.  On Ethereum it holds a coin worth something and   *)
(* one Blockscout has no price of, next to a spent one and spam; on Base spam is   *)
(* first and more than a page; on Arbitrum less than a page was ever transferred.  *)
EXTENDS Wallets

CONSTANTS first, second, ethereum, base, arbitrum

MCAsks == [q \in Caller |-> IF q = first THEN {ethereum, base} ELSE {arbitrum}]

MCProviders == [c \in CHAINS |-> IF c = base THEN <<"blockscout">> ELSE <<"etherscan", "blockscout">>]

MCTransfers ==
  [c \in CHAINS |->
     CASE c = ethereum -> <<"spent", "old", "coin", "coin", "spam">>
       [] c = base -> <<>>
       [] OTHER -> <<"old">>]

MCRows ==
  [c \in CHAINS |->
     CASE c = ethereum -> <<"coin", "spam">>
       [] c = base -> <<"spam", "small", "coin">>
       [] OTHER -> <<"old">>]

MCWorth == [t \in Token |-> CASE t = "coin" -> 3 [] t = "small" -> 2 [] OTHER -> 0]
=============================================================================
