------------------------------ MODULE MCHoldings ------------------------------
(* Three requests over two coins, two chains and one wallet; room for three.   *)
EXTENDS Holdings, TLC

CONSTANTS r1, r2, r3, eth, usdc, base, mainnet, vault

Symmetry == Permutations(Request)
=============================================================================
