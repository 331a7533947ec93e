------------------------------ MODULE MCAccounts ------------------------------
(* Two users, two tokens and three requests of any kind.                        *)
EXTENDS Accounts, TLC

CONSTANTS r1, r2, r3, ann, ben, t1, t2, w1, w2, m1, m2, c1

Symmetry ==
  Permutations(Request) \cup Permutations(User) \cup Permutations(Token)
    \cup Permutations(Wallet) \cup Permutations(Email)
=============================================================================
