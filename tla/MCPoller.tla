------------------------------- MODULE MCPoller -------------------------------
(* Two users; a plan that polls everything on every tick, and a slower one.      *)
EXTENDS Poller

CONSTANTS alice, bob

MCPlans ==
  {[quotes |-> 1, global |-> 1, categories |-> 1],
   [quotes |-> 1, global |-> 2, categories |-> 3]}
=============================================================================
