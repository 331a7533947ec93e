----------------------------- MODULE MCEvaluator -----------------------------
(* A small user.  Time is scaled: a day is 2 ticks and a week 3, and          *)
(* cooldowns keep their order (an hour's drop and a depeg below a day, a near *)
(* low a week).                                                               *)
EXTENDS Evaluator

C(kind, severity, key, score) ==
  [kind |-> kind, severity |-> severity, dedupeKey |-> key, score |-> score]

MCDedupeKey ==
  {"price_drop:A", "depeg:S", "portfolio_drop"}

\* A crash that shows in a coin, a stablecoin and the portfolio as a whole.
Crash ==
  {C("price_drop_1h", "warning", "price_drop:A", 1),
   C("price_drop_24h", "critical", "price_drop:A", 2),
   C("depeg", "critical", "depeg:S", 1),
   C("portfolio_drop", "warning", "portfolio_drop", 2),
   C("portfolio_drop", "critical", "portfolio_drop", 2)}

MCCooldown ==
  [kind \in AlertKind |->
     CASE kind \in {"price_drop_1h", "depeg", "rwa_drift"} -> 1
       [] kind \in {"below_cost_basis", "near_low"} -> 3
       [] OTHER -> 2]
=============================================================================
