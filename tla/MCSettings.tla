------------------------------ MODULE MCSettings ------------------------------
(* Two browsers, two fields of the sheet and a switch.                         *)
EXTENDS Settings, TLC

CONSTANTS weeklyCap, protectionLevel, telegram, laptop, phone, e1, e2, e3

MCRaised == [field |-> protectionLevel, value |-> 2]

Symmetry == Permutations(Window) \cup Permutations(Endpoint)
=============================================================================
