------------------------------ MODULE MCPriceScan ------------------------------
EXTENDS PriceScan

(* Two prices, so that a level is better, equal or worse than a limit; the *)
(* quantities tell the levels apart and reach MaxQuantity in a few levels. *)
MCLevelChoices == {[price |-> 1, quantity |-> 3], [price |-> 2, quantity |-> 2], [price |-> 1, quantity |-> -2]}
================================================================================
