------------------------------ MODULE MCOrderBook ------------------------------
(* Instance of OrderBook for TLC.  Order ids are told apart only by        *)
(* equality, so the runs that check safety alone may permute them.         *)
EXTENDS OrderBook

CONSTANTS a, b, c

Symmetry == Permutations(OrderIds)
================================================================================
