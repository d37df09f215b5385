---------------------------- MODULE MCPriceTimeBook ----------------------------
(* Instance of PriceTimeBook for TLC.                                      *)
EXTENDS PriceTimeBook, TLC

CONSTANTS a, b, c

Symmetry == Permutations(OrderIds)
================================================================================
