---------------------------- MODULE MCSlabAllocator ----------------------------
(* Instance of SlabAllocator for TLC.                                      *)
EXTENDS SlabAllocator

CONSTANTS x, y
================================================================================
