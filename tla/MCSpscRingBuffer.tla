--------------------------- MODULE MCSpscRingBuffer ---------------------------
(* Instance of SpscRingBuffer for TLC: the .cfg files give the capacity,   *)
(* the width of the counters and the number of pushes.                     *)
EXTENDS SpscRingBuffer

(* Items are told apart only by equality.                                  *)
CONSTANTS a, b
================================================================================
