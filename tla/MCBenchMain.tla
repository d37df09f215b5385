------------------------------ MODULE MCBenchMain ------------------------------
(* Instance of BenchMain for TLC: the .cfg file gives the numbers of       *)
(* iterations and the cores.                                               *)
EXTENDS BenchMain
================================================================================
