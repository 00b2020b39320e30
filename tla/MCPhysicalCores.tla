-------------------------- MODULE MCPhysicalCores --------------------------
(***************************************************************************)
(* PhysicalCores for TLC: four cpus as two cores with adjacent siblings,   *)
(* two cores with interleaved siblings (the numbering of most x86 servers) *)
(* and four cores without hyper-threading.                                 *)
(***************************************************************************)
EXTENDS PhysicalCores

MCCores == {{{0, 1}, {2, 3}}, {{0, 2}, {1, 3}}, {{0}, {1}, {2}, {3}}}
=============================================================================
