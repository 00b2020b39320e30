-------------------------- MODULE MCThreadedSweep --------------------------
(***************************************************************************)
(* ThreadedSweep for TLC.  Three cores make the smallest instance in which *)
(* two workers can be apart while a third is elsewhere; eight words do not *)
(* divide by three, so the last slice is longer than the others.           *)
(***************************************************************************)
EXTENDS ThreadedSweep
=============================================================================
