----------------------------- MODULE MCNetProbe -----------------------------
(***************************************************************************)
(* NetProbe for TLC: two machine types, so that a fleet goes on after a    *)
(* pair and ends at one that fails.  The faults a trap makes up for can    *)
(* happen in all behaviours; those it cannot, in every combination.        *)
(***************************************************************************)
EXTENDS NetProbe

CONSTANTS c4, c4d

MCTypes == <<c4, c4d>>

\* The limits of the two wait_ssh loops.
MCSshTries == [gcp |-> 36, aws |-> 48]

MCFaultSets ==
  {{"setup", "create", "ssh", "apt", "step", "interrupt"} \cup harder :
     harder \in SUBSET {"lost", "delete", "kill"}}

NoFaults == {{}}
=============================================================================
