--------------------------- MODULE ParallelSweep ---------------------------
(***************************************************************************)
(* What the comment above the threaded memory benchmarks promises          *)
(* (src/benchmarks/memory.rs:32-36): the buffer is swept in passes; in a   *)
(* pass every worker sweeps its slice once, no worker starts the next pass *)
(* before all have ended this one, and the measurement is taken between    *)
(* two passes, over whole passes only.                                     *)
(***************************************************************************)
EXTENDS Naturals

CONSTANT Workers        \* the pinned threads

VARIABLES
  stage,      \* between passes, in a pass, or measured
  sweeping,   \* the workers that have not finished their slice in this pass
  passes      \* the passes completed

vars == <<stage, sweeping, passes>>

Init ==
  /\ stage = "idle"
  /\ sweeping = {}
  /\ passes = 0

Begin ==
  /\ stage = "idle"
  /\ stage' = "sweeping"
  /\ sweeping' = Workers
  /\ UNCHANGED passes

Scan(w) ==
  /\ w \in sweeping
  /\ sweeping' = sweeping \ {w}
  /\ UNCHANGED <<stage, passes>>

\* A pass ends only when no worker is still in it.
End ==
  /\ stage = "sweeping"
  /\ sweeping = {}
  /\ stage' = "idle"
  /\ passes' = passes + 1
  /\ UNCHANGED sweeping

Report ==
  /\ stage = "idle"
  /\ stage' = "reported"
  /\ UNCHANGED <<sweeping, passes>>

Next == Begin \/ End \/ Report \/ \E w \in Workers : Scan(w)

Spec == Init /\ [][Next]_vars
=============================================================================
