--------------------------- MODULE MCBenchWorker ---------------------------
(***************************************************************************)
(* BenchWorker for TLC: two workers, each with a VM name of its own (one   *)
(* machine type per family), as two panes of GCP or as one of each cloud.  *)
(***************************************************************************)
EXTENDS BenchWorker

CONSTANTS w1, w2

MCWorkers == {w1, w2}
MCName == [w \in MCWorkers |-> w]

Panes == [w \in MCWorkers |-> "gcp"]
OneOfEach == [w \in MCWorkers |-> IF w = w1 THEN "gcp" ELSE "aws"]

\* Failing commands, lost answers and teardowns, with merges that go through;
\* interruption and merges cut off; killed workers; creations that nobody gets
\* an answer from; and a lock that cannot be made.
MCSettings ==
  {[cloud |-> Panes,
    faults |-> {"setup", "reject", "lost", "step", "delete"}],
   [cloud |-> OneOfEach,
    faults |-> {"setup", "reject", "lost", "step", "delete"}],
   [cloud |-> OneOfEach,
    faults |-> {"setup", "reject", "step", "append", "unlock", "interrupt"}],
   [cloud |-> OneOfEach,
    faults |-> {"step", "delete", "interrupt", "kill"}],
   [cloud |-> OneOfEach, faults |-> {"lost", "interrupt"}],
   [cloud |-> Panes, faults |-> {"mkdir", "kill"}]}

TailFails == {[cloud |-> Panes, faults |-> {"append"}]}
=============================================================================
