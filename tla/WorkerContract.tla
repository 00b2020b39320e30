--------------------------- MODULE WorkerContract ---------------------------
(***************************************************************************)
(* What the fleet scripts take a worker to be (machines/bench-gcp-fleet.sh *)
(* 5-7 and 22-32): one command for one machine that either adds the rows   *)
(* of its machine to data/dead.csv, once, or fails and adds none.          *)
(***************************************************************************)
CONSTANT Workers

VARIABLES
  result,   \* what became of each worker
  merged    \* the workers whose rows are in data/dead.csv

vars == <<result, merged>>

Init ==
  /\ result = [w \in Workers |-> "working"]
  /\ merged = {}

Succeed(w) ==
  /\ result[w] = "working"
  /\ result' = [result EXCEPT ![w] = "ok"]
  /\ merged' = merged \cup {w}

Fail(w) ==
  /\ result[w] = "working"
  /\ result' = [result EXCEPT ![w] = "failed"]
  /\ UNCHANGED merged

Next == \E w \in Workers : Succeed(w) \/ Fail(w)

Spec == Init /\ [][Next]_vars
=============================================================================
