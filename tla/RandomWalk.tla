----------------------------- MODULE RandomWalk -----------------------------
(***************************************************************************)
(* The random walks through memory.  Both programs shuffle the indices of  *)
(* their entries.  The probe memory_random (src/bin/latency.rs:294-335)    *)
(* then links them into a chain, and each load gives the entry of the next *)
(* one.  random_read and random_write (src/benchmarks/memory.rs:284-351)   *)
(* keep the shuffled indices, and each pass takes them one by one.         *)
(*                                                                         *)
(* Every draw of the shuffles is arbitrary here: the xorshift64 of the     *)
(* probe, with its fixed seed, and the generator of the rand crate make    *)
(* one choice each.                                                        *)
(***************************************************************************)
EXTENDS Integers, Sequences

CONSTANT Sizes   \* the numbers of entries, none of them 0

VARIABLES
  stage,   \* building the walk, or walking by the chain or by the order
  n,       \* the entries
  pages,   \* their indices, being shuffled, then in shuffled order
  left,    \* the swap the shuffle makes next; 0 when there is none
  linked,  \* the links made so far
  next,    \* the chain
  index,   \* where the probe is
  trail    \* history: the entries visited in this round

vars == <<stage, n, pages, left, linked, next, index, trail>>

Entries == 0 .. n - 1

Init ==
  /\ stage = "none"
  /\ n = 0
  /\ pages = <<>>
  /\ left = 0
  /\ linked = 0
  /\ next = <<>>
  /\ index = 0
  /\ trail = <<>>

\* (0..entries).collect()
New(entries) ==
  /\ stage = "none"
  /\ entries \in Sizes
  /\ stage' = "shuffle"
  /\ n' = entries
  /\ pages' = [e \in 0 .. entries - 1 |-> e]
  /\ left' = entries - 1
  /\ UNCHANGED <<linked, next, index, trail>>

\* values.swap(i, state % (i + 1))
Swap ==
  /\ stage = "shuffle" /\ left > 0
  /\ \E j \in 0 .. left :
       pages' = [pages EXCEPT ![left] = pages[j], ![j] = pages[left]]
  /\ left' = left - 1
  /\ UNCHANGED <<stage, n, linked, next, index, trail>>

Shuffled == stage = "shuffle" /\ left = 0

\* vec![0usize; entries], of a probe that has at least two.
StartLinks ==
  /\ Shuffled /\ n >= 2
  /\ stage' = "link"
  /\ next' = [e \in Entries |-> 0]
  /\ UNCHANGED <<n, pages, left, linked, index, trail>>

\* One of pages.windows(2).
Link ==
  /\ stage = "link" /\ linked < n - 1
  /\ next' = [next EXCEPT ![pages[linked]] = pages[linked + 1]]
  /\ linked' = linked + 1
  /\ UNCHANGED <<stage, n, pages, left, index, trail>>

\* Mutant: the last entry is not linked back to the first.
MutCloseChain ==
  /\ stage = "link" /\ linked = n - 1
  /\ linked' = n
  /\ index' = pages[0]
  /\ stage' = "chase"
  /\ UNCHANGED <<n, pages, left, next, trail>>

\* The last entry leads back to the first, where the probe starts.
CloseChain ==
  /\ stage = "link" /\ linked = n - 1
  /\ next' = [next EXCEPT ![pages[n - 1]] = pages[0]]
  /\ linked' = n
  /\ index' = pages[0]
  /\ stage' = "chase"
  /\ UNCHANGED <<n, pages, left, trail>>

\* The history starts again when as many entries were visited as there are.
Visit(e) == trail' = IF Len(trail) = n THEN <<e>> ELSE Append(trail, e)

\* run_once of the probe.
Chase ==
  /\ stage = "chase"
  /\ index' = next[index]
  /\ Visit(next[index])
  /\ UNCHANGED <<stage, n, pages, left, linked, next>>

\* The benchmarks walk by the order itself.
KeepOrder ==
  /\ Shuffled
  /\ stage' = "scan"
  /\ UNCHANGED <<n, pages, left, linked, next, index, trail>>

\* One access of a pass; a pass that is over is followed by another.
Access ==
  /\ stage = "scan"
  /\ Visit(pages[IF Len(trail) = n THEN 0 ELSE Len(trail)])
  /\ UNCHANGED <<stage, n, pages, left, linked, next, index>>

Build == Swap \/ StartLinks \/ Link \/ CloseChain

Benchmark == Swap \/ KeepOrder \/ Access

Next == (\E entries \in Sizes : New(entries)) \/ Build \/ Chase \/ Benchmark

Spec == Init /\ [][Next]_vars

-----------------------------------------------------------------------------
(* Properties.                                                             *)

\* Every variable keeps its type.
TypeOK ==
  /\ stage \in {"none", "shuffle", "link", "chase", "scan"}
  /\ n \in Nat
  /\ pages \in [Entries -> Entries]
  /\ left \in 0 .. n
  /\ linked \in 0 .. n
  /\ IF stage \in {"link", "chase"} THEN next \in [Entries -> Entries]
                                     ELSE next = <<>>
  /\ index \in Nat /\ (stage = "chase" => index \in Entries)
  /\ trail \in Seq(Entries) /\ Len(trail) <= n

\* "Access order is randomized once; each pass touches every line exactly
\* once" (memory.rs:277): no entry is visited again before all the others
\* were, whatever the shuffle.  For the probe this says that its chain is one
\* cycle: with a shorter one its loads would come from a cache, however large
\* the --size it was given.
EachPassOnce ==
  /\ \A j, k \in DOMAIN trail : trail[j] = trail[k] => j = k
  /\ Len(trail) = n => \A e \in Entries : \E k \in DOMAIN trail : trail[k] = e
=============================================================================
