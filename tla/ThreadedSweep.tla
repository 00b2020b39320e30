--------------------------- MODULE ThreadedSweep ---------------------------
(***************************************************************************)
(* seq_read_threaded and seq_write_threaded (src/benchmarks/memory.rs:     *)
(* 116-185 and 201-271), which differ only in the kernel a worker runs on  *)
(* its slice.  The main thread spawns one worker per core, and three       *)
(* barriers (done_allocating, start_barrier, end_barrier) keep the workers *)
(* and the clock of the main thread in step.                               *)
(*                                                                         *)
(* `done' is loaded and stored Relaxed (lines 147, 174).  The store comes  *)
(* before the main thread's start_barrier.wait() and the load after the    *)
(* worker's, and the mutex inside the barrier orders the two, so the       *)
(* variable is modelled as one every thread sees at once.                  *)
(***************************************************************************)
EXTENDS Integers, FiniteSets

CONSTANTS
  NumCores,     \* core_ids.len(): what physical_core_ids() found
  BufferWords,  \* n, the words of the buffer (BUFFER_BYTES / 8)
  MaxPasses     \* bound: the passes the clock allows, warm-up and timed

ASSUME NumCoresAssumption == NumCores \in Nat
ASSUME BufferWordsAssumption == BufferWords \in Nat
ASSUME MaxPassesAssumption == MaxPasses \in Nat

Main == NumCores
Workers == 0 .. NumCores - 1
Threads == Workers \cup {Main}
Barriers == {"alloc", "start", "end"}

\* num_threads, with the .max(1) of line 119
NumThreads == IF NumCores > 1 THEN NumCores ELSE 1
SliceSize == BufferWords \div NumThreads

VARIABLES
  pc,       \* where each thread is
  blocked,  \* for each barrier, the threads waiting in it
  done,     \* the flag that stops the workers
  phase,    \* the loop of the main thread: warm-up, then timed
  spawned,  \* the workers spawned so far
  slice,    \* the words each worker owns
  warm,     \* history: passes of the warm-up loop
  iters,    \* passes of the timed loop
  swept     \* history: how often each worker has swept its slice

vars == <<pc, blocked, done, phase, spawned, slice, warm, iters, swept>>

\* Mutant: the last slice does not take the remainder.
MutSliceOf(idx) == SliceSize * idx .. SliceSize * idx + SliceSize - 1

\* The words [range_start, range_end_exclusive) of worker idx.
SliceOf(idx) ==
  LET first == SliceSize * idx
      end   == IF idx + 1 = NumThreads THEN BufferWords ELSE first + SliceSize
  IN  first .. end - 1

Init ==
  /\ pc = [t \in Threads |-> IF t = Main THEN "spawn" ELSE "unborn"]
  /\ blocked = [b \in Barriers |-> {}]
  /\ done = FALSE
  /\ phase = "warmup"
  /\ spawned = 0
  /\ slice = [w \in Workers |-> {}]
  /\ warm = 0
  /\ iters = 0
  /\ swept = [w \in Workers |-> 0]

-----------------------------------------------------------------------------
(* std::sync::Barrier::new(num_threads + 1): a thread that arrives as      *)
(* number num_threads + 1 empties the barrier and goes on; the others stay *)
(* blocked in it until then, and leave one by one.                         *)

\* Mutant: Barrier::new(num_threads), which forgets the main thread.
MutArrive(t, b) ==
  blocked' = [blocked EXCEPT ![b] =
                IF Cardinality(blocked[b]) + 1 < NumThreads
                  THEN blocked[b] \cup {t} ELSE {}]

Arrive(t, b) ==
  blocked' = [blocked EXCEPT ![b] =
                IF Cardinality(blocked[b]) < NumThreads
                  THEN blocked[b] \cup {t} ELSE {}]

Released(t, b) == t \notin blocked[b]

\* Thread t, at label `from', calls wait() on barrier b.
Wait(t, from, b, inside) ==
  /\ pc[t] = from
  /\ Arrive(t, b)
  /\ pc' = [pc EXCEPT ![t] = inside]
  /\ UNCHANGED <<done, phase, spawned, slice, warm, iters, swept>>

\* Thread t returns from the wait() it is in and goes on at label `to'.
Leave(t, inside, b, to) ==
  /\ pc[t] = inside
  /\ Released(t, b)
  /\ pc' = [pc EXCEPT ![t] = to]

-----------------------------------------------------------------------------
(* The worker thread.                                                      *)

WorkerAllocWait(w) == Wait(w, "alloc", "alloc", "inAlloc")

WorkerAllocLeave(w) ==
  /\ Leave(w, "inAlloc", "alloc", "start")
  /\ UNCHANGED <<blocked, done, phase, spawned, slice, warm, iters, swept>>

WorkerStartWait(w) == Wait(w, "start", "start", "inStart")

WorkerStartLeave(w) ==
  /\ Leave(w, "inStart", "start", "load")
  /\ UNCHANGED <<blocked, done, phase, spawned, slice, warm, iters, swept>>

WorkerLoad(w) ==
  /\ pc[w] = "load"
  /\ pc' = [pc EXCEPT ![w] = IF done THEN "returned" ELSE "sweep"]
  /\ UNCHANGED <<blocked, done, phase, spawned, slice, warm, iters, swept>>

WorkerSweep(w) ==
  /\ pc[w] = "sweep"
  /\ pc' = [pc EXCEPT ![w] = "end"]
  /\ swept' = [swept EXCEPT ![w] = @ + 1]
  /\ UNCHANGED <<blocked, done, phase, spawned, slice, warm, iters>>

WorkerEndWait(w) == Wait(w, "end", "end", "inEnd")

WorkerEndLeave(w) ==
  /\ Leave(w, "inEnd", "end", "start")
  /\ UNCHANGED <<blocked, done, phase, spawned, slice, warm, iters, swept>>

WorkerNext(w) ==
  \/ WorkerAllocWait(w) \/ WorkerAllocLeave(w)
  \/ WorkerStartWait(w) \/ WorkerStartLeave(w)
  \/ WorkerLoad(w) \/ WorkerSweep(w)
  \/ WorkerEndWait(w) \/ WorkerEndLeave(w)

-----------------------------------------------------------------------------
(* The main thread.                                                        *)

\* Mutant: the loop does not stop at the last core.
MutMainSpawn ==
  /\ pc[Main] = "spawn"
  /\ spawned <= NumCores
  /\ slice' = [slice EXCEPT ![spawned] = SliceOf(spawned)]
  /\ pc' = [pc EXCEPT ![spawned] = "alloc"]
  /\ spawned' = spawned + 1
  /\ UNCHANGED <<blocked, done, phase, warm, iters, swept>>

\* One turn of the for loop: the slice is allocated, then the thread spawned.
MainSpawn ==
  /\ pc[Main] = "spawn"
  /\ spawned < NumCores
  /\ slice' = [slice EXCEPT ![spawned] = SliceOf(spawned)]
  /\ pc' = [pc EXCEPT ![spawned] = "alloc"]
  /\ spawned' = spawned + 1
  /\ UNCHANGED <<blocked, done, phase, warm, iters, swept>>

MainSpawned ==
  /\ pc[Main] = "spawn"
  /\ spawned = NumCores
  /\ pc' = [pc EXCEPT ![Main] = "alloc"]
  /\ UNCHANGED <<blocked, done, phase, spawned, slice, warm, iters, swept>>

MainAllocWait == Wait(Main, "alloc", "alloc", "inAlloc")

MainAllocLeave ==
  /\ Leave(Main, "inAlloc", "alloc", "clock")
  /\ UNCHANGED <<blocked, done, phase, spawned, slice, warm, iters, swept>>

\* t.elapsed() is still below the limit of the loop.
ClockContinue ==
  /\ pc[Main] = "clock"
  /\ warm + iters < MaxPasses
  /\ pc' = [pc EXCEPT ![Main] = "start"]
  /\ UNCHANGED <<blocked, done, phase, spawned, slice, warm, iters, swept>>

\* The second of warm-up is over: t restarts and iters with it.
WarmupExpires ==
  /\ pc[Main] = "clock"
  /\ phase = "warmup"
  /\ phase' = "timed"
  /\ iters' = 0
  /\ UNCHANGED <<pc, blocked, done, spawned, slice, warm, swept>>

\* The ten timed seconds are over: `elapsed' is read here.
TimedExpires ==
  /\ pc[Main] = "clock"
  /\ phase = "timed"
  /\ pc' = [pc EXCEPT ![Main] = "stop"]
  /\ UNCHANGED <<blocked, done, phase, spawned, slice, warm, iters, swept>>

MainStartWait == Wait(Main, "start", "start", "inStart")

\* Mutant: the main thread goes back to the clock without end_barrier.wait().
MutMainStartLeave ==
  /\ Leave(Main, "inStart", "start", IF done THEN "reported" ELSE "clock")
  /\ UNCHANGED <<blocked, done, phase, spawned, slice, warm, iters, swept>>

\* Out of start_barrier: on to end_barrier, or to the result after the last.
MainStartLeave ==
  /\ Leave(Main, "inStart", "start", IF done THEN "reported" ELSE "end")
  /\ UNCHANGED <<blocked, done, phase, spawned, slice, warm, iters, swept>>

MainEndWait == Wait(Main, "end", "end", "inEnd")

MainEndLeave ==
  /\ Leave(Main, "inEnd", "end", "clock")
  /\ IF phase = "timed" THEN iters' = iters + 1 /\ UNCHANGED warm
                        ELSE warm' = warm + 1 /\ UNCHANGED iters
  /\ UNCHANGED <<blocked, done, phase, spawned, slice, swept>>

\* Mutant: the last start_barrier.wait() is missing.
MutMainStop ==
  /\ pc[Main] = "stop"
  /\ done' = TRUE
  /\ pc' = [pc EXCEPT ![Main] = "reported"]
  /\ UNCHANGED <<blocked, phase, spawned, slice, warm, iters, swept>>

MainStop ==
  /\ pc[Main] = "stop"
  /\ done' = TRUE
  /\ pc' = [pc EXCEPT ![Main] = "start"]
  /\ UNCHANGED <<blocked, phase, spawned, slice, warm, iters, swept>>

MainNext ==
  \/ MainSpawn \/ MainSpawned
  \/ MainAllocWait \/ MainAllocLeave
  \/ ClockContinue \/ WarmupExpires \/ TimedExpires
  \/ MainStartWait \/ MainStartLeave
  \/ MainEndWait \/ MainEndLeave \/ MainStop

-----------------------------------------------------------------------------
AllReturned ==
  /\ pc[Main] = "reported"
  /\ \A w \in Workers : pc[w] = "returned"

\* Every thread has ended: any other state without a step is a deadlock.
Finished == AllReturned /\ UNCHANGED vars

Next == MainNext \/ (\E w \in Workers : WorkerNext(w)) \/ Finished

\* The operating system runs every thread that can run, pinned or not.
Fairness == WF_vars(MainNext) /\ \A w \in Workers : WF_vars(WorkerNext(w))

Spec == Init /\ [][Next]_vars
FairSpec == Spec /\ Fairness

-----------------------------------------------------------------------------
(* Properties.                                                             *)

WorkerLabels == {"unborn", "alloc", "inAlloc", "start", "inStart",
                 "load", "sweep", "end", "inEnd", "returned"}
MainLabels == {"spawn", "alloc", "inAlloc", "clock", "start", "inStart",
               "end", "inEnd", "stop", "reported"}

\* Every variable keeps its type.
TypeOK ==
  /\ pc \in [Threads -> WorkerLabels \cup MainLabels]
  /\ pc[Main] \in MainLabels
  /\ \A w \in Workers : pc[w] \in WorkerLabels
  /\ blocked \in [Barriers -> SUBSET Threads]
  /\ done \in BOOLEAN
  /\ phase \in {"warmup", "timed"}
  /\ spawned \in Nat /\ spawned <= NumCores
  /\ slice \in [Workers -> SUBSET Nat]
  /\ warm \in Nat
  /\ iters \in Nat
  /\ swept \in [Workers -> Nat]

\* "Barriers keep passes in lockstep" (memory.rs:35): no worker is ever a
\* full pass ahead of another, or of the count the main thread keeps.
LockstepPasses ==
  /\ \A v, w \in Workers : swept[v] <= swept[w] + 1
  /\ \A w \in Workers : swept[w] \in {warm + iters, warm + iters + 1}

\* "wall time is one full parallel sweep" (memory.rs:35): whenever the main
\* thread reads the clock or stops, no worker is inside a sweep and each has
\* made exactly the passes counted, so elapsed covers whole passes only.
QuiescentClock ==
  pc[Main] \in {"clock", "stop"} =>
    \A w \in Workers :
      /\ pc[w] \notin {"load", "sweep", "end"}
      /\ swept[w] = warm + iters

\* What is reported is aggregate bandwidth over BUFFER_BYTES (line 178): once
\* workers are allocated, every word of the buffer is in exactly one slice.
SlicesPartition ==
  pc[Main] \notin {"spawn", "alloc"} /\ NumCores > 0 =>
    /\ UNION {slice[w] : w \in Workers} = 0 .. BufferWords - 1
    /\ \A v, w \in Workers : v # w => slice[v] \cap slice[w] = {}

\* After the flag is set no worker sweeps again: the last start_barrier turn
\* (line 175) releases the workers to return and not to one more pass.
NoSweepAfterStop == [][done => swept' = swept]_vars

\* The main thread gets its result and every worker returns, none of them left
\* in a barrier: nothing joins the workers, so nobody else would notice.
AllReturn == <>AllReturned

-----------------------------------------------------------------------------
(* The inductive invariant: at every moment the threads are in one of four *)
(* stages, and in each of them where a thread is, whether a barrier still  *)
(* holds it, and how often it has swept are known.                         *)

\* The threads that barrier b holds are those that are inside its wait().
HeldIn(b, inside) ==
  \A t \in Threads : t \in blocked[b] <=> pc[t] = inside

Allocating ==
  /\ pc[Main] \in {"spawn", "alloc", "inAlloc"}
  /\ pc[Main] # "spawn" => spawned = NumCores
  /\ HeldIn("alloc", "inAlloc")
  /\ blocked["start"] = {} /\ blocked["end"] = {}
  /\ ~done /\ warm = 0 /\ iters = 0
  /\ \A w \in Workers :
       /\ pc[w] \in IF w < spawned THEN {"alloc", "inAlloc"} ELSE {"unborn"}
       /\ swept[w] = 0

BetweenPasses ==
  /\ pc[Main] \in {"inAlloc", "clock", "stop", "start", "inStart", "inEnd"}
  /\ spawned = NumCores
  /\ HeldIn("start", "inStart")
  /\ blocked["alloc"] = {} /\ blocked["end"] = {}
  /\ done => pc[Main] \in {"start", "inStart"}
  /\ phase = "warmup" => iters = 0
  /\ \A w \in Workers :
       /\ pc[w] \in {"inAlloc", "inEnd", "start", "inStart"}
       /\ swept[w] = warm + iters + (IF pc[Main] = "inEnd" THEN 1 ELSE 0)

Sweeping ==
  /\ pc[Main] \in {"inStart", "end", "inEnd"}
  /\ spawned = NumCores
  /\ HeldIn("end", "inEnd")
  /\ blocked["alloc"] = {} /\ blocked["start"] = {}
  /\ ~done
  /\ phase = "warmup" => iters = 0
  /\ \A w \in Workers :
       /\ pc[w] \in {"inStart", "load", "sweep", "end", "inEnd"}
       /\ swept[w] = warm + iters
                       + (IF pc[w] \in {"end", "inEnd"} THEN 1 ELSE 0)

Stopping ==
  /\ pc[Main] \in {"inStart", "reported"}
  /\ spawned = NumCores
  /\ \A b \in Barriers : blocked[b] = {}
  /\ done
  /\ \A w \in Workers :
       /\ pc[w] \in {"inStart", "load", "returned"}
       /\ swept[w] = warm + iters

\* At every moment the benchmark is in one of its four stages; the lockstep
\* of the passes and the quiescence at the clock follow from it.
InOneStage == Allocating \/ BetweenPasses \/ Sweeping \/ Stopping

-----------------------------------------------------------------------------
(* The barriers implement the abstract passes.                             *)

InPass ==
  /\ ~done
  /\ \/ pc[Main] = "inStart" /\ Released(Main, "start")
     \/ pc[Main] \in {"end", "inEnd"}

AbstractStage ==
  IF done \/ pc[Main] = "stop" THEN "reported"
  ELSE IF InPass THEN "sweeping" ELSE "idle"

StillSweeping ==
  {w \in Workers : /\ InPass
                   /\ \/ pc[w] = "inStart" /\ Released(w, "start")
                      \/ pc[w] \in {"load", "sweep"}}

Abstract == INSTANCE ParallelSweep
  WITH stage <- AbstractStage, sweeping <- StillSweeping, passes <- warm + iters

\* The three barriers and the flag implement the passes that the comment of
\* memory.rs:32-36 describes.
ImplementsParallelSweep == Abstract!Spec
=============================================================================
