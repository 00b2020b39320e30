----------------------- MODULE ThreadedSweep_proofs -----------------------
(***************************************************************************)
(* Proofs about ThreadedSweep, for every number of cores.  The argument:   *)
(* a barrier lets its threads go only when all of them are in it           *)
(* (LastArrival), so a thread that arrives last finds every other thread   *)
(* inside the same wait(), and the system moves from one stage of          *)
(* InOneStage to the next as a whole.                                      *)
(***************************************************************************)
EXTENDS ThreadedSweep, FiniteSetTheorems, TLAPS

\* There are NumCores workers and one main thread.
LEMMA ThreadCount ==
  /\ IsFiniteSet(Threads)
  /\ Cardinality(Threads) = NumCores + 1
  /\ Main \notin Workers
<1> USE NumCoresAssumption
<1>1. Main \notin Workers
  BY DEF Main, Workers
<1>2. /\ IsFiniteSet(Workers)
      /\ Cardinality(Workers) = NumCores
  <2>1. /\ IsFiniteSet(0 .. NumCores - 1)
        /\ Cardinality(0 .. NumCores - 1) =
             IF 0 > NumCores - 1 THEN 0 ELSE (NumCores - 1) - 0 + 1
    BY FS_Interval
  <2> QED BY <2>1 DEF Workers
<1>3. /\ IsFiniteSet(Threads)
      /\ Cardinality(Threads) = NumCores + 1
  BY <1>1, <1>2, FS_AddElement DEF Threads
<1> QED BY <1>1, <1>3

\* A thread that finds as many threads in the barrier as wait() wants to see
\* before it opens finds all the others: Barrier::new(num_threads + 1).
LEMMA LastArrival ==
  ASSUME NEW t \in Threads, NEW S \in SUBSET Threads, t \notin S,
         ~(Cardinality(S) < NumThreads)
  PROVE  S = Threads \ {t}
<1> USE NumCoresAssumption
<1> DEFINE Others == Threads \ {t}
<1>1. /\ IsFiniteSet(Others)
      /\ Cardinality(Others) = NumCores
  <2>1. /\ IsFiniteSet(Threads \ {t})
        /\ Cardinality(Threads \ {t}) =
             IF t \in Threads THEN Cardinality(Threads) - 1
                              ELSE Cardinality(Threads)
    BY ThreadCount, FS_RemoveElement
  <2> QED BY <2>1, ThreadCount
<1>2. S \subseteq Others
  OBVIOUS
<1>3. IsFiniteSet(S) /\ Cardinality(S) <= Cardinality(Others)
  BY <1>1, <1>2, FS_Subset
<1>4. Cardinality(S) = Cardinality(Others)
  <2>1. Cardinality(S) \in Nat
    BY <1>3, FS_CardinalityType
  <2>2. NumThreads \in Nat /\ NumThreads >= NumCores
    BY DEF NumThreads
  <2> QED BY <1>1, <1>3, <2>1, <2>2
<1> QED BY <1>1, <1>2, <1>4, FS_Subset

-----------------------------------------------------------------------------
(* Type correctness.                                                       *)

LEMMA InitType == Init => TypeOK
<1> SUFFICES ASSUME Init PROVE TypeOK
  OBVIOUS
<1>1. /\ pc \in [Threads -> WorkerLabels \cup MainLabels]
      /\ pc[Main] \in MainLabels
      /\ \A w \in Workers : pc[w] \in WorkerLabels
  BY ThreadCount DEF Init, Threads, WorkerLabels, MainLabels
<1>2. blocked \in [Barriers -> SUBSET Threads]
  BY DEF Init
<1>3. spawned \in Nat /\ spawned <= NumCores
  BY NumCoresAssumption DEF Init
<1>4. /\ slice \in [Workers -> SUBSET Nat]
      /\ swept \in [Workers -> Nat]
  BY DEF Init
<1> QED BY <1>1, <1>2, <1>3, <1>4 DEF Init, TypeOK

\* A call of wait() keeps the types.
LEMMA WaitType ==
  ASSUME TypeOK, NEW t \in Threads, NEW b \in Barriers,
         NEW from, NEW inside, Wait(t, from, b, inside),
         inside \in {"inAlloc", "inStart", "inEnd"}
  PROVE  TypeOK'
<1>1. blocked' \in [Barriers -> SUBSET Threads]
  BY DEF Wait, Arrive, TypeOK
<1>2. /\ pc' \in [Threads -> WorkerLabels \cup MainLabels]
      /\ pc'[Main] \in MainLabels
      /\ \A w \in Workers : pc'[w] \in WorkerLabels
  BY DEF Wait, TypeOK, Threads, WorkerLabels, MainLabels
<1> QED BY <1>1, <1>2 DEF Wait, TypeOK

LEMMA WorkerType ==
  ASSUME TypeOK, NEW w \in Workers, WorkerNext(w)
  PROVE  TypeOK'
<1>1. w \in Threads /\ w # Main
  BY ThreadCount DEF Threads
<1>2. CASE WorkerAllocWait(w)
  BY <1>1, <1>2, WaitType DEF WorkerAllocWait, Barriers
<1>3. CASE WorkerStartWait(w)
  BY <1>1, <1>3, WaitType DEF WorkerStartWait, Barriers
<1>4. CASE WorkerEndWait(w)
  BY <1>1, <1>4, WaitType DEF WorkerEndWait, Barriers
<1>5. CASE WorkerAllocLeave(w)
  BY <1>1, <1>5 DEF WorkerAllocLeave, Leave, TypeOK, WorkerLabels
<1>6. CASE WorkerStartLeave(w)
  BY <1>1, <1>6 DEF WorkerStartLeave, Leave, TypeOK, WorkerLabels
<1>7. CASE WorkerEndLeave(w)
  BY <1>1, <1>7 DEF WorkerEndLeave, Leave, TypeOK, WorkerLabels
<1>8. CASE WorkerLoad(w)
  BY <1>1, <1>8 DEF WorkerLoad, TypeOK, WorkerLabels
<1>9. CASE WorkerSweep(w)
  BY <1>1, <1>9 DEF WorkerSweep, TypeOK, WorkerLabels
<1> QED BY <1>2, <1>3, <1>4, <1>5, <1>6, <1>7, <1>8, <1>9 DEF WorkerNext

LEMMA MainType ==
  ASSUME TypeOK, MainNext
  PROVE  TypeOK'
<1> USE NumCoresAssumption
<1>1. Main \in Threads /\ Main \notin Workers
  BY ThreadCount DEF Threads
<1>2. CASE MainSpawn
  <2>1. spawned \in Workers
    BY <1>2 DEF MainSpawn, TypeOK, Workers
  <2>2. SliceOf(spawned) \in SUBSET Nat
    <3>1. NumThreads \in Nat \ {0} /\ BufferWords \in Nat
      BY BufferWordsAssumption DEF NumThreads
    <3>2. SliceSize \in Nat
      BY <3>1 DEF SliceSize
    <3>3. SliceSize * spawned \in Nat
      BY <3>2, <2>1 DEF Workers
    <3> QED BY <3>1, <3>2, <3>3 DEF SliceOf
  <2>3. slice' \in [Workers -> SUBSET Nat]
    BY <1>2, <2>1, <2>2 DEF MainSpawn, TypeOK
  <2>4. spawned' \in Nat /\ spawned' <= NumCores
    BY <1>2 DEF MainSpawn, TypeOK
  <2>5. /\ pc' \in [Threads -> WorkerLabels \cup MainLabels]
        /\ pc'[Main] \in MainLabels
        /\ \A w \in Workers : pc'[w] \in WorkerLabels
    BY <1>1, <1>2, <2>1 DEF MainSpawn, TypeOK, Threads, WorkerLabels
  <2> QED BY <1>2, <2>3, <2>4, <2>5 DEF MainSpawn, TypeOK
<1>3. CASE MainAllocWait
  BY <1>1, <1>3, WaitType DEF MainAllocWait, Barriers
<1>4. CASE MainStartWait
  BY <1>1, <1>4, WaitType DEF MainStartWait, Barriers
<1>5. CASE MainEndWait
  BY <1>1, <1>5, WaitType DEF MainEndWait, Barriers
<1>6. CASE MainSpawned
  BY <1>1, <1>6 DEF MainSpawned, TypeOK, MainLabels
<1>7. CASE MainAllocLeave
  BY <1>1, <1>7 DEF MainAllocLeave, Leave, TypeOK, MainLabels
<1>8. CASE ClockContinue
  BY <1>1, <1>8 DEF ClockContinue, TypeOK, MainLabels
<1>9. CASE WarmupExpires
  BY <1>1, <1>9 DEF WarmupExpires, TypeOK, MainLabels
<1>10. CASE TimedExpires
  BY <1>1, <1>10 DEF TimedExpires, TypeOK, MainLabels
<1>11. CASE MainStartLeave
  BY <1>1, <1>11 DEF MainStartLeave, Leave, TypeOK, MainLabels
<1>12. CASE MainEndLeave
  BY <1>1, <1>12 DEF MainEndLeave, Leave, TypeOK, MainLabels
<1>13. CASE MainStop
  BY <1>1, <1>13 DEF MainStop, TypeOK, MainLabels
<1> QED
  BY <1>2, <1>3, <1>4, <1>5, <1>6, <1>7, <1>8, <1>9, <1>10, <1>11, <1>12,
     <1>13 DEF MainNext

\* Every step keeps every variable in its type.
THEOREM TypeCorrect == Spec => []TypeOK
<1>1. Init => TypeOK
  BY InitType
<1>2. TypeOK /\ [Next]_vars => TypeOK'
  <2> SUFFICES ASSUME TypeOK, [Next]_vars PROVE TypeOK'
    OBVIOUS
  <2>1. CASE MainNext
    BY <2>1, MainType
  <2>2. CASE \E w \in Workers : WorkerNext(w)
    BY <2>2, WorkerType
  <2>3. CASE UNCHANGED vars
    BY <2>3 DEF vars, TypeOK
  <2> QED BY <2>1, <2>2, <2>3 DEF Next, Finished
<1> QED BY <1>1, <1>2, PTL DEF Spec

-----------------------------------------------------------------------------
(* The stages.                                                             *)

\* What a call of wait() does to the barriers: the caller joins the threads
\* held, or all others are already held and the barrier lets everyone go.
LEMMA ArriveEffect ==
  ASSUME TypeOK, NEW t \in Threads, NEW b \in Barriers,
         t \notin blocked[b], Arrive(t, b)
  PROVE  /\ \A c \in Barriers : c # b => blocked'[c] = blocked[c]
         /\ \/ blocked'[b] = blocked[b] \cup {t}
            \/ blocked[b] = Threads \ {t} /\ blocked'[b] = {}
<1>1. blocked \in [Barriers -> SUBSET Threads]
  BY DEF TypeOK
<1>2. CASE Cardinality(blocked[b]) < NumThreads
  BY <1>1, <1>2 DEF Arrive
<1>3. CASE ~(Cardinality(blocked[b]) < NumThreads)
  <2>1. blocked[b] = Threads \ {t}
    BY <1>1, <1>3, LastArrival
  <2> QED BY <1>1, <1>3, <2>1 DEF Arrive
<1> QED BY <1>2, <1>3

LEMMA InitStage == Init => InOneStage
<1> USE NumCoresAssumption
<1> SUFFICES ASSUME Init PROVE Allocating
  BY DEF InOneStage
<1>1. HeldIn("alloc", "inAlloc")
  BY DEF Init, HeldIn, Barriers
<1>2. pc[Main] = "spawn" /\ \A w \in Workers : pc[w] = "unborn"
  BY ThreadCount DEF Init, Threads
<1> QED BY <1>1, <1>2 DEF Init, Allocating, Barriers, Workers

\* A thread waits on done_allocating: the last one opens it.
LEMMA AllocWaitStage ==
  ASSUME TypeOK, InOneStage, NEW t \in Threads,
         Wait(t, "alloc", "alloc", "inAlloc")
  PROVE  InOneStage'
<1> USE ThreadCount DEF Barriers
<1>1. Allocating
  BY DEF Wait, InOneStage, BetweenPasses, Sweeping, Stopping, Threads
<1>2. pc' = [pc EXCEPT ![t] = "inAlloc"] /\ pc[t] = "alloc"
  BY DEF Wait
<1>3. /\ blocked'["start"] = {} /\ blocked'["end"] = {}
      /\ \/ blocked'["alloc"] = blocked["alloc"] \cup {t}
         \/ blocked["alloc"] = Threads \ {t} /\ blocked'["alloc"] = {}
  <2>1. t \notin blocked["alloc"]
    BY <1>1, <1>2 DEF Allocating, HeldIn
  <2> QED BY <1>1, <2>1, ArriveEffect DEF Wait, Allocating
<1>4. CASE blocked'["alloc"] = blocked["alloc"] \cup {t}
  <2>1. HeldIn("alloc", "inAlloc")'
    BY <1>1, <1>2, <1>4 DEF Allocating, HeldIn, TypeOK
  <2>2. Allocating'
    BY <1>1, <1>2, <1>3, <2>1 DEF Allocating, TypeOK, Wait, Threads, Main
  <2> QED BY <2>2 DEF InOneStage
<1>5. CASE blocked["alloc"] = Threads \ {t} /\ blocked'["alloc"] = {}
  <2>1. \A u \in Threads : pc'[u] = "inAlloc"
    BY <1>1, <1>2, <1>5 DEF Allocating, HeldIn, TypeOK
  <2>2. HeldIn("start", "inStart")'
    BY <1>3, <2>1 DEF HeldIn
  <2>3. pc[Main] # "spawn"
    BY <1>1, <1>2, <1>5 DEF Allocating, HeldIn, Threads
  <2>4. BetweenPasses'
    BY <1>1, <1>3, <1>5, <2>1, <2>2, <2>3
    DEF Allocating, BetweenPasses, TypeOK, Wait, Threads
  <2> QED BY <2>4 DEF InOneStage
<1> QED BY <1>3, <1>4, <1>5

\* A thread waits on start_barrier: the last one opens the next pass, or lets
\* everyone go to the end when the flag is up.
LEMMA StartWaitStage ==
  ASSUME TypeOK, InOneStage, NEW t \in Threads,
         Wait(t, "start", "start", "inStart")
  PROVE  InOneStage'
<1> USE ThreadCount DEF Barriers
<1>1. BetweenPasses
  BY DEF Wait, InOneStage, Allocating, Sweeping, Stopping, Threads
<1>2. pc' = [pc EXCEPT ![t] = "inStart"] /\ pc[t] = "start"
  BY DEF Wait
<1>3. /\ blocked'["alloc"] = {} /\ blocked'["end"] = {}
      /\ \/ blocked'["start"] = blocked["start"] \cup {t}
         \/ blocked["start"] = Threads \ {t} /\ blocked'["start"] = {}
  <2>1. t \notin blocked["start"]
    BY <1>1, <1>2 DEF BetweenPasses, HeldIn
  <2> QED BY <1>1, <2>1, ArriveEffect DEF Wait, BetweenPasses
<1>4. CASE blocked'["start"] = blocked["start"] \cup {t}
  <2>1. HeldIn("start", "inStart")'
    BY <1>1, <1>2, <1>4 DEF BetweenPasses, HeldIn, TypeOK
  <2>2. BetweenPasses'
    BY <1>1, <1>2, <1>3, <2>1 DEF BetweenPasses, TypeOK, Wait, Threads
  <2> QED BY <2>2 DEF InOneStage
<1>5. CASE blocked["start"] = Threads \ {t} /\ blocked'["start"] = {}
  <2>1. \A u \in Threads : pc'[u] = "inStart"
    BY <1>1, <1>2, <1>5 DEF BetweenPasses, HeldIn, TypeOK
  <2>2. pc[Main] # "inEnd"
    BY <1>1, <1>2, <1>5 DEF BetweenPasses, HeldIn, Threads
  <2>3. \A w \in Workers : swept'[w] = warm' + iters'
    BY <1>1, <2>2 DEF BetweenPasses, Wait, TypeOK
  <2>4. CASE done
    <3>1. Stopping'
      BY <1>1, <1>3, <1>5, <2>1, <2>3, <2>4
      DEF BetweenPasses, Stopping, TypeOK, Wait, Threads
    <3> QED BY <3>1 DEF InOneStage
  <2>5. CASE ~done
    <3>1. HeldIn("end", "inEnd")'
      BY <1>3, <2>1 DEF HeldIn
    <3>2. Sweeping'
      BY <1>1, <1>3, <1>5, <2>1, <2>3, <2>5, <3>1
      DEF BetweenPasses, Sweeping, TypeOK, Wait, Threads
    <3> QED BY <3>2 DEF InOneStage
  <2> QED BY <2>4, <2>5
<1> QED BY <1>3, <1>4, <1>5

\* A thread waits on end_barrier: the last one ends the pass.
LEMMA EndWaitStage ==
  ASSUME TypeOK, InOneStage, NEW t \in Threads,
         Wait(t, "end", "end", "inEnd")
  PROVE  InOneStage'
<1> USE ThreadCount DEF Barriers
<1>1. Sweeping
  BY DEF Wait, InOneStage, Allocating, BetweenPasses, Stopping, Threads
<1>2. pc' = [pc EXCEPT ![t] = "inEnd"] /\ pc[t] = "end"
  BY DEF Wait
<1>3. /\ blocked'["alloc"] = {} /\ blocked'["start"] = {}
      /\ \/ blocked'["end"] = blocked["end"] \cup {t}
         \/ blocked["end"] = Threads \ {t} /\ blocked'["end"] = {}
  <2>1. t \notin blocked["end"]
    BY <1>1, <1>2 DEF Sweeping, HeldIn
  <2> QED BY <1>1, <2>1, ArriveEffect DEF Wait, Sweeping
<1>4. CASE blocked'["end"] = blocked["end"] \cup {t}
  <2>1. HeldIn("end", "inEnd")'
    BY <1>1, <1>2, <1>4 DEF Sweeping, HeldIn, TypeOK
  <2>2. Sweeping'
    BY <1>1, <1>2, <1>3, <2>1 DEF Sweeping, TypeOK, Wait, Threads
  <2> QED BY <2>2 DEF InOneStage
<1>5. CASE blocked["end"] = Threads \ {t} /\ blocked'["end"] = {}
  <2>1. \A u \in Threads : pc'[u] = "inEnd"
    BY <1>1, <1>2, <1>5 DEF Sweeping, HeldIn, TypeOK
  <2>2. \A w \in Workers : swept'[w] = warm' + iters' + 1
    BY <1>1, <1>2, <1>5 DEF Sweeping, HeldIn, Wait, TypeOK, Threads
  <2>3. HeldIn("start", "inStart")'
    BY <1>3, <2>1 DEF HeldIn
  <2>4. BetweenPasses'
    BY <1>1, <1>3, <1>5, <2>1, <2>2, <2>3
    DEF Sweeping, BetweenPasses, TypeOK, Wait, Threads
  <2> QED BY <2>4 DEF InOneStage
<1> QED BY <1>3, <1>4, <1>5

LEMMA WorkerStage ==
  ASSUME TypeOK, InOneStage, NEW w \in Workers, WorkerNext(w)
  PROVE  InOneStage'
<1> USE ThreadCount DEF Barriers
<1>0. w \in Threads /\ w # Main /\ Main \in Threads
  BY DEF Threads
<1>1. CASE WorkerAllocWait(w)
  BY <1>0, <1>1, AllocWaitStage DEF WorkerAllocWait
<1>2. CASE WorkerStartWait(w)
  BY <1>0, <1>2, StartWaitStage DEF WorkerStartWait
<1>3. CASE WorkerEndWait(w)
  BY <1>0, <1>3, EndWaitStage DEF WorkerEndWait
<1>4. CASE WorkerAllocLeave(w) \/ WorkerEndLeave(w)
  <2>1. /\ pc[w] \in {"inAlloc", "inEnd"}
        /\ pc' = [pc EXCEPT ![w] = "start"]
        /\ UNCHANGED <<blocked, done, phase, spawned, warm, iters, swept>>
    BY <1>4 DEF WorkerAllocLeave, WorkerEndLeave, Leave
  <2>2. BetweenPasses
    BY <1>0, <1>4 DEF WorkerAllocLeave, WorkerEndLeave, Leave, Released,
       InOneStage, Allocating, Sweeping, Stopping, HeldIn
  <2>3. HeldIn("start", "inStart")'
    BY <1>0, <2>1, <2>2 DEF BetweenPasses, HeldIn, TypeOK
  <2>4. BetweenPasses'
    BY <1>0, <2>1, <2>2, <2>3 DEF BetweenPasses, TypeOK, Threads
  <2> QED BY <2>4 DEF InOneStage
<1>5. CASE WorkerStartLeave(w)
  <2>1. ~Allocating /\ ~BetweenPasses
    BY <1>0, <1>5 DEF WorkerStartLeave, Leave, Released,
       Allocating, BetweenPasses, HeldIn
  <2>2. CASE Sweeping
    <3>1. HeldIn("end", "inEnd")'
      BY <1>0, <1>5, <2>2 DEF WorkerStartLeave, Leave, Sweeping, HeldIn, TypeOK
    <3>2. Sweeping'
      BY <1>0, <1>5, <2>2, <3>1
      DEF WorkerStartLeave, Leave, Sweeping, TypeOK, Threads
    <3> QED BY <3>2 DEF InOneStage
  <2>3. CASE Stopping
    <3>1. Stopping'
      BY <1>0, <1>5, <2>3
      DEF WorkerStartLeave, Leave, Stopping, TypeOK, Threads
    <3> QED BY <3>1 DEF InOneStage
  <2> QED BY <2>1, <2>2, <2>3 DEF InOneStage
<1>6. CASE WorkerLoad(w)
  <2>1. ~Allocating /\ ~BetweenPasses
    BY <1>6 DEF WorkerLoad, Allocating, BetweenPasses
  <2>2. CASE Sweeping
    <3>1. HeldIn("end", "inEnd")'
      BY <1>0, <1>6, <2>2 DEF WorkerLoad, Sweeping, HeldIn, TypeOK
    <3>2. Sweeping'
      BY <1>0, <1>6, <2>2, <3>1 DEF WorkerLoad, Sweeping, TypeOK, Threads
    <3> QED BY <3>2 DEF InOneStage
  <2>3. CASE Stopping
    <3>1. Stopping'
      BY <1>0, <1>6, <2>3 DEF WorkerLoad, Stopping, TypeOK, Threads
    <3> QED BY <3>1 DEF InOneStage
  <2> QED BY <2>1, <2>2, <2>3 DEF InOneStage
<1>7. CASE WorkerSweep(w)
  <2>1. Sweeping
    BY <1>7 DEF WorkerSweep, InOneStage, Allocating, BetweenPasses, Stopping
  <2>2. HeldIn("end", "inEnd")'
    BY <1>0, <1>7, <2>1 DEF WorkerSweep, Sweeping, HeldIn, TypeOK
  <2>3. Sweeping'
    BY <1>0, <1>7, <2>1, <2>2 DEF WorkerSweep, Sweeping, TypeOK, Threads
  <2> QED BY <2>3 DEF InOneStage
<1> QED
  BY <1>1, <1>2, <1>3, <1>4, <1>5, <1>6, <1>7 DEF WorkerNext

LEMMA MainStage ==
  ASSUME TypeOK, InOneStage, MainNext
  PROVE  InOneStage'
<1> USE ThreadCount, NumCoresAssumption DEF Barriers
<1>0. Main \in Threads
  BY DEF Threads
<1>1. CASE MainAllocWait
  BY <1>0, <1>1, AllocWaitStage DEF MainAllocWait
<1>2. CASE MainStartWait
  BY <1>0, <1>2, StartWaitStage DEF MainStartWait
<1>3. CASE MainEndWait
  BY <1>0, <1>3, EndWaitStage DEF MainEndWait
<1>4. CASE MainSpawn
  <2>1. Allocating
    BY <1>4 DEF MainSpawn, InOneStage, BetweenPasses, Sweeping, Stopping
  <2>2. spawned \in Workers /\ spawned \in Threads
    BY <1>4 DEF MainSpawn, TypeOK, Workers, Threads
  <2>3. pc[spawned] = "unborn"
    BY <2>1, <2>2 DEF Allocating, TypeOK
  <2>4. HeldIn("alloc", "inAlloc")'
    BY <1>4, <2>1, <2>2, <2>3 DEF MainSpawn, Allocating, HeldIn, TypeOK
  <2>5. \A w \in Workers :
          /\ pc'[w] \in IF w < spawned' THEN {"alloc", "inAlloc"}
                                         ELSE {"unborn"}
          /\ swept'[w] = 0
    BY <1>4, <2>1, <2>2
    DEF MainSpawn, Allocating, TypeOK, Workers, Threads
  <2>6. Allocating'
    BY <1>0, <1>4, <2>1, <2>2, <2>4, <2>5 DEF MainSpawn, Allocating, TypeOK
  <2> QED BY <2>6 DEF InOneStage
<1>5. CASE MainSpawned
  <2>1. Allocating
    BY <1>5 DEF MainSpawned, InOneStage, BetweenPasses, Sweeping, Stopping
  <2>2. HeldIn("alloc", "inAlloc")'
    BY <1>0, <1>5, <2>1 DEF MainSpawned, Allocating, HeldIn, TypeOK
  <2>3. Allocating'
    BY <1>0, <1>5, <2>1, <2>2
    DEF MainSpawned, Allocating, TypeOK, Threads
  <2> QED BY <2>3 DEF InOneStage
<1>6. CASE MainAllocLeave \/ ClockContinue \/ TimedExpires
  <2>1. /\ pc[Main] \in {"inAlloc", "clock"}
        /\ pc' \in {[pc EXCEPT ![Main] = l] : l \in {"clock", "start", "stop"}}
        /\ UNCHANGED <<blocked, done, phase, spawned, warm, iters, swept>>
    BY <1>6 DEF MainAllocLeave, ClockContinue, TimedExpires, Leave
  <2>2. BetweenPasses
    BY <1>0, <1>6 DEF MainAllocLeave, ClockContinue, TimedExpires, Leave,
       Released, InOneStage, Allocating, Sweeping, Stopping, HeldIn
  <2>3. HeldIn("start", "inStart")'
    BY <1>0, <2>1, <2>2 DEF BetweenPasses, HeldIn, TypeOK
  <2>4. BetweenPasses'
    BY <1>0, <2>1, <2>2, <2>3 DEF BetweenPasses, TypeOK, Threads
  <2> QED BY <2>4 DEF InOneStage
<1>7. CASE WarmupExpires
  <2>1. BetweenPasses
    BY <1>7 DEF WarmupExpires, InOneStage, Allocating, Sweeping, Stopping
  <2>2. BetweenPasses'
    BY <1>7, <2>1 DEF WarmupExpires, BetweenPasses, HeldIn
  <2> QED BY <2>2 DEF InOneStage
<1>8. CASE MainStop
  <2>1. BetweenPasses
    BY <1>8 DEF MainStop, InOneStage, Allocating, Sweeping, Stopping
  <2>2. HeldIn("start", "inStart")'
    BY <1>0, <1>8, <2>1 DEF MainStop, BetweenPasses, HeldIn, TypeOK
  <2>3. BetweenPasses'
    BY <1>0, <1>8, <2>1, <2>2 DEF MainStop, BetweenPasses, TypeOK, Threads
  <2> QED BY <2>3 DEF InOneStage
<1>9. CASE MainStartLeave
  <2>1. ~Allocating /\ ~BetweenPasses
    BY <1>0, <1>9 DEF MainStartLeave, Leave, Released,
       Allocating, BetweenPasses, HeldIn
  <2>2. CASE Sweeping
    <3>1. HeldIn("end", "inEnd")'
      BY <1>0, <1>9, <2>2 DEF MainStartLeave, Leave, Sweeping, HeldIn, TypeOK
    <3>2. Sweeping'
      BY <1>0, <1>9, <2>2, <3>1
      DEF MainStartLeave, Leave, Sweeping, TypeOK, Threads
    <3> QED BY <3>2 DEF InOneStage
  <2>3. CASE Stopping
    <3>1. Stopping'
      BY <1>0, <1>9, <2>3
      DEF MainStartLeave, Leave, Stopping, TypeOK, Threads
    <3> QED BY <3>1 DEF InOneStage
  <2> QED BY <2>1, <2>2, <2>3 DEF InOneStage
<1>10. CASE MainEndLeave
  <2>1. BetweenPasses
    BY <1>0, <1>10 DEF MainEndLeave, Leave, Released,
       InOneStage, Allocating, Sweeping, Stopping, HeldIn
  <2>2. HeldIn("start", "inStart")'
    BY <1>0, <1>10, <2>1 DEF MainEndLeave, Leave, BetweenPasses, HeldIn, TypeOK
  <2>3. warm' + iters' = warm + iters + 1
    BY <1>10 DEF MainEndLeave, TypeOK
  <2>4. BetweenPasses'
    BY <1>0, <1>10, <2>1, <2>2, <2>3
    DEF MainEndLeave, Leave, BetweenPasses, TypeOK, Threads
  <2> QED BY <2>4 DEF InOneStage
<1> QED
  BY <1>1, <1>2, <1>3, <1>4, <1>5, <1>6, <1>7, <1>8, <1>9, <1>10 DEF MainNext

LEMMA StageStep == TypeOK /\ InOneStage /\ [Next]_vars => InOneStage'
<1> SUFFICES ASSUME TypeOK, InOneStage, [Next]_vars PROVE InOneStage'
  OBVIOUS
<1>1. CASE MainNext
  BY <1>1, MainStage
<1>2. CASE \E w \in Workers : WorkerNext(w)
  BY <1>2, WorkerStage
<1>3. CASE UNCHANGED vars
  BY <1>3 DEF vars, InOneStage, Allocating, BetweenPasses, Sweeping, Stopping,
     HeldIn
<1> QED BY <1>1, <1>2, <1>3 DEF Next, Finished

\* The four stages are all the benchmark is ever in.
THEOREM Staged == Spec => []InOneStage
<1>1. Init => InOneStage
  BY InitStage
<1>2. TypeOK /\ InOneStage /\ [Next]_vars => InOneStage'
  BY StageStep
<1> QED BY <1>1, <1>2, TypeCorrect, PTL DEF Spec

\* The clock is read and the benchmark stopped between two passes only.
THEOREM ClockIsQuiescent == Spec => []QuiescentClock
<1>1. TypeOK /\ InOneStage => QuiescentClock
  BY DEF InOneStage, Allocating, BetweenPasses, Sweeping, Stopping,
     QuiescentClock, TypeOK
<1> QED BY <1>1, TypeCorrect, Staged, PTL

\* No worker gets a full pass ahead of another or of the count.
THEOREM PassesInLockstep == Spec => []LockstepPasses
<1>1. TypeOK /\ InOneStage => LockstepPasses
  BY DEF InOneStage, Allocating, BetweenPasses, Sweeping, Stopping,
     LockstepPasses, TypeOK
<1> QED BY <1>1, TypeCorrect, Staged, PTL

\* Once the flag is up, the number of sweeps is final.
THEOREM NoSweepAfterStopHolds == Spec => NoSweepAfterStop
<1>1. InOneStage /\ [Next]_vars => [done => swept' = swept]_vars
  <2> SUFFICES ASSUME InOneStage, Next, done PROVE swept' = swept
    BY DEF vars
  <2>1. ASSUME NEW w \in Workers PROVE ~WorkerSweep(w)
    BY DEF WorkerSweep, InOneStage, Allocating, BetweenPasses, Sweeping,
       Stopping
  <2>2. CASE \E w \in Workers : WorkerNext(w)
    BY <2>1, <2>2 DEF WorkerNext, WorkerAllocWait, WorkerAllocLeave,
       WorkerStartWait, WorkerStartLeave, WorkerLoad, WorkerEndWait,
       WorkerEndLeave, Wait
  <2>3. CASE MainNext
    BY <2>3 DEF MainNext, MainSpawn, MainSpawned, MainAllocWait,
       MainAllocLeave, ClockContinue, WarmupExpires, TimedExpires,
       MainStartWait, MainStartLeave, MainEndWait, MainEndLeave, MainStop, Wait
  <2> QED BY <2>2, <2>3 DEF Next, Finished, vars
<1> QED BY <1>1, Staged, PTL DEF Spec, NoSweepAfterStop

-----------------------------------------------------------------------------
(* The refinement.                                                         *)

\* The variables of ParallelSweep, as ThreadedSweep implements them.
Mapped == <<AbstractStage, StillSweeping, warm + iters>>

\* A step changes nothing abstract if it keeps the counts, the flag and the
\* pass, and moves no worker into or out of its sweep.
LEMMA Stutter ==
  ASSUME UNCHANGED <<done, warm, iters>>, InPass' <=> InPass,
         pc'[Main] = "stop" <=> pc[Main] = "stop", StillSweeping' = StillSweeping
  PROVE  UNCHANGED Mapped
BY DEF Mapped, AbstractStage

LEMMA WorkerRefines ==
  ASSUME TypeOK, InOneStage, InOneStage', NEW w \in Workers, WorkerNext(w)
  PROVE  (\E v \in Workers : Abstract!Scan(v)) \/ Abstract!Begin
           \/ UNCHANGED Mapped
<1> USE ThreadCount DEF Barriers
<1>0. w \in Threads /\ w # Main /\ Main \in Threads
  BY DEF Threads
<1>1. CASE WorkerAllocWait(w)
  <2>1. Allocating
    BY <1>0, <1>1 DEF WorkerAllocWait, Wait, InOneStage, BetweenPasses,
       Sweeping, Stopping
  <2>2. ~InPass /\ ~InPass' /\ pc'[Main] = pc[Main]
    BY <1>0, <1>1, <2>1 DEF WorkerAllocWait, Wait, Allocating, InPass, TypeOK
  <2>3. StillSweeping' = StillSweeping
    BY <2>2 DEF StillSweeping
  <2> QED BY <1>1, <2>2, <2>3, Stutter DEF WorkerAllocWait, Wait
<1>2. CASE WorkerStartWait(w)
  <2>1. BetweenPasses
    BY <1>0, <1>2 DEF WorkerStartWait, Wait, InOneStage, Allocating,
       Sweeping, Stopping
  <2>2. /\ pc' = [pc EXCEPT ![w] = "inStart"]
        /\ UNCHANGED <<done, warm, iters>>
    BY <1>2 DEF WorkerStartWait, Wait
  <2>3. \/ blocked'["start"] = blocked["start"] \cup {w}
        \/ blocked["start"] = Threads \ {w} /\ blocked'["start"] = {}
    <3>1. w \notin blocked["start"]
      BY <1>0, <1>2, <2>1 DEF WorkerStartWait, Wait, BetweenPasses, HeldIn
    <3> QED BY <1>0, <1>2, <3>1, ArriveEffect DEF WorkerStartWait, Wait
  <2>4. CASE blocked'["start"] = blocked["start"] \cup {w}
    <3>1. BetweenPasses'
      BY <2>4 DEF InOneStage, Allocating, Sweeping, Stopping
    <3>2. (InPass' <=> InPass) /\ pc'[Main] = pc[Main]
      BY <1>0, <2>2, <2>4 DEF InPass, Released, TypeOK
    <3>3. StillSweeping = {} /\ StillSweeping' = {}
      BY <2>1, <3>1 DEF BetweenPasses, HeldIn, StillSweeping, Released, Threads
    <3> QED BY <2>2, <3>2, <3>3, Stutter
  <2>5. CASE blocked["start"] = Threads \ {w} /\ blocked'["start"] = {}
    <3>1. \A u \in Threads : pc'[u] = "inStart"
      BY <2>1, <2>2, <2>5 DEF BetweenPasses, HeldIn, TypeOK
    <3>2. pc[Main] = "inStart" /\ Main \in blocked["start"]
      BY <1>0, <2>1, <2>5 DEF BetweenPasses, HeldIn
    <3>3. ~InPass /\ (InPass' <=> ~done)
      BY <1>0, <2>2, <2>5, <3>1, <3>2 DEF InPass, Released
    <3>4. CASE done
      BY <1>0, <2>2, <3>1, <3>2, <3>3, <3>4, Stutter DEF StillSweeping
    <3>5. CASE ~done
      <4>1. StillSweeping = {} /\ StillSweeping' = Workers
        BY <2>5, <3>1, <3>3, <3>5 DEF StillSweeping, Released, Threads
      <4> QED
        BY <1>0, <2>2, <3>1, <3>2, <3>3, <3>5, <4>1
        DEF Abstract!Begin, AbstractStage
    <3> QED BY <3>4, <3>5
  <2> QED BY <2>3, <2>4, <2>5
<1>3. CASE WorkerEndWait(w)
  <2>1. Sweeping
    BY <1>0, <1>3 DEF WorkerEndWait, Wait, InOneStage, Allocating,
       BetweenPasses, Stopping
  <2>2. /\ pc' = [pc EXCEPT ![w] = "inEnd"]
        /\ pc[w] = "end"
        /\ blocked'["start"] = blocked["start"]
        /\ UNCHANGED <<done, warm, iters>>
    BY <1>3 DEF WorkerEndWait, Wait, Arrive, TypeOK
  <2>3. (InPass' <=> InPass) /\ pc'[Main] = pc[Main]
    BY <1>0, <2>2 DEF InPass, Released, TypeOK
  <2>4. StillSweeping' = StillSweeping
    BY <2>2, <2>3 DEF StillSweeping, Released, TypeOK, Threads
  <2> QED BY <2>2, <2>3, <2>4, Stutter
<1>4. CASE WorkerSweep(w)
  <2>1. Sweeping
    BY <1>4 DEF WorkerSweep, InOneStage, Allocating, BetweenPasses, Stopping
  <2>2. InPass /\ InPass' /\ pc'[Main] = pc[Main] /\ pc[Main] # "stop"
    BY <1>0, <1>4, <2>1 DEF WorkerSweep, Sweeping, InPass, Released, TypeOK
  <2>3. w \in StillSweeping /\ StillSweeping' = StillSweeping \ {w}
    BY <1>4, <2>2
    DEF WorkerSweep, StillSweeping, Released, TypeOK, Threads
  <2> QED
    BY <1>4, <2>2, <2>3 DEF WorkerSweep, Abstract!Scan, AbstractStage
<1>5. CASE WorkerLoad(w)
  <2>1. (InPass' <=> InPass) /\ pc'[Main] = pc[Main]
    BY <1>0, <1>5 DEF WorkerLoad, InPass, Released, TypeOK
  <2>2. StillSweeping' = StillSweeping
    BY <1>5, <2>1
    DEF WorkerLoad, StillSweeping, InPass, Released, TypeOK, Threads
  <2> QED BY <1>5, <2>1, <2>2, Stutter DEF WorkerLoad
<1>6. CASE WorkerAllocLeave(w) \/ WorkerStartLeave(w) \/ WorkerEndLeave(w)
  <2>1. /\ \/ /\ pc[w] = "inStart" /\ Released(w, "start")
              /\ pc' = [pc EXCEPT ![w] = "load"]
           \/ pc[w] \in {"inAlloc", "inEnd"} /\ pc' = [pc EXCEPT ![w] = "start"]
        /\ UNCHANGED <<blocked, done, warm, iters>>
    BY <1>6 DEF WorkerAllocLeave, WorkerStartLeave, WorkerEndLeave, Leave
  <2>2. (InPass' <=> InPass) /\ pc'[Main] = pc[Main]
    BY <1>0, <2>1 DEF InPass, Released, TypeOK
  <2>3. StillSweeping' = StillSweeping
    BY <2>1, <2>2 DEF StillSweeping, Released, TypeOK, Threads
  <2> QED BY <2>1, <2>2, <2>3, Stutter
<1> QED BY <1>1, <1>2, <1>3, <1>4, <1>5, <1>6 DEF WorkerNext

\* The main thread moves no worker, so only its own label can begin or end a
\* pass, and what start_barrier holds.
LEMMA MainRefines ==
  ASSUME TypeOK, InOneStage, InOneStage', MainNext
  PROVE  Abstract!Begin \/ Abstract!End \/ Abstract!Report \/ UNCHANGED Mapped
<1> USE ThreadCount DEF Barriers
<1>0. Main \in Threads
  BY DEF Threads
<1>1. CASE MainSpawn \/ MainSpawned \/ MainAllocWait
  <2>1. /\ pc[Main] \in {"spawn", "alloc"}
        /\ pc'[Main] \in {"spawn", "alloc", "inAlloc"}
        /\ UNCHANGED <<done, warm, iters>>
    BY <1>0, <1>1 DEF MainSpawn, MainSpawned, MainAllocWait, Wait, TypeOK,
       Workers, Main
  <2>2. ~InPass /\ ~InPass'
    BY <2>1 DEF InPass
  <2> QED BY <2>1, <2>2, Stutter DEF StillSweeping
<1>2. CASE MainAllocLeave \/ ClockContinue \/ WarmupExpires
  <2>1. /\ pc[Main] \in {"inAlloc", "clock"}
        /\ pc'[Main] \in {"clock", "start"}
        /\ UNCHANGED <<done, warm>>
    BY <1>0, <1>2 DEF MainAllocLeave, ClockContinue, WarmupExpires, Leave,
       TypeOK
  <2>2. iters' = iters
    BY <1>2 DEF MainAllocLeave, ClockContinue, WarmupExpires, InOneStage,
       Allocating, BetweenPasses, Sweeping, Stopping
  <2>3. ~InPass /\ ~InPass'
    BY <2>1 DEF InPass
  <2> QED BY <2>1, <2>2, <2>3, Stutter DEF StillSweeping
<1>3. CASE TimedExpires
  <2>1. /\ pc[Main] = "clock" /\ pc'[Main] = "stop"
        /\ UNCHANGED <<done, warm, iters>>
    BY <1>0, <1>3 DEF TimedExpires, TypeOK
  <2>2. ~done
    BY <2>1 DEF InOneStage, Allocating, BetweenPasses, Sweeping, Stopping
  <2>3. ~InPass /\ ~InPass'
    BY <2>1 DEF InPass
  <2> QED
    BY <2>1, <2>2, <2>3 DEF Abstract!Report, AbstractStage, StillSweeping
<1>4. CASE MainStartWait
  <2>1. BetweenPasses
    BY <1>4 DEF MainStartWait, Wait, InOneStage, Allocating, Sweeping, Stopping
  <2>2. /\ pc' = [pc EXCEPT ![Main] = "inStart"]
        /\ pc[Main] = "start"
        /\ UNCHANGED <<done, warm, iters>>
    BY <1>4 DEF MainStartWait, Wait
  <2>3. \/ blocked'["start"] = blocked["start"] \cup {Main}
        \/ blocked["start"] = Threads \ {Main} /\ blocked'["start"] = {}
    <3>1. Main \notin blocked["start"]
      BY <1>0, <2>1, <2>2 DEF BetweenPasses, HeldIn
    <3> QED BY <1>0, <1>4, <3>1, ArriveEffect DEF MainStartWait, Wait
  <2>4. ~InPass
    BY <2>2 DEF InPass
  <2>5. CASE blocked'["start"] = blocked["start"] \cup {Main}
    <3>1. ~InPass'
      BY <1>0, <2>2, <2>5 DEF InPass, Released, TypeOK
    <3> QED BY <1>0, <2>2, <2>4, <3>1, Stutter DEF StillSweeping, TypeOK
  <2>6. CASE blocked["start"] = Threads \ {Main} /\ blocked'["start"] = {}
    <3>1. \A u \in Threads : pc'[u] = "inStart"
      BY <2>1, <2>2, <2>6 DEF BetweenPasses, HeldIn, TypeOK
    <3>2. InPass' <=> ~done
      BY <1>0, <2>2, <2>6, <3>1 DEF InPass, Released
    <3>3. CASE done
      BY <1>0, <2>2, <2>4, <3>1, <3>2, <3>3, Stutter DEF StillSweeping
    <3>4. CASE ~done
      <4>1. StillSweeping' = Workers
        BY <2>6, <3>1, <3>2, <3>4 DEF StillSweeping, Released, Threads
      <4> QED
        BY <1>0, <2>2, <2>4, <3>1, <3>2, <3>4, <4>1
        DEF Abstract!Begin, AbstractStage
    <3> QED BY <3>3, <3>4
  <2> QED BY <2>3, <2>5, <2>6
<1>5. CASE MainStartLeave
  <2>1. /\ pc[Main] = "inStart" /\ Released(Main, "start")
        /\ pc' = [pc EXCEPT ![Main] = IF done THEN "reported" ELSE "end"]
        /\ UNCHANGED <<blocked, done, warm, iters>>
    BY <1>5 DEF MainStartLeave, Leave
  <2>2. InPass' <=> InPass
    BY <1>0, <2>1 DEF InPass, Released, TypeOK
  <2>3. \A w \in Workers : pc'[w] = pc[w]
    BY <2>1 DEF TypeOK, Threads
  <2>4. StillSweeping' = StillSweeping
    BY <2>1, <2>2, <2>3 DEF StillSweeping, Released
  <2> QED BY <1>0, <2>1, <2>2, <2>4, Stutter DEF TypeOK
<1>6. CASE MainEndWait
  <2>1. /\ pc[Main] = "end" /\ pc' = [pc EXCEPT ![Main] = "inEnd"]
        /\ blocked'["start"] = blocked["start"]
        /\ UNCHANGED <<done, warm, iters>>
    BY <1>6 DEF MainEndWait, Wait, Arrive, TypeOK
  <2>2. InPass' <=> InPass
    BY <1>0, <2>1 DEF InPass, Released, TypeOK
  <2>3. \A w \in Workers : pc'[w] = pc[w]
    BY <2>1 DEF TypeOK, Threads
  <2>4. StillSweeping' = StillSweeping
    BY <2>1, <2>2, <2>3 DEF StillSweeping, Released
  <2> QED BY <1>0, <2>1, <2>2, <2>4, Stutter DEF TypeOK
<1>7. CASE MainEndLeave
  <2>1. BetweenPasses
    BY <1>0, <1>7 DEF MainEndLeave, Leave, Released,
       InOneStage, Allocating, Sweeping, Stopping, HeldIn
  <2>2. /\ pc[Main] = "inEnd" /\ pc'[Main] = "clock"
        /\ ~done /\ ~done'
        /\ warm' + iters' = warm + iters + 1
    BY <1>0, <1>7, <2>1 DEF MainEndLeave, Leave, BetweenPasses, TypeOK
  <2>3. InPass /\ ~InPass'
    BY <2>2 DEF InPass
  <2>4. StillSweeping = {} /\ StillSweeping' = {}
    BY <2>1, <2>3 DEF BetweenPasses, HeldIn, StillSweeping, Released, Threads
  <2> QED BY <2>2, <2>3, <2>4 DEF Abstract!End, AbstractStage
<1>8. CASE MainStop
  <2>1. /\ pc[Main] = "stop" /\ pc'[Main] = "start" /\ done'
        /\ UNCHANGED <<warm, iters>>
    BY <1>0, <1>8 DEF MainStop, TypeOK
  <2>2. ~InPass /\ ~InPass'
    BY <2>1 DEF InPass
  <2> QED BY <2>1, <2>2 DEF Mapped, AbstractStage, StillSweeping
<1> QED
  BY <1>1, <1>2, <1>3, <1>4, <1>5, <1>6, <1>7, <1>8 DEF MainNext

\* Every behaviour of the threads is one of whole, disjoint parallel sweeps.
THEOREM Refinement == Spec => ImplementsParallelSweep
<1>1. Init => Abstract!Init
  <2> SUFFICES ASSUME Init PROVE Abstract!Init
    OBVIOUS
  <2>1. pc[Main] = "spawn" /\ ~done /\ warm + iters = 0
    BY DEF Init, Threads
  <2>2. ~InPass
    BY <2>1 DEF InPass
  <2> QED BY <2>1, <2>2 DEF Abstract!Init, AbstractStage, StillSweeping
<1>2. TypeOK /\ InOneStage /\ InOneStage' /\ [Next]_vars
        => [Abstract!Next]_(Abstract!vars)
  <2> SUFFICES ASSUME TypeOK, InOneStage, InOneStage', [Next]_vars
               PROVE  Abstract!Next \/ UNCHANGED Mapped
    BY DEF Mapped, Abstract!vars
  <2>1. CASE MainNext
    BY <2>1, MainRefines DEF Abstract!Next
  <2>2. CASE \E w \in Workers : WorkerNext(w)
    BY <2>2, WorkerRefines DEF Abstract!Next
  <2>3. CASE UNCHANGED vars
    BY <2>3 DEF vars, Mapped, AbstractStage, StillSweeping, InPass, Released
  <2> QED BY <2>1, <2>2, <2>3 DEF Next, Finished
<1> QED
  BY <1>1, <1>2, TypeCorrect, Staged, PTL
  DEF Spec, ImplementsParallelSweep, Abstract!Spec

-----------------------------------------------------------------------------
(* The slices.                                                             *)

LEMMA TimesMonotone ==
  ASSUME NEW s \in Nat, NEW a \in Nat, NEW b \in Nat, a <= b
  PROVE  s * a <= s * b
<1>1. b = a + (b - a) /\ b - a \in Nat
  OBVIOUS
<1>2. s * b = s * a + s * (b - a)
  BY <1>1
<1>3. s * (b - a) \in Nat /\ s * a \in Nat
  BY <1>1
<1> QED BY <1>2, <1>3

LEMMA DivBounds ==
  ASSUME NEW i \in Nat, NEW s \in Nat, s > 0
  PROVE  /\ i \div s \in Nat
         /\ s * (i \div s) <= i
         /\ i < s * (i \div s) + s
OBVIOUS

\* However the words divide among the threads, the slices of the loop at
\* memory.rs:127-139 are disjoint and together the whole buffer.
THEOREM SlicesCoverBuffer ==
  ASSUME NumCores > 0
  PROVE  /\ UNION {SliceOf(w) : w \in Workers} = 0 .. BufferWords - 1
         /\ \A v, w \in Workers : v # w => SliceOf(v) \cap SliceOf(w) = {}
<1> USE NumCoresAssumption, BufferWordsAssumption
<1> DEFINE At(a) == SliceSize * a
<1>1. NumThreads = NumCores
  BY DEF NumThreads
<1>2. SliceSize \in Nat /\ NumCores * SliceSize <= BufferWords
  BY <1>1, DivBounds DEF SliceSize
<1>3. ASSUME NEW a \in Nat, NEW b \in Nat, a <= b
      PROVE  At(a) <= At(b)
  BY <1>2, <1>3, TimesMonotone
<1>4. ASSUME NEW a \in Nat
      PROVE  At(a) \in Nat /\ At(a + 1) = At(a) + SliceSize
  BY <1>2
<1>5. At(NumCores) <= BufferWords
  BY <1>2
<1>6. ASSUME NEW w \in Workers
      PROVE  SliceOf(w) =
               IF w + 1 = NumCores THEN At(w) .. BufferWords - 1
                                   ELSE At(w) .. At(w) + SliceSize - 1
  <2>1. w \in Nat /\ At(w) \in Nat
    BY <1>4 DEF Workers
  <2>2. CASE w + 1 = NumCores
    BY <1>1, <2>1, <2>2 DEF SliceOf
  <2>3. CASE w + 1 # NumCores
    BY <1>1, <1>2, <2>1, <2>3 DEF SliceOf
  <2> QED BY <2>2, <2>3
<1>7. ASSUME NEW i \in Nat, SliceSize > 0
      PROVE  \E q \in Nat : At(q) <= i /\ i < At(q) + SliceSize
  BY <1>2, <1>7, DivBounds
<1> HIDE DEF At
<1>8. ASSUME NEW w \in Workers, w + 1 # NumCores
      PROVE  /\ SliceOf(w) = At(w) .. At(w + 1) - 1
             /\ At(w) \in Nat /\ At(w + 1) \in Nat
             /\ At(w + 1) <= BufferWords
  <2>1. w \in Nat /\ w + 1 \in Nat /\ w + 1 <= NumCores
    BY DEF Workers
  <2>2. At(w + 1) <= At(NumCores)
    BY <1>3, <2>1
  <2>3. At(w) \in Nat /\ At(w + 1) \in Nat /\ At(NumCores) \in Nat
    BY <1>4, <2>1
  <2>4. At(w + 1) = At(w) + SliceSize
    BY <1>4, <2>1
  <2>5. SliceOf(w) = At(w) .. At(w + 1) - 1
    BY <1>2, <1>6, <1>8, <2>3, <2>4
  <2>6. At(w + 1) <= BufferWords
    BY <1>5, <2>2, <2>3
  <2> QED BY <2>3, <2>5, <2>6
<1>9. ASSUME NEW v \in Workers, NEW w \in Workers, v < w
      PROVE  SliceOf(v) \cap SliceOf(w) = {}
  <2>1. v \in Nat /\ w \in Nat /\ v + 1 <= w /\ v + 1 # NumCores
    BY <1>9 DEF Workers
  <2>2. SliceOf(v) = At(v) .. At(v + 1) - 1
    BY <1>8, <2>1
  <2>3. At(v) \in Nat /\ At(v + 1) \in Nat /\ At(w) \in Nat
    BY <1>4, <2>1
  <2>4. At(v + 1) <= At(w)
    BY <1>3, <2>1
  <2>5. \A i \in SliceOf(w) : i \in Int /\ i >= At(w)
    BY <1>2, <1>6, <2>3
  <2>6. \A i \in SliceOf(v) : i \in Int /\ i < At(v + 1)
    BY <2>2, <2>3
  <2> QED BY <2>3, <2>4, <2>5, <2>6
<1>10. \A v, w \in Workers : v # w => SliceOf(v) \cap SliceOf(w) = {}
  <2> SUFFICES ASSUME NEW v \in Workers, NEW w \in Workers, v # w
               PROVE  SliceOf(v) \cap SliceOf(w) = {}
    OBVIOUS
  <2>1. v < w \/ w < v
    BY DEF Workers
  <2> QED BY <1>9, <2>1
<1>11. ASSUME NEW w \in Workers PROVE SliceOf(w) \subseteq 0 .. BufferWords - 1
  <2>1. w \in Nat /\ At(w) \in Nat
    BY <1>4 DEF Workers
  <2>2. CASE w + 1 = NumCores
    BY <1>6, <2>1, <2>2
  <2>3. CASE w + 1 # NumCores
    BY <1>8, <2>1, <2>3
  <2> QED BY <2>2, <2>3
<1>12. ASSUME NEW i \in 0 .. BufferWords - 1
       PROVE  \E w \in Workers : i \in SliceOf(w)
  <2> DEFINE last == NumCores - 1
  <2>1. last \in Workers /\ last \in Nat
    BY DEF Workers
  <2>2. At(last) \in Nat
    BY <1>4, <2>1
  <2>3. CASE i >= At(last)
    <3>1. SliceOf(last) = At(last) .. BufferWords - 1
      BY <1>6, <2>1
    <3>2. i \in SliceOf(last)
      BY <2>2, <2>3, <3>1
    <3> QED BY <2>1, <3>2
  <2>4. CASE i < At(last)
    <3>1. At(0) = 0
      BY <1>2 DEF At
    <3>2. SliceSize > 0
      <4>1. CASE SliceSize = 0
        BY <2>1, <2>4, <4>1 DEF At
      <4> QED BY <1>2, <4>1
    <3>3. PICK q \in Nat : At(q) <= i /\ i < At(q) + SliceSize
      BY <1>7, <3>2
    <3>4. At(q) \in Nat
      BY <1>4
    <3>5. q < last
      <4>1. CASE last <= q
        <5>1. At(last) <= At(q)
          BY <1>3, <2>1, <4>1
        <5> QED BY <2>2, <2>4, <3>3, <3>4, <5>1
      <4> QED BY <2>1, <4>1
    <3>6. q \in Workers /\ q + 1 # NumCores
      BY <3>5 DEF Workers
    <3>7. SliceOf(q) = At(q) .. At(q) + SliceSize - 1
      BY <1>6, <3>6
    <3>8. i \in SliceOf(q)
      BY <1>2, <3>3, <3>4, <3>7
    <3> QED BY <3>6, <3>8
  <2> QED BY <2>2, <2>3, <2>4
<1> QED BY <1>10, <1>11, <1>12

\* Once the loop has spawned every worker, each owns the slice of its index.
LEMMA SlicesSpawned ==
  Spec => [](\A w \in Workers : w < spawned => slice[w] = SliceOf(w))
<1> DEFINE Owned == \A w \in Workers : w < spawned => slice[w] = SliceOf(w)
<1>1. Init => Owned
  BY DEF Init, Workers
<1>2. TypeOK /\ Owned /\ [Next]_vars => Owned'
  <2> SUFFICES ASSUME TypeOK, Owned, [Next]_vars PROVE Owned'
    OBVIOUS
  <2>1. CASE MainSpawn
    BY <2>1, NumCoresAssumption DEF MainSpawn, TypeOK, Workers, SliceOf
  <2>2. CASE UNCHANGED <<spawned, slice>>
    BY <2>2 DEF SliceOf
  <2> QED
    BY <2>1, <2>2 DEF Next, MainNext, WorkerNext, Finished, vars, Wait,
       MainSpawned, MainAllocWait, MainAllocLeave, ClockContinue,
       WarmupExpires, TimedExpires, MainStartWait, MainStartLeave,
       MainEndWait, MainEndLeave, MainStop, WorkerAllocWait,
       WorkerAllocLeave, WorkerStartWait, WorkerStartLeave, WorkerLoad,
       WorkerSweep, WorkerEndWait, WorkerEndLeave
<1> QED BY <1>1, <1>2, TypeCorrect, PTL DEF Spec

\* Every word of the buffer is swept by exactly one worker, whatever the
\* number of cores.
THEOREM SlicesPartitionBuffer == Spec => []SlicesPartition
<1> DEFINE Owned == \A w \in Workers : w < spawned => slice[w] = SliceOf(w)
<1>1. TypeOK /\ InOneStage /\ Owned => SlicesPartition
  <2> SUFFICES ASSUME InOneStage, Owned,
                      pc[Main] \notin {"spawn", "alloc"}, NumCores > 0
               PROVE  /\ UNION {slice[w] : w \in Workers} = 0 .. BufferWords - 1
                      /\ \A v, w \in Workers :
                           v # w => slice[v] \cap slice[w] = {}
    BY DEF SlicesPartition
  <2>1. \A w \in Workers : w < spawned
    BY NumCoresAssumption DEF InOneStage, Allocating, BetweenPasses, Sweeping,
       Stopping, Workers
  <2>2. \A w \in Workers : slice[w] = SliceOf(w)
    BY <2>1
  <2> QED BY <2>2, SlicesCoverBuffer
<1> QED BY <1>1, TypeCorrect, Staged, SlicesSpawned, PTL
===========================================================================
