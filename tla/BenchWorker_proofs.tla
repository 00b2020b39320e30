-------------------------- MODULE BenchWorker_proofs --------------------------
(***************************************************************************)
(* Proofs about BenchWorker, for any workers on any clouds and any         *)
(* setting: its safety properties, and that a worker is to the fleets what *)
(* WorkerContract says.                                                    *)
(***************************************************************************)
EXTENDS BenchWorker, FiniteSetTheorems, TLAPS

(***************************************************************************)
(* The invariant.                                                          *)
(***************************************************************************)

\* Where a worker is, by what its script has done: nothing on the VM is
\* merged, it is merging, or it is past that.
Before == {"setup", "create", "createPlain", "wait", "ssh", "upload", "mount",
           "tune", "run", "pull", "lock"}

\* TypeOK; a probe is left until the last; a worker of GCP knows its VM; no
\* command is one of the other script.
Types ==
  /\ TypeOK
  /\ \A w \in Workers :
       /\ pc[w] \in {"setup", "create", "createPlain", "wait", "ssh"} =>
            tries[w] < Tries
       /\ Gcp(w) => pc[w] # "wait" /\ instance[w] = <<"gcp", Name[w]>>
       /\ ~Gcp(w) => pc[w] \notin {"mount", "lock"}

\* Between mkdir and rmdir.
Holding(w) == Gcp(w) /\ pc[w] \in {"append", "unlock"}

\* The directory is there as long as a worker is in between, and only one is.
\* It may also be there without any: its owner has died.
Locked ==
  \A w \in Workers : Holding(w) =>
    lock /\ \A v \in Workers \ {w} : ~Holding(v)

\* No rows come before the merge, and those of a GCP worker that is at it have
\* none of another one after them.
Behind ==
  /\ \A w \in Workers : pc[w] \in Before => \A i \in DOMAIN csv : csv[i] # w
  /\ \A w \in Workers : pc[w] = "append" /\ Gcp(w) =>
       \A i, k \in DOMAIN csv :
         i <= k /\ csv[i] = w /\ Gcp(csv[k]) => csv[k] = w

\* A worker makes no VM while it has one that its trap knows: the first one is
\* only there already when GCP is asked again, and that is refused.
OneVmEach ==
  Free({"delete", "kill"}) =>
    \A v \in vms : Gcp(v.by) \/ Free({"lost"}) =>
      /\ instance[v.by] = v.id
      /\ pc[v.by] \notin {"setup", "create", "ended"}
      /\ pc[v.by] = "createPlain" => Gcp(v.by)

\* How much of its rows a worker has written follows from where it is.
Tally(w) ==
  /\ pc[w] \in Before => exit[w] = 0 /\ Written(w) = 0
  /\ pc[w] = "append" => exit[w] = 0 /\ Written(w) < Chunks
  /\ pc[w] = "unlock" => exit[w] = 0 /\ Written(w) = Chunks
  /\ pc[w] \in {"cleanup", "ended"} =>
       Written(w) = IF exit[w] = 0 THEN Chunks ELSE 0

Tallied == MergesWhole => \A w \in Workers : Tally(w)

IInv == Types /\ Locked /\ RowsContiguous /\ Behind /\ OneVmEach /\ Tallied

-----------------------------------------------------------------------------
(* What a step of one worker does.                                         *)

\* What worker w may do.
Acts(w) == Step(w) \/ Interrupt(w) \/ Kill(w)

\* It leaves the others where they are.
LEMMA OthersWait ==
  ASSUME Types, NEW w \in Workers, Acts(w)
  PROVE  /\ setting' = setting
         /\ pc' = [pc EXCEPT ![w] = pc'[w]]
         /\ tries' = [tries EXCEPT ![w] = tries'[w]]
         /\ exit' = [exit EXCEPT ![w] = exit'[w]]
         /\ instance' = [instance EXCEPT ![w] = instance'[w]]
<1> USE DEF Types, TypeOK, Goto, Abort
<1>1. CASE Setup(w)
  BY <1>1 DEF Setup
<1>2. CASE CreateWithShutoff(w)
  BY <1>2 DEF CreateWithShutoff, CreateSucceeds, CreateFails
<1>3. CASE CreatePlain(w)
  BY <1>3 DEF CreatePlain, CreateSucceeds, CreateFails
<1>4. CASE ProbeSsh(w)
  BY <1>4 DEF ProbeSsh
<1>5. CASE Remote(w)
  BY <1>5 DEF Remote
<1>6. CASE TakeLock(w) \/ AppendRows(w) \/ Unlock(w) \/ Cleanup(w)
  BY <1>6 DEF TakeLock, AppendRows, Unlock, Cleanup
<1>7. CASE Interrupt(w) \/ Kill(w)
  BY <1>7 DEF Interrupt, Kill
<1> QED
  BY <1>1, <1>2, <1>3, <1>4, <1>5, <1>6, <1>7 DEF Acts, Step

\* A VM that is made is one.
LEMMA CreatedTypes ==
  ASSUME Types, NEW w \in Workers, NEW shutoff \in BOOLEAN, Created(w, shutoff)
  PROVE  vms' \subseteq [id : Ids, by : Workers, shutoff : BOOLEAN]
<1> DEFINE id == IF Gcp(w) THEN <<"gcp", Name[w]>> ELSE <<"aws", w, shutoff>>
<1>1. id \in Ids
  BY DEF Ids
<1>2. vms' = vms \cup {[id |-> id, by |-> w, shutoff |-> shutoff]}
  BY DEF Created
<1> HIDE DEF id
<1>3. [id |-> id, by |-> w, shutoff |-> shutoff]
        \in [id : Ids, by : Workers, shutoff : BOOLEAN]
  BY <1>1
<1> QED
  BY <1>2, <1>3 DEF Types, TypeOK

\* What a step makes of a worker and of what is shared.
Shape(w) ==
  /\ pc'[w] \in Labels
  /\ tries'[w] \in 0 .. Tries
  /\ exit'[w] \in {0, 1}
  /\ instance'[w] \in Ids \cup {NoVM}
  /\ vms' \subseteq [id : Ids, by : Workers, shutoff : BOOLEAN]
  /\ lock' \in BOOLEAN
  /\ csv' \in Seq(Workers)
  /\ pc'[w] \in {"setup", "create", "createPlain", "wait", "ssh"} =>
       tries'[w] < Tries
  /\ Gcp(w) => pc'[w] # "wait" /\ instance'[w] = <<"gcp", Name[w]>>
  /\ ~Gcp(w) => pc'[w] \notin {"mount", "lock"}

\* Types is kept when that has its types.
LEMMA ShapeKeepsTypes ==
  ASSUME Types, NEW w \in Workers, Acts(w), Shape(w)
  PROVE  Types'
<1>1. /\ setting' = setting
      /\ pc' = [pc EXCEPT ![w] = pc'[w]]
      /\ tries' = [tries EXCEPT ![w] = tries'[w]]
      /\ exit' = [exit EXCEPT ![w] = exit'[w]]
      /\ instance' = [instance EXCEPT ![w] = instance'[w]]
  BY OthersWait
<1>2. pc' \in [Workers -> Labels]
  BY <1>1 DEF Types, TypeOK, Shape
<1>3. tries' \in [Workers -> 0 .. Tries]
  BY <1>1 DEF Types, TypeOK, Shape
<1>4. exit' \in [Workers -> {0, 1}]
  BY <1>1 DEF Types, TypeOK, Shape
<1>5. instance' \in [Workers -> Ids \cup {NoVM}]
  BY <1>1 DEF Types, TypeOK, Shape
<1>6. TypeOK'
  BY <1>1, <1>2, <1>3, <1>4, <1>5 DEF Types, TypeOK, Shape
<1>7. \A v \in Workers : Gcp(v)' <=> Gcp(v)
  BY <1>1 DEF Gcp
<1>8. \A v \in Workers \ {w} :
        pc'[v] = pc[v] /\ tries'[v] = tries[v] /\ instance'[v] = instance[v]
  BY <1>1 DEF Types, TypeOK
<1> QED
  BY <1>6, <1>7, <1>8 DEF Types, Shape

\* What a write does to the types.
LEMMA AppendTypes ==
  ASSUME Types, NEW w \in Workers, AppendRows(w)
  PROVE  /\ csv' \in Seq(Workers)
         /\ pc'[w] \in {"append", "cleanup", "unlock"}
         /\ exit'[w] \in {0, 1}
<1>1. csv \in Seq(Workers) /\ w \in DOMAIN pc /\ exit \in [Workers -> {0, 1}]
  BY DEF Types, TypeOK
<1>2. csv' = Append(csv, w) \/ csv' = csv
  BY DEF AppendRows
<1>3. csv' \in Seq(Workers)
  BY <1>1, <1>2
<1>4. \E l \in {"append", "cleanup", "unlock"} :
        pc' = [pc EXCEPT ![w] = l]
  <2>1. CASE Abort(w)
    BY <2>1 DEF Abort, Goto
  <2>2. CASE Goto(w, IF Written(w) + 1 < Chunks THEN "append" ELSE "unlock")
    BY <2>2 DEF Goto
  <2> QED
    BY <2>1, <2>2 DEF AppendRows
<1>5. pc'[w] \in {"append", "cleanup", "unlock"}
  BY <1>1, <1>4
<1>6. exit'[w] \in {0, 1}
  BY <1>1 DEF AppendRows, Abort
<1> QED
  BY <1>3, <1>5, <1>6

\* Types is inductive.
LEMMA TypesKept ==
  ASSUME Types, NEW w \in Workers, Acts(w)
  PROVE  Types'
<1> SUFFICES Shape(w)
  BY ShapeKeepsTypes
<1> USE WorkersAssumption DEF Types, TypeOK, Goto, Abort, Labels, Shape
<1>1. CASE Setup(w)
  BY <1>1 DEF Setup
<1>2. ASSUME NEW shutoff \in BOOLEAN, CreateSucceeds(w, shutoff),
             pc[w] \in {"create", "createPlain"},
             UNCHANGED <<tries, lock, csv>>
      PROVE  Shape(w)
  <2>1. Created(w, shutoff)
    BY <1>2 DEF CreateSucceeds
  <2>2. <<"aws", w, shutoff>> \in Ids
    BY DEF Ids
  <2> QED
    BY <1>2, <2>1, <2>2, CreatedTypes DEF CreateSucceeds
<1>3. ASSUME NEW shutoff \in BOOLEAN, CreateFails(w, shutoff)
      PROVE  /\ vms' \subseteq [id : Ids, by : Workers, shutoff : BOOLEAN]
             /\ instance' = instance
  BY <1>3, CreatedTypes DEF CreateFails
<1>4. CASE CreateWithShutoff(w)
  <2>1. CASE CreateSucceeds(w, TRUE)
    BY <1>2, <1>4, <2>1 DEF CreateWithShutoff
  <2>2. CASE CreateFails(w, TRUE) /\ Goto(w, "createPlain") /\ UNCHANGED exit
    BY <1>3, <1>4, <2>2 DEF CreateWithShutoff
  <2> QED
    BY <1>4, <2>1, <2>2 DEF CreateWithShutoff
<1>5. CASE CreatePlain(w)
  <2>1. CASE CreateSucceeds(w, FALSE)
    BY <1>2, <1>5, <2>1 DEF CreatePlain
  <2>2. CASE CreateFails(w, FALSE) /\ Abort(w)
    BY <1>3, <1>5, <2>2 DEF CreatePlain
  <2> QED
    BY <1>5, <2>1, <2>2 DEF CreatePlain
<1>6. CASE ProbeSsh(w)
  BY <1>6 DEF ProbeSsh, Order, GcpOrder, AwsOrder
<1>7. CASE Remote(w)
  <2>1. CASE Goto(w, Order(w)[pc[w]]) /\ UNCHANGED exit
    BY <1>7, <2>1 DEF Remote, Order, GcpOrder, AwsOrder
  <2>2. CASE Abort(w)
    BY <1>7, <2>2 DEF Remote
  <2> QED
    BY <1>7, <2>1, <2>2 DEF Remote
<1>8. CASE TakeLock(w)
  BY <1>8 DEF TakeLock
<1>9. CASE AppendRows(w)
  BY <1>9, AppendTypes DEF AppendRows
<1>10. CASE Unlock(w)
  BY <1>10 DEF Unlock
<1>11. CASE Cleanup(w)
  BY <1>11 DEF Cleanup
<1>12. CASE Interrupt(w)
  <2>1. vms' \subseteq [id : Ids, by : Workers, shutoff : BOOLEAN]
    BY <1>12, CreatedTypes DEF Interrupt
  <2> QED
    BY <1>12, <2>1 DEF Interrupt
<1>13. CASE Kill(w)
  BY <1>13 DEF Kill
<1> QED
  BY <1>1, <1>4, <1>5, <1>6, <1>7, <1>8, <1>9, <1>10, <1>11, <1>12, <1>13
  DEF Acts, Step

\* Where a step takes a worker, and what goes with it.
LEMMA Moves ==
  ASSUME Types, NEW w \in Workers, Acts(w)
  PROVE  /\ pc'[w] \in Before => pc[w] \in Before
         /\ pc'[w] = "append" => pc[w] \in Before \cup {"append"}
         /\ Holding(w)' => Holding(w) \/ TakeLock(w)
         /\ lock' = lock \/ TakeLock(w) \/ Unlock(w)
         /\ csv' = csv \/ (csv' = Append(csv, w) /\ pc[w] = "append")
<1>1. w \in DOMAIN pc /\ pc[w] \in Labels /\ setting' = setting
  BY OthersWait DEF Types, TypeOK
<1> USE <1>1 DEF Goto, Abort, Before, Holding, Gcp
<1>2. CASE Setup(w)
  BY <1>2 DEF Setup
<1>3. CASE CreateWithShutoff(w) \/ CreatePlain(w)
  <2>1. /\ pc[w] \in Before /\ UNCHANGED <<lock, csv>>
        /\ pc'[w] \in {"ssh", "wait", "createPlain", "cleanup"}
    BY <1>3 DEF CreateWithShutoff, CreatePlain, CreateSucceeds, CreateFails
  <2> QED
    BY <2>1
<1>4. CASE ProbeSsh(w)
  BY <1>4 DEF ProbeSsh, Order, GcpOrder, AwsOrder
<1>5. CASE Remote(w)
  <2>1. CASE Goto(w, Order(w)[pc[w]])
    BY <1>5, <2>1 DEF Remote, Order, GcpOrder, AwsOrder, Types
  <2>2. CASE Abort(w)
    BY <1>5, <2>2 DEF Remote
  <2> QED
    BY <1>5, <2>1, <2>2 DEF Remote
<1>6. CASE TakeLock(w)
  BY <1>6 DEF TakeLock
<1>7. CASE AppendRows(w)
  <2>1. /\ pc[w] = "append" /\ lock' = lock
        /\ csv' = csv \/ csv' = Append(csv, w)
    BY <1>7 DEF AppendRows
  <2>2. pc'[w] \in {"append", "cleanup", "unlock"}
    BY <1>7, AppendTypes
  <2> QED
    BY <2>1, <2>2
<1>8. CASE Unlock(w) \/ Cleanup(w) \/ Interrupt(w) \/ Kill(w)
  BY <1>8 DEF Unlock, Cleanup, Interrupt, Kill
<1> QED
  BY <1>2, <1>3, <1>4, <1>5, <1>6, <1>7, <1>8 DEF Acts, Step

-----------------------------------------------------------------------------
(* The lock, and the rows.                                                 *)

\* The lock has one owner.
LEMMA LockedKept ==
  ASSUME Types, Locked, NEW w \in Workers, Acts(w)
  PROVE  Locked'
<1>1. \A v \in Workers \ {w} : Holding(v)' <=> Holding(v)
  BY OthersWait DEF Holding, Gcp, Types, TypeOK
<1>2. CASE TakeLock(w)
  BY <1>1, <1>2 DEF TakeLock, Locked
<1>3. CASE Unlock(w)
  <2>1. Gcp(w) => Holding(w)
    BY <1>3 DEF Unlock, Holding
  <2>2. ~Holding(w)' /\ (~Gcp(w) => lock' = lock)
    BY <1>3 DEF Unlock, Holding, Goto, Abort, Types, TypeOK
  <2> QED
    BY <1>1, <2>1, <2>2 DEF Locked
<1>4. CASE ~TakeLock(w) /\ ~Unlock(w)
  BY <1>1, <1>4, Moves DEF Locked
<1> QED
  BY <1>2, <1>3, <1>4

\* The rows of a worker that holds the lock stay together.
LEMMA RowsKept ==
  ASSUME Types, Locked, RowsContiguous, Behind, NEW w \in Workers, Acts(w)
  PROVE  (RowsContiguous /\ Behind)'
<1>1. /\ \A v \in Workers \ {w} : pc'[v] = pc[v]
      /\ \A v \in Workers : Gcp(v)' <=> Gcp(v)
      /\ csv \in Seq(Workers)
  BY OthersWait DEF Gcp, Types, TypeOK
<1>2. /\ pc'[w] \in Before => pc[w] \in Before
      /\ pc'[w] = "append" => pc[w] \in Before \cup {"append"}
  BY Moves
<1>3. CASE csv' = csv
  <2>1. RowsContiguous'
    BY <1>1, <1>3 DEF RowsContiguous
  <2>2. Behind'
    BY <1>1, <1>2, <1>3 DEF Behind
  <2> QED
    BY <2>1, <2>2
<1>4. CASE csv' = Append(csv, w) /\ pc[w] = "append"
  <2> DEFINE n == Len(csv) + 1
  <2>1. /\ n \in Nat \ {0} /\ DOMAIN csv = 1 .. n - 1 /\ DOMAIN csv' = 1 .. n
        /\ csv'[n] = w /\ \A i \in 1 .. n - 1 : csv'[i] = csv[i]
        /\ \A i \in DOMAIN csv : csv[i] \in Workers
    BY <1>1, <1>4
  <2> HIDE DEF n
  <2>2. \A v \in Workers \ {w} : Gcp(v) /\ pc[v] = "append" => ~Gcp(w)
    BY <1>4 DEF Locked, Holding
  <2>3. RowsContiguous'
    <3> SUFFICES ASSUME NEW i \in 1 .. n, NEW j \in 1 .. n, NEW k \in i .. j,
                        i < j, csv'[i] = csv'[j], Gcp(csv'[i]), Gcp(csv'[k])
                 PROVE  csv'[k] = csv'[i]
      BY <1>1, <2>1 DEF RowsContiguous
    <3>1. CASE j = n
      BY <1>4, <2>1, <3>1 DEF Behind
    <3>2. CASE j # n
      BY <2>1, <3>2 DEF RowsContiguous
    <3> QED
      BY <3>1, <3>2
  <2>4. pc'[w] \notin Before
    BY <1>2, <1>4 DEF Before
  <2>5. Behind'
    <3>1. \A v \in Workers : pc'[v] \in Before =>
            \A i \in 1 .. n : csv'[i] # v
      BY <1>1, <2>1, <2>4 DEF Behind
    <3>2. ASSUME NEW v \in Workers, pc'[v] = "append", Gcp(v),
                 NEW i \in 1 .. n, NEW k \in 1 .. n,
                 i <= k, csv'[i] = v, Gcp(csv'[k])
          PROVE  csv'[k] = v
      <4>1. CASE k = n
        BY <1>1, <2>1, <2>2, <3>2, <4>1
      <4>2. CASE k # n
        BY <1>1, <1>4, <2>1, <3>2, <4>2 DEF Behind
      <4> QED
        BY <4>1, <4>2
    <3> QED
      BY <1>1, <2>1, <3>1, <3>2 DEF Behind
  <2> QED
    BY <2>3, <2>5
<1> QED
  BY <1>3, <1>4, Moves

-----------------------------------------------------------------------------
(* The VMs.                                                                *)

\* The trap of a worker knows its VM.
LEMMA VmsKept ==
  ASSUME Types, OneVmEach, NEW w \in Workers, Acts(w)
  PROVE  OneVmEach'
<1> SUFFICES ASSUME Free({"delete", "kill"}), NEW v \in vms',
                    Gcp(v.by) \/ Free({"lost"})
             PROVE  /\ instance'[v.by] = v.id
                    /\ pc'[v.by] \notin {"setup", "create", "ended"}
                    /\ pc'[v.by] = "createPlain" => Gcp(v.by)
  BY OthersWait DEF OneVmEach, Free, Gcp
<1> DEFINE Early == {"setup", "create", "ended"}
<1>1. /\ \A u \in Workers \ {w} : pc'[u] = pc[u] /\ instance'[u] = instance[u]
      /\ w \in DOMAIN pc /\ w \in DOMAIN instance
      /\ \A u \in vms : u.by \in Workers
      /\ Gcp(w) => instance[w] = <<"gcp", Name[w]>>
                     /\ instance'[w] = instance[w]
  <2>1. /\ \A u \in Workers \ {w} :
             pc'[u] = pc[u] /\ instance'[u] = instance[u]
        /\ w \in DOMAIN pc /\ w \in DOMAIN instance /\ setting' = setting
        /\ \A u \in vms : u.by \in Workers
    BY OthersWait DEF Types, TypeOK
  <2>2. Types'
    BY TypesKept
  <2>3. Gcp(w) => instance[w] = <<"gcp", Name[w]>>
                    /\ instance'[w] = <<"gcp", Name[w]>>
    BY <2>1, <2>2 DEF Types, Gcp
  <2> QED
    BY <2>1, <2>3
<1>2. /\ "delete" \notin setting.faults /\ "kill" \notin setting.faults
      /\ Gcp(v.by) \/ "lost" \notin setting.faults
  BY DEF Free
<1>3. \A u \in vms : Gcp(u.by) \/ Free({"lost"}) =>
        /\ instance[u.by] = u.id /\ pc[u.by] \notin Early
        /\ pc[u.by] = "createPlain" => Gcp(u.by)
  BY DEF OneVmEach
<1>4. CASE v \in vms /\ v.by # w
  BY <1>1, <1>3, <1>4
<1>5. CASE v \in vms /\ v.by = w
  <2>1. /\ pc[w] \notin Early /\ instance[w] = v.id
        /\ pc[w] = "createPlain" => Gcp(w)
    BY <1>3, <1>5
  <2>2. CASE ProbeSsh(w)
    BY <1>1, <1>5, <2>1, <2>2 DEF ProbeSsh, Goto, Order, GcpOrder, AwsOrder
  <2>3. CASE Remote(w)
    <3>1. CASE Goto(w, Order(w)[pc[w]])
      BY <1>1, <1>5, <2>1, <2>3, <3>1
      DEF Remote, Goto, Order, GcpOrder, AwsOrder, Types
    <3>2. CASE Abort(w)
      BY <1>1, <1>5, <2>1, <2>3, <3>2 DEF Remote, Abort, Goto
    <3> QED
      BY <2>3, <3>1, <3>2 DEF Remote
  <2>4. CASE TakeLock(w) \/ Unlock(w) \/ Interrupt(w)
    BY <1>1, <1>5, <2>1, <2>4 DEF TakeLock, Unlock, Interrupt, Abort, Goto
  <2>5. CASE AppendRows(w)
    BY <1>1, <1>5, <2>1, <2>5, AppendTypes DEF AppendRows
  <2>6. ~Cleanup(w)
    BY <1>2, <1>5, <2>1 DEF Cleanup
  <2>7. CASE CreatePlain(w)
    <3>1. Gcp(w) /\ Exists(instance[w]) /\ instance[w] = v.id
      BY <1>5, <2>1, <2>7 DEF CreatePlain, Exists
    <3>2. CreateFails(w, FALSE) /\ Abort(w) /\ instance' = instance
      BY <1>1, <2>7, <3>1
      DEF CreatePlain, CreateSucceeds, CreateFails, Created
    <3> QED
      BY <1>1, <1>5, <2>1, <3>1, <3>2 DEF Abort, Goto
  <2>8. ~Setup(w) /\ ~CreateWithShutoff(w) /\ ~Kill(w)
    BY <1>2, <2>1 DEF Setup, CreateWithShutoff, Kill
  <2> QED
    BY <2>2, <2>3, <2>4, <2>5, <2>6, <2>7, <2>8 DEF Acts, Step
<1>6. CASE v \notin vms
  <2>1. PICK shutoff \in BOOLEAN :
          /\ Created(w, shutoff)
          /\ \/ CreateSucceeds(w, shutoff)
             \/ /\ "lost" \in setting.faults
                /\ pc'[w] \in {"createPlain", "cleanup"}
    <3>1. ~(vms' \subseteq vms)
      BY <1>6
    <3>2. CASE CreateWithShutoff(w)
      BY <1>1, <3>1, <3>2
      DEF CreateWithShutoff, CreateSucceeds, CreateFails, Goto
    <3>3. CASE CreatePlain(w)
      BY <1>1, <3>1, <3>3
      DEF CreatePlain, CreateSucceeds, CreateFails, Abort, Goto
    <3>4. CASE Interrupt(w)
      BY <1>1, <3>1, <3>4 DEF Interrupt, Abort, Goto
    <3> QED
      BY <3>1, <3>2, <3>3, <3>4
      DEF Acts, Step, Setup, ProbeSsh, Remote, TakeLock, AppendRows, Unlock,
          Cleanup, Kill
  <2>2. /\ v = [id |-> IF Gcp(w) THEN <<"gcp", Name[w]>>
                                 ELSE <<"aws", w, shutoff>>,
                by |-> w, shutoff |-> shutoff]
    BY <1>6, <2>1 DEF Created
  <2>3. CASE CreateSucceeds(w, shutoff)
    <3>1. instance'[w] = v.id
      BY <1>1, <2>2, <2>3 DEF CreateSucceeds
    <3>2. pc'[w] \in {"ssh", "wait"}
      BY <1>1, <2>3 DEF CreateSucceeds, Goto
    <3> QED
      BY <2>2, <3>1, <3>2
  <2>4. CASE /\ "lost" \in setting.faults
             /\ pc'[w] \in {"createPlain", "cleanup"}
    BY <1>1, <1>2, <2>2, <2>4
  <2> QED
    BY <2>1, <2>3, <2>4
<1> QED
  BY <1>4, <1>5, <1>6

-----------------------------------------------------------------------------
(* The count of rows.                                                      *)

\* A write is one more of its worker, and none of another.
LEMMA WrittenAppend ==
  ASSUME csv \in Seq(Workers), NEW w \in Workers, csv' = Append(csv, w)
  PROVE  \A v \in Workers :
           Written(v)' = IF v = w THEN Written(v) + 1 ELSE Written(v)
<1> SUFFICES ASSUME NEW v \in Workers
             PROVE  Written(v)' = IF v = w THEN Written(v) + 1 ELSE Written(v)
  OBVIOUS
<1> DEFINE S == {i \in DOMAIN csv : csv[i] = v}
           n == Len(csv) + 1
<1>1. n \in Nat \ {0} /\ DOMAIN csv = 1 .. n - 1
  OBVIOUS
<1>2. IsFiniteSet(S) /\ n \notin S
  <2>1. IsFiniteSet(1 .. n - 1)
    BY <1>1, FS_Interval
  <2> QED
    BY <1>1, <2>1, FS_Subset
<1>3. {i \in DOMAIN csv' : csv'[i] = v} = IF v = w THEN S \cup {n} ELSE S
  OBVIOUS
<1> QED
  BY <1>2, <1>3, FS_AddElement DEF Written

LEMMA WrittenType ==
  ASSUME csv \in Seq(Workers), NEW v \in Workers
  PROVE  Written(v) \in Nat
<1>1. IsFiniteSet(1 .. Len(csv))
  BY FS_Interval
<1>2. {i \in DOMAIN csv : csv[i] = v} \in SUBSET (1 .. Len(csv))
  OBVIOUS
<1> QED
  BY <1>1, <1>2, FS_Subset, FS_CardinalityType DEF Written

\* Only a command before the first row can fail, when the merge is whole.
LEMMA TallyKept ==
  ASSUME Types, MergesWhole, NEW w \in Workers, Tally(w), Acts(w)
  PROVE  Tally(w)'
<1>1. /\ w \in DOMAIN pc /\ w \in DOMAIN exit /\ csv \in Seq(Workers)
      /\ pc[w] \in Labels /\ Chunks \in Nat \ {0} /\ Written(w) \in Nat
  BY WorkersAssumption, WrittenType DEF Types, TypeOK
<1>2. /\ "append" \notin setting.faults /\ "interrupt" \notin setting.faults
      /\ "kill" \notin setting.faults /\ "unlock" \notin setting.faults
  BY DEF MergesWhole, Free
<1>3. csv' = csv => Written(w)' = Written(w)
  BY DEF Written
<1>4. ASSUME UNCHANGED <<exit, csv>>, pc[w] \in Before,
             pc'[w] \in Before \cup {"append"}
      PROVE  Tally(w)'
  BY <1>1, <1>3, <1>4 DEF Tally, Before
<1>5. ASSUME Abort(w) \/ (Goto(w, "ended") /\ exit' = [exit EXCEPT ![w] = 1]),
             csv' = csv, pc[w] \in Before
      PROVE  Tally(w)'
  <2>1. exit'[w] = 1 /\ pc'[w] \in {"cleanup", "ended"}
    BY <1>1, <1>5 DEF Abort, Goto
  <2> QED
    BY <1>3, <1>5, <2>1 DEF Tally, Before
<1>6. CASE Setup(w)
  BY <1>1, <1>4, <1>5, <1>6 DEF Setup, Before, Goto
<1>7. CASE CreateWithShutoff(w)
  <2>1. pc'[w] \in Before /\ UNCHANGED <<exit, csv>> /\ pc[w] \in Before
    BY <1>1, <1>7 DEF CreateWithShutoff, CreateSucceeds, Goto, Before
  <2> QED
    BY <1>4, <2>1
<1>8. CASE CreatePlain(w)
  <2>1. CASE CreateSucceeds(w, FALSE)
    <3>1. pc'[w] \in Before /\ UNCHANGED <<exit, csv>> /\ pc[w] \in Before
      BY <1>1, <1>8, <2>1 DEF CreatePlain, CreateSucceeds, Goto, Before
    <3> QED
      BY <1>4, <3>1
  <2>2. CASE Abort(w)
    BY <1>5, <1>8, <2>2 DEF CreatePlain, Before
  <2> QED
    BY <1>8, <2>1, <2>2 DEF CreatePlain
<1>9. CASE ProbeSsh(w)
  <2>1. pc'[w] \in Before /\ UNCHANGED <<exit, csv>> /\ pc[w] \in Before
    BY <1>1, <1>9 DEF ProbeSsh, Goto, Order, GcpOrder, AwsOrder, Before
  <2> QED
    BY <1>4, <2>1
<1>10. CASE Remote(w)
  <2>1. pc[w] \in Before /\ csv' = csv
    BY <1>10 DEF Remote, Before
  <2>2. CASE Goto(w, Order(w)[pc[w]]) /\ UNCHANGED exit
    <3>1. pc'[w] \in Before \cup {"append"}
      BY <1>1, <1>10, <2>2
      DEF Remote, Goto, Order, GcpOrder, AwsOrder, Before, Types
    <3> QED
      BY <1>4, <2>1, <2>2, <3>1
  <2>3. CASE Abort(w)
    BY <1>5, <2>1, <2>3
  <2> QED
    BY <1>10, <2>2, <2>3 DEF Remote
<1>11. CASE TakeLock(w)
  <2>1. pc'[w] = "append" /\ UNCHANGED <<exit, csv>> /\ pc[w] \in Before
    BY <1>1, <1>11 DEF TakeLock, Goto, Before
  <2> QED
    BY <1>4, <2>1
<1>12. CASE AppendRows(w)
  <2>1. /\ csv' = Append(csv, w) /\ exit' = exit /\ pc[w] = "append"
        /\ pc' = [pc EXCEPT ![w] =
                    IF Written(w) + 1 < Chunks THEN "append" ELSE "unlock"]
    BY <1>2, <1>12 DEF AppendRows, Goto
  <2>2. Written(w)' = Written(w) + 1 /\ exit[w] = 0 /\ Written(w) < Chunks
    BY <1>1, <2>1, WrittenAppend DEF Tally
  <2>3. pc'[w] = IF Written(w) + 1 < Chunks THEN "append" ELSE "unlock"
    BY <1>1, <2>1
  <2> QED
    BY <1>1, <2>1, <2>2, <2>3 DEF Tally, Before
<1>13. CASE Unlock(w) \/ Cleanup(w)
  <2>1. /\ UNCHANGED <<exit, csv>>
        /\ \/ pc[w] = "unlock" /\ pc'[w] = "cleanup"
           \/ pc[w] = "cleanup" /\ pc'[w] = "ended"
    BY <1>1, <1>2, <1>13 DEF Unlock, Cleanup, Goto
  <2> QED
    BY <1>3, <2>1 DEF Tally, Before
<1>14. ~Interrupt(w) /\ ~Kill(w)
  BY <1>2 DEF Interrupt, Kill
<1> QED
  BY <1>6, <1>7, <1>8, <1>9, <1>10, <1>11, <1>12, <1>13, <1>14 DEF Acts, Step

\* A step of one worker changes no count of another.
LEMMA OthersKeepTally ==
  ASSUME Types, NEW w \in Workers, Acts(w), NEW v \in Workers \ {w}
  PROVE  /\ pc'[v] = pc[v] /\ exit'[v] = exit[v]
         /\ Written(v)' = Written(v)
<1>1. pc'[v] = pc[v] /\ exit'[v] = exit[v] /\ csv \in Seq(Workers)
  BY OthersWait DEF Types, TypeOK
<1>2. Written(v)' = Written(v)
  BY <1>1, Moves, WrittenAppend DEF Written
<1> QED
  BY <1>1, <1>2

LEMMA TalliedKept ==
  ASSUME Types, Tallied, NEW w \in Workers, Acts(w)
  PROVE  Tallied'
<1> SUFFICES ASSUME MergesWhole, NEW v \in Workers PROVE Tally(v)'
  BY OthersWait DEF Tallied, MergesWhole, Free
<1>1. Tally(v)
  BY DEF Tallied
<1>2. CASE v = w
  BY <1>1, <1>2, TallyKept
<1>3. CASE v # w
  BY <1>1, <1>3, OthersKeepTally DEF Tally
<1> QED
  BY <1>2, <1>3

-----------------------------------------------------------------------------
(* The theorems.                                                           *)

LEMMA InitInv == Init => IInv
<1> SUFFICES ASSUME Init PROVE IInv
  OBVIOUS
<1> USE WorkersAssumption
<1>1. Types
  <2>1. \A w \in Workers : <<"gcp", Name[w]>> \in Ids
    BY DEF Ids
  <2>2. csv \in Seq(Workers)
    BY DEF Init
  <2>3. instance \in [Workers -> Ids \cup {NoVM}]
    BY <2>1 DEF Init
  <2>4. TypeOK
    <3>1. pc \in [Workers -> Labels]
      BY DEF Init, Labels
    <3>2. tries \in [Workers -> 0 .. Tries] /\ exit \in [Workers -> {0, 1}]
      BY DEF Init
    <3> QED
      BY <2>2, <2>3, <3>1, <3>2 DEF Init, TypeOK
  <2>5. \A w \in Workers :
          Gcp(w) => instance[w] = <<"gcp", Name[w]>>
    BY DEF Init
  <2>6. \A w \in Workers : pc[w] = "setup" /\ tries[w] < Tries
    BY DEF Init
  <2> QED
    BY <2>4, <2>5, <2>6 DEF Types
<1>2. Locked
  BY DEF Init, Locked, Holding
<1>3. RowsContiguous /\ Behind
  BY DEF Init, RowsContiguous, Behind
<1>4. OneVmEach
  BY DEF Init, OneVmEach
<1>5. \A w \in Workers : Written(w) = 0
  <2>1. \A w \in Workers : {i \in DOMAIN csv : csv[i] = w} = {}
    BY DEF Init
  <2> QED
    BY <2>1, FS_EmptySet DEF Written
<1>6. Tallied
  BY <1>5 DEF Init, Tallied, Tally, Before
<1> QED
  BY <1>1, <1>2, <1>3, <1>4, <1>6 DEF IInv

LEMMA NextInv == IInv /\ [Next]_vars => IInv'
<1> SUFFICES ASSUME IInv, [Next]_vars PROVE IInv'
  OBVIOUS
<1>1. ASSUME NEW w \in Workers, Acts(w) PROVE IInv'
  BY <1>1, TypesKept, LockedKept, RowsKept, VmsKept, TalliedKept DEF IInv
<1>2. ASSUME UNCHANGED <<setting, pc, tries, exit, instance, lock, csv>>,
             vms' \subseteq vms
      PROVE  IInv'
  <2>1. Types'
    BY <1>2 DEF IInv, Types, TypeOK, Gcp
  <2>2. Locked'
    BY <1>2 DEF IInv, Locked, Holding, Gcp
  <2>3. (RowsContiguous /\ Behind)'
    BY <1>2 DEF IInv, RowsContiguous, Behind, Gcp
  <2>4. OneVmEach'
    BY <1>2 DEF IInv, OneVmEach, Free, Gcp
  <2>5. Tallied'
    BY <1>2 DEF IInv, Tallied, Tally, MergesWhole, Free, Written
  <2> QED
    BY <2>1, <2>2, <2>3, <2>4, <2>5 DEF IInv
<1>3. CASE \E v \in vms : Shutoff(v)
  BY <1>2, <1>3 DEF Shutoff
<1>4. CASE UNCHANGED vars \/ \E w \in Workers : WaitLock(w)
  BY <1>2, <1>4 DEF vars, WaitLock
<1> QED
  BY <1>1, <1>3, <1>4 DEF Next, Acts, Finished

\* The inductive invariant of any workers in any setting.
THEOREM Invariance == Spec => []IInv
  BY InitInv, NextInv, PTL DEF Spec

\* Every variable keeps its type.
THEOREM WorkersTyped == Spec => []TypeOK
<1>1. IInv => TypeOK
  BY DEF IInv, Types
<1> QED
  BY <1>1, Invariance, PTL

\* However many panes append at once and whatever fails or is killed, the rows
\* of a GCP worker are together among those of GCP (_bench-worker.sh 119-124).
THEOREM RowsStayTogether == Spec => []RowsContiguous
<1>1. IInv => RowsContiguous
  BY DEF IInv
<1> QED
  BY <1>1, Invariance, PTL

\* The exit status of a worker tells the fleet whether its rows are merged,
\* when nothing cuts the merge off (_bench-worker.sh, bench-aws.sh).
THEOREM StatusTellsMerge == Spec => []ExitTellsMerged
<1>1. IInv => ExitTellsMerged
  BY DEF IInv, Tallied, Tally, ExitTellsMerged
<1> QED
  BY <1>1, Invariance, PTL

\* As long as traps run and deletions work, a VM has a live worker whose trap
\* deletes it, on GCP whatever becomes of the answer to its creation
\* (_bench-worker.sh 34-39, bench-aws.sh 50-57).
THEOREM VmsHaveOwners == Spec => []VmsAccounted
<1>1. IInv => VmsAccounted
  BY DEF IInv, OneVmEach, VmsAccounted
<1> QED
  BY <1>1, Invariance, PTL

-----------------------------------------------------------------------------
(* The refinement of WorkerContract.                                       *)

Result ==
  [w \in Workers |->
     IF ~MergesWhole THEN "working"
     ELSE IF exit[w] = 1 THEN "failed"
     ELSE IF Written(w) = Chunks \/ pc[w] = "ended" THEN "ok"
     ELSE "working"]

Merged == {w \in Workers : MergesWhole /\ Written(w) = Chunks}

\* Status and count of a worker together tell what it did, and a step of it
\* gives its rows, or fails, or does nothing that the fleet can see.
LEMMA ActsUse ==
  ASSUME Types, Types', Tallied, Tallied', MergesWhole,
         NEW w \in Workers, Acts(w)
  PROVE  \/ Contract!Succeed(w) \/ Contract!Fail(w)
         \/ Result' = Result /\ Merged' = Merged
<1>1. /\ \A v \in Workers : Tally(v) /\ Tally(v)'
      /\ MergesWhole'
  BY OthersWait DEF Tallied, MergesWhole, Free
<1>2. /\ \A v \in Workers : pc[v] \in Labels /\ exit[v] \in {0, 1}
      /\ \A v \in Workers : pc'[v] \in Labels /\ exit'[v] \in {0, 1}
      /\ csv \in Seq(Workers) /\ Chunks \in Nat \ {0}
  BY WorkersAssumption DEF Types, TypeOK
<1> DEFINE Outcome(e, n) == IF e = 1 THEN "failed"
                            ELSE IF n = Chunks THEN "ok" ELSE "working"
<1>3. /\ Result = [v \in Workers |-> Outcome(exit[v], Written(v))]
      /\ Merged = {v \in Workers : Written(v) = Chunks}
  <2>1. \A v \in Workers :
          exit[v] # 1 /\ pc[v] = "ended" => Written(v) = Chunks
    BY <1>1, <1>2 DEF Tally
  <2> QED
    BY <2>1 DEF Result, Merged
<1>4. /\ Result' = [v \in Workers |-> Outcome(exit'[v], Written(v)')]
      /\ Merged' = {v \in Workers : Written(v)' = Chunks}
  <2>1. \A v \in Workers :
          exit'[v] # 1 /\ pc'[v] = "ended" => Written(v)' = Chunks
    BY <1>1, <1>2 DEF Tally
  <2> QED
    BY <1>1, <2>1 DEF Result, Merged
<1>5. \A v \in Workers \ {w} :
        exit'[v] = exit[v] /\ Written(v)' = Written(v)
  BY OthersKeepTally
<1>6. /\ Written(w) \in Nat
      /\ Written(w)' = Written(w) \/ Written(w)' = Written(w) + 1
  <2>1. csv' = csv => Written(w)' = Written(w)
    BY DEF Written
  <2> QED
    BY <1>2, <2>1, Moves, WrittenType, WrittenAppend
<1>7. exit'[w] = exit[w] \/ exit'[w] = 1
  BY OthersWait
  DEF Acts, Step, Setup, CreateWithShutoff, CreatePlain, CreateSucceeds,
      CreateFails, ProbeSsh, Remote, TakeLock, AppendRows, Unlock, Cleanup,
      Interrupt, Kill, Abort, Types, TypeOK
<1>8. /\ exit[w] = 1 => Written(w) = 0
      /\ exit'[w] = 1 => Written(w)' = 0
      /\ Written(w) <= Chunks /\ Written(w)' <= Chunks
  BY <1>1, <1>2, <1>6 DEF Tally, Labels, Before
<1> HIDE DEF Outcome
<1>9. CASE exit'[w] = exit[w] /\ Written(w)' = Written(w)
  BY <1>3, <1>4, <1>5, <1>9
<1>10. CASE exit[w] = 0 /\ exit'[w] = 1
  <2>1. Written(w) = 0 /\ Written(w)' = 0
    BY <1>6, <1>8, <1>10
  <2>2. Result[w] = "working" /\ Result'[w] = "failed"
    BY <1>2, <1>3, <1>4, <1>10, <2>1 DEF Outcome
  <2>3. Result' = [Result EXCEPT ![w] = "failed"]
    BY <1>3, <1>4, <1>5, <2>2
  <2>4. Merged' = Merged
    BY <1>3, <1>4, <1>5, <2>1
  <2> QED
    BY <2>2, <2>3, <2>4 DEF Contract!Fail, Result, Merged
<1>11. CASE /\ exit'[w] = 0 /\ exit[w] = 0 /\ Written(w)' = Written(w) + 1
            /\ Written(w)' # Chunks
  <2>1. Outcome(exit'[w], Written(w)') = Outcome(exit[w], Written(w))
    BY <1>6, <1>8, <1>11 DEF Outcome
  <2>2. Written(w) # Chunks
    BY <1>2, <1>6, <1>8, <1>11
  <2> QED
    BY <1>3, <1>4, <1>5, <1>11, <2>1, <2>2
<1>12. CASE /\ exit'[w] = 0 /\ exit[w] = 0 /\ Written(w)' = Written(w) + 1
            /\ Written(w)' = Chunks
  <2>1. Written(w) # Chunks
    BY <1>6, <1>12
  <2>2. Result[w] = "working" /\ Result'[w] = "ok"
    BY <1>3, <1>4, <1>12, <2>1 DEF Outcome
  <2>3. Result' = [Result EXCEPT ![w] = "ok"]
    BY <1>3, <1>4, <1>5, <2>2
  <2>4. Merged' = Merged \cup {w}
    BY <1>3, <1>4, <1>5, <1>12
  <2> QED
    BY <2>2, <2>3, <2>4 DEF Contract!Succeed, Result, Merged
<1> QED
  BY <1>2, <1>6, <1>7, <1>8, <1>9, <1>10, <1>11, <1>12

\* To the fleets a worker is one command that gives its rows once, or fails and
\* gives none, whatever happens in between (bench-gcp-fleet.sh 22-32).
THEOREM WorkersKeepContract == Spec => ImplementsContract
<1>1. Init => Contract!Init
  <2> SUFFICES ASSUME Init PROVE Contract!Init
    OBVIOUS
  <2>1. \A w \in Workers :
          exit[w] = 0 /\ pc[w] = "setup" /\ (MergesWhole => Written(w) # Chunks)
    BY InitInv, WorkersAssumption DEF Init, IInv, Tallied, Tally, Before
  <2> QED
    BY <2>1 DEF Contract!Init
<1>2. IInv /\ IInv' /\ [Next]_vars => [Contract!Next]_(Contract!vars)
  <2> SUFFICES ASSUME IInv, IInv', [Next]_vars
               PROVE  \/ Contract!Next
                      \/ Result' = Result /\ Merged' = Merged
    BY DEF Contract!vars, Result, Merged
  <2>1. ASSUME UNCHANGED <<setting, pc, exit, csv>>
        PROVE  Result' = Result /\ Merged' = Merged
    BY <2>1 DEF Result, Merged, MergesWhole, Free, Written
  <2>2. ASSUME NEW w \in Workers, Acts(w), MergesWhole
        PROVE  \/ Contract!Next
               \/ Result' = Result /\ Merged' = Merged
    BY <2>2, ActsUse DEF IInv, Contract!Next
  <2>3. ASSUME NEW w \in Workers, Acts(w), ~MergesWhole
        PROVE  Result' = Result /\ Merged' = Merged
    <3>1. ~MergesWhole'
      BY <2>3, OthersWait DEF IInv, MergesWhole, Free
    <3> QED
      BY <2>3, <3>1 DEF Result, Merged
  <2>4. CASE \/ \E v \in vms : Shutoff(v)
             \/ \E w \in Workers : WaitLock(w)
             \/ UNCHANGED vars
    BY <2>1, <2>4 DEF Shutoff, WaitLock, vars
  <2> QED
    BY <2>2, <2>3, <2>4 DEF Next, Acts, Finished
<1> QED
  BY <1>1, <1>2, Invariance, PTL DEF Spec, ImplementsContract, Contract!Spec
=============================================================================
