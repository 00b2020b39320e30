---------------------------- MODULE BenchWorker ----------------------------
(***************************************************************************)
(* The single-machine benchmark workers: machines/_bench-worker.sh on GCP  *)
(* and machines/bench-aws.sh on AWS.  A worker provisions a VM, uploads    *)
(* the prebuilt binary, tunes the VM, runs the benchmarks, pulls the rows, *)
(* and merges them into data/dead.csv.  Several workers ("panes", line 119 *)
(* of _bench-worker.sh) may run at once over one checkout.  Both scripts   *)
(* run under set -e with an EXIT trap that tears the VM down: a command    *)
(* that fails sends the worker to its trap with that exit status.          *)
(*                                                                         *)
(* The clouds are modelled from how the scripts use them: a command        *)
(* creates, reaches or deletes a VM, or fails.  Time is not modelled: a VM *)
(* with the auto-shutoff may stop at any moment.                           *)
(***************************************************************************)
EXTENDS Naturals, Sequences, FiniteSets

CONSTANTS
  Workers,    \* the worker processes
  Name,       \* NAME of each worker (line 14): its VM, its file in /tmp
  Tries,      \* the SSH probes before the upload is tried anyway (30)
  Chunks,     \* the writes in which tail copies one worker's rows
  Settings    \* the settings to look at: which script each worker runs, and
              \* what can go wrong

FaultKinds ==
  {"setup",      \* the binary is missing, or the image or group lookup fails
   "reject",     \* the cloud refuses to create the VM
   "lost",       \* the VM is created, but the command reports a failure, or
                 \* is interrupted before its answer is assigned
   "step",       \* a command on the VM fails
   "delete",     \* the teardown command fails
   "mkdir",      \* the directory of the lock cannot be made at all
   "append",     \* tail fails before all rows are written
   "unlock",     \* rmdir of the lock, or rm of the copied file, fails
   "interrupt",  \* the script is interrupted, and its EXIT trap runs
   "kill"}       \* the script is killed, and the trap does not run

ASSUME WorkersAssumption ==
  /\ IsFiniteSet(Workers)
  /\ DOMAIN Name = Workers
  /\ \A v, w \in Workers : Name[v] = Name[w] => v = w
  /\ Tries \in Nat \ {0}
  /\ Chunks \in Nat \ {0}
  /\ Settings \subseteq [cloud  : [Workers -> {"gcp", "aws"}],
                         faults : SUBSET FaultKinds]

NoVM == <<"none">>   \* INSTANCE_ID while it is unset

\* A VM is known by its name on GCP, and by a new instance id on AWS: here the
\* worker and whether it was launched with the kill switch.
Ids == {<<"gcp", Name[w]>> : w \in Workers}
         \cup {<<"aws", w, s>> : w \in Workers, s \in BOOLEAN}

VARIABLES
  setting,   \* the setting of this behaviour
  pc,        \* where each worker is in its script
  tries,     \* the SSH probes that failed
  exit,      \* the exit status: 0, or 1 for any failure
  instance,  \* the VM the trap deletes: NAME on GCP, $INSTANCE_ID on AWS
  vms,       \* the VMs that exist, with their creator and their auto-shutoff
  lock,      \* the directory data/.dead.csv.lock exists
  csv        \* data/dead.csv: whose rows each write appended

vars == <<setting, pc, tries, exit, instance, vms, lock, csv>>

Gcp(w) == setting.cloud[w] = "gcp"

Init ==
  /\ setting \in Settings
  /\ pc = [w \in Workers |-> "setup"]
  /\ tries = [w \in Workers |-> 0]
  /\ exit = [w \in Workers |-> 0]
  /\ instance = [w \in Workers |->
                   IF Gcp(w) THEN <<"gcp", Name[w]>> ELSE NoVM]
  /\ vms = {}
  /\ lock = FALSE
  /\ csv = <<>>

-----------------------------------------------------------------------------
Goto(w, label) == pc' = [pc EXCEPT ![w] = label]

\* Mutant: the trap is not set yet when a command fails.
MutAbort(w) ==
  /\ Goto(w, "ended")
  /\ exit' = [exit EXCEPT ![w] = 1]

\* set -e: the command that failed ends the script, by way of the trap.
Abort(w) ==
  /\ Goto(w, "cleanup")
  /\ exit' = [exit EXCEPT ![w] = 1]

Exists(id) == \E v \in vms : v.id = id

\* The commands of each script from the SSH wait to the merge, in order.
GcpOrder == [ssh |-> "upload", upload |-> "mount", mount |-> "tune",
             tune |-> "run", run |-> "pull", pull |-> "lock"]
AwsOrder == [wait |-> "ssh", ssh |-> "upload", upload |-> "tune",
             tune |-> "run", run |-> "pull", pull |-> "append"]
Order(w) == IF Gcp(w) THEN GcpOrder ELSE AwsOrder

\* Before the trap is set: a failure here just exits.
Setup(w) ==
  /\ pc[w] = "setup"
  /\ \/ Goto(w, "create") /\ UNCHANGED exit
     \/ /\ "setup" \in setting.faults
        /\ Goto(w, "ended")
        /\ exit' = [exit EXCEPT ![w] = 1]
  /\ UNCHANGED <<setting, tries, instance, vms, lock, csv>>

\* create_vm and run_instance: first with the auto-shutoff, and if that is
\* refused once more without.  GCP refuses a name that exists.
Created(w, shutoff) ==
  LET id == IF Gcp(w) THEN <<"gcp", Name[w]>> ELSE <<"aws", w, shutoff>>
  IN  /\ ~Exists(id)
      /\ vms' = vms \cup {[id |-> id, by |-> w, shutoff |-> shutoff]}

CreateSucceeds(w, shutoff) ==
  /\ Created(w, shutoff)
  /\ instance' = IF Gcp(w) THEN instance
                 ELSE [instance EXCEPT ![w] = <<"aws", w, shutoff>>]
  /\ Goto(w, IF Gcp(w) THEN "ssh" ELSE "wait")
  /\ UNCHANGED exit

\* A refusal, a VM of that name in the way, or a response that never came:
\* in the last case the VM is there.
CreateFails(w, shutoff) ==
  \/ /\ "reject" \in setting.faults \/ (Gcp(w) /\ Exists(instance[w]))
     /\ UNCHANGED <<vms, instance>>
  \/ /\ "lost" \in setting.faults
     /\ Created(w, shutoff)
     /\ UNCHANGED instance

\* Mutant: the first attempt comes without the auto-shutoff.
MutCreateWithShutoff(w) ==
  /\ pc[w] = "create"
  /\ \/ CreateSucceeds(w, FALSE)
     \/ CreateFails(w, FALSE) /\ Goto(w, "createPlain") /\ UNCHANGED exit
  /\ UNCHANGED <<setting, tries, lock, csv>>

CreateWithShutoff(w) ==
  /\ pc[w] = "create"
  /\ \/ CreateSucceeds(w, TRUE)
     \/ CreateFails(w, TRUE) /\ Goto(w, "createPlain") /\ UNCHANGED exit
  /\ UNCHANGED <<setting, tries, lock, csv>>

CreatePlain(w) ==
  /\ pc[w] = "createPlain"
  /\ \/ CreateSucceeds(w, FALSE)
     \/ CreateFails(w, FALSE) /\ Abort(w)
  /\ UNCHANGED <<setting, tries, lock, csv>>

\* Mutant: the SSH wait has no limit.
MutProbeSsh(w) ==
  /\ pc[w] = "ssh"
  /\ \/ /\ Exists(instance[w])
        /\ Goto(w, Order(w)["ssh"])
        /\ UNCHANGED tries
     \/ /\ tries' = [tries EXCEPT ![w] = @ + 1]
        /\ UNCHANGED pc
  /\ UNCHANGED <<setting, exit, instance, vms, lock, csv>>

\* One turn of the SSH wait.  After the last the script goes on regardless.
ProbeSsh(w) ==
  /\ pc[w] = "ssh"
  /\ \/ /\ Exists(instance[w])
        /\ Goto(w, Order(w)["ssh"])
        /\ UNCHANGED tries
     \/ /\ tries' = [tries EXCEPT ![w] = @ + 1]
        /\ Goto(w, IF tries[w] + 1 < Tries THEN "ssh" ELSE Order(w)["ssh"])
  /\ UNCHANGED <<setting, exit, instance, vms, lock, csv>>

\* A command that needs the VM: it fails if the VM is gone.
Remote(w) ==
  /\ pc[w] \in {"wait", "upload", "mount", "tune", "run", "pull"}
  /\ \/ Exists(instance[w]) /\ Goto(w, Order(w)[pc[w]]) /\ UNCHANGED exit
     \/ ("step" \in setting.faults \/ ~Exists(instance[w])) /\ Abort(w)
  /\ UNCHANGED <<setting, tries, instance, vms, lock, csv>>

\* Mutant: mkdir -p, which succeeds when the directory is there.
MutTakeLock(w) ==
  /\ pc[w] = "lock"
  /\ "mkdir" \notin setting.faults
  /\ lock' = TRUE
  /\ Goto(w, "append")
  /\ UNCHANGED <<setting, tries, exit, instance, vms, csv>>

\* while ! mkdir "$LOCKFILE"; do sleep 0.5; done -- GCP only.
TakeLock(w) ==
  /\ pc[w] = "lock"
  /\ ~lock /\ "mkdir" \notin setting.faults
  /\ lock' = TRUE
  /\ Goto(w, "append")
  /\ UNCHANGED <<setting, tries, exit, instance, vms, csv>>

\* The loop cannot tell a lock that is taken from one that cannot be made.
WaitLock(w) ==
  /\ pc[w] = "lock"
  /\ lock \/ "mkdir" \in setting.faults
  /\ UNCHANGED vars

Written(w) == Cardinality({i \in DOMAIN csv : csv[i] = w})

\* tail -n +2 ... >> dead.csv, one write at a time.  A failure of tail leaves
\* the lock where it is: the trap does not know it.
AppendRows(w) ==
  /\ pc[w] = "append"
  /\ \/ /\ csv' = Append(csv, w)
        /\ Goto(w, IF Written(w) + 1 < Chunks THEN "append"
                   ELSE "unlock")
        /\ UNCHANGED exit
     \/ "append" \in setting.faults /\ Abort(w) /\ UNCHANGED csv
  /\ UNCHANGED <<setting, tries, instance, vms, lock>>

\* Mutant: the lock is not released.
MutUnlock(w) ==
  /\ pc[w] = "unlock"
  /\ \/ Goto(w, "cleanup") /\ UNCHANGED exit
     \/ "unlock" \in setting.faults /\ Abort(w)
  /\ UNCHANGED <<setting, tries, instance, vms, lock, csv>>

\* rmdir "$LOCKFILE" on GCP, and rm of the copied file; the script ends, and
\* the trap runs.  If one of them fails, the rows are in the file all the same.
Unlock(w) ==
  /\ pc[w] = "unlock"
  /\ \/ /\ lock' = (lock /\ ~Gcp(w))
        /\ Goto(w, "cleanup") /\ UNCHANGED exit
     \/ /\ "unlock" \in setting.faults
        /\ lock' \in {lock, lock /\ ~Gcp(w)}
        /\ Abort(w)
  /\ UNCHANGED <<setting, tries, instance, vms, csv>>

\* Mutant: the trap without "|| true", so that a failed deletion is the exit
\* status of a worker that has merged its rows.
MutCleanupStrict(w) ==
  /\ pc[w] = "cleanup"
  /\ Goto(w, "ended")
  /\ \/ vms' = {v \in vms : v.id # instance[w]} /\ UNCHANGED exit
     \/ /\ "delete" \in setting.faults
        /\ exit' = [exit EXCEPT ![w] = 1]
        /\ UNCHANGED vms
  /\ UNCHANGED <<setting, tries, instance, lock, csv>>

\* The EXIT trap: its errors are ignored, and on AWS an empty INSTANCE_ID is
\* nothing to terminate.
Cleanup(w) ==
  /\ pc[w] = "cleanup"
  /\ Goto(w, "ended")
  /\ \/ vms' = {v \in vms : v.id # instance[w]}
     \/ "delete" \in setting.faults /\ UNCHANGED vms
  /\ UNCHANGED <<setting, tries, exit, instance, lock, csv>>

Interrupt(w) ==
  /\ "interrupt" \in setting.faults
  /\ pc[w] \notin {"setup", "cleanup", "ended"}
  /\ Abort(w)
  /\ \/ UNCHANGED vms
     \/ /\ "lost" \in setting.faults
        /\ pc[w] \in {"create", "createPlain"}
        /\ Created(w, pc[w] = "create")
  /\ UNCHANGED <<setting, tries, instance, lock, csv>>

Kill(w) ==
  /\ "kill" \in setting.faults
  /\ pc[w] # "ended"
  /\ Goto(w, "ended")
  /\ exit' = [exit EXCEPT ![w] = 1]
  /\ UNCHANGED <<setting, tries, instance, vms, lock, csv>>

\* The auto-shutoff: --max-run-duration on GCP, shutdown -h +180 on AWS.
Shutoff(v) ==
  /\ v.shutoff
  /\ vms' = vms \ {v}
  /\ UNCHANGED <<setting, pc, tries, exit, instance, lock, csv>>

Step(w) ==
  \/ Setup(w) \/ CreateWithShutoff(w) \/ CreatePlain(w) \/ ProbeSsh(w)
  \/ Remote(w) \/ TakeLock(w) \/ AppendRows(w) \/ Unlock(w)
  \/ Cleanup(w)

AllEnded == \A w \in Workers : pc[w] = "ended"

Finished == AllEnded /\ UNCHANGED vars

Next ==
  \/ \E w \in Workers : Step(w) \/ WaitLock(w) \/ Interrupt(w) \/ Kill(w)
  \/ \E v \in vms : Shutoff(v)
  \/ Finished

\* A script goes on until it ends, and a VM with the auto-shutoff does stop.
Fairness ==
  /\ \A w \in Workers : WF_vars(Step(w))
  /\ WF_vars(\E v \in vms : Shutoff(v))

Spec == Init /\ [][Next]_vars
FairSpec == Spec /\ Fairness

-----------------------------------------------------------------------------
(* Properties.                                                             *)

Labels == {"setup", "create", "createPlain", "wait", "ssh", "upload", "mount",
           "tune", "run", "pull", "lock", "append", "unlock", "cleanup",
           "ended"}

Free(kinds) == setting.faults \cap kinds = {}

\* Nothing stops a worker between the first row it merges and its end.
MergesWhole == Free({"append", "unlock", "interrupt", "kill"})

\* Every variable keeps its type.
TypeOK ==
  /\ setting \in Settings
  /\ pc \in [Workers -> Labels]
  /\ tries \in [Workers -> 0 .. Tries]
  /\ exit \in [Workers -> {0, 1}]
  /\ instance \in [Workers -> Ids \cup {NoVM}]
  /\ vms \subseteq [id : Ids, by : Workers, shutoff : BOOLEAN]
  /\ lock \in BOOLEAN
  /\ csv \in Seq(Workers)

\* The fleet counts a worker ok by its exit status alone (bench-gcp-fleet.sh
\* 23-24): 0 means its rows are in dead.csv once, anything else that none are,
\* so that a machine logged as failed can be run again without doubling rows.
ExitTellsMerged ==
  MergesWhole =>
    \A w \in Workers :
      pc[w] = "ended" => Written(w) = IF exit[w] = 0 THEN Chunks ELSE 0

\* "use lockfile to prevent concurrent panes from interleaving"
\* (_bench-worker.sh:119): between the rows of one GCP worker there are none of
\* another.  bench-aws.sh:146 appends without the lock.
RowsContiguous ==
  \A i, j \in DOMAIN csv :
    i < j /\ csv[i] = csv[j] /\ Gcp(csv[i]) =>
      \A k \in i .. j : Gcp(csv[k]) => csv[k] = csv[i]

\* No machine is billed with nobody to delete it: as long as traps run and
\* deletions work, every VM is the one that a live worker will delete.  On GCP
\* this is so even if the answer to its creation is lost, since the trap has
\* the name; on AWS the id is in that answer.
VmsAccounted ==
  Free({"delete", "kill"}) =>
    \A v \in vms : Gcp(v.by) \/ Free({"lost"}) =>
      instance[v.by] = v.id /\ pc[v.by] # "ended"

\* Each worker ends, whatever fails in it or in the others, unless one is
\* stopped between the mkdir and the rmdir of the lock, or can never make it.
EveryWorkerEnds ==
  MergesWhole /\ Free({"mkdir"}) => \A w \in Workers : <>(pc[w] = "ended")

\* The kill switch "survives the runner being cancelled" (bench-aws.sh:79-81):
\* when the clouds accept it, no VM runs for good, even if the workers are
\* killed before they can delete it, the deletion fails, or one waits for ever.
AllVmsGo == Free({"reject", "lost"}) => <>[](vms = {})

\* A worker is to the fleet scripts the one command that WorkerContract says,
\* as long as its merge is not cut off.
Contract == INSTANCE WorkerContract WITH
  result <- [w \in Workers |->
               IF ~MergesWhole THEN "working"
               ELSE IF exit[w] = 1 THEN "failed"
               ELSE IF Written(w) = Chunks \/ pc[w] = "ended" THEN "ok"
               ELSE "working"],
  merged <- {w \in Workers : MergesWhole /\ Written(w) = Chunks}

ImplementsContract == Contract!Spec

-----------------------------------------------------------------------------
(* What the fleet scripts say of a worker, and the code does not keep.     *)

\* "A machine that fails is appended to $NAPKIN_FAILED_LOG and the fleet moves
\* on" (bench-gcp-fleet.sh:5): each worker ends.
FleetMovesOn == \A w \in Workers : <>(pc[w] = "ended")
=============================================================================
