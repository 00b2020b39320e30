------------------------------ MODULE NetProbe ------------------------------
(***************************************************************************)
(* The same-zone network fleets: machines/bench-net-fleet-{gcp,aws}.sh run *)
(* machines/probe-net-pair-{gcp,aws}.sh for one machine type after the     *)
(* other.  A probe provisions a server and a client, waits for both,       *)
(* installs iperf3, measures over the private and then over the public     *)
(* address, and in a fleet (NAPKIN_CSV set) goes on to append the rows     *)
(* with net_probe_append_csv of scripts/net-probe-csv.sh.  That file is    *)
(* not in the repository, so `source' fails there and ends the probe.      *)
(***************************************************************************)
EXTENDS Naturals, Sequences

CONSTANTS
  Types,     \* the machine types of the fleet, in order
  SshTries,  \* how often SSH is tried in each cloud
  AptTries,  \* how often apt is tried (5)
  FaultSets  \* what can go wrong in a run: the sets of faults to look at

FaultKinds ==
  {"setup",      \* a lookup before the trap is set fails (AWS)
   "create",     \* a creation fails; on GCP a part of the pair may be there
   "lost",       \* an AWS instance is made, but the command fails, or the
                 \* script is interrupted, before its id is assigned
   "ssh", "apt", \* a try of the loop fails
   "step",       \* another command on the pair fails
   "delete",     \* a deletion of the trap fails, which ignores it
   "interrupt",  \* the script is interrupted, and its EXIT trap runs
   "kill"}       \* the script is killed, in the trap too, which is cut off

Machines == {Types[i] : i \in DOMAIN Types}

\* The suffix of all names is the machine type (bench-net-fleet-gcp.sh:21), so
\* a fleet with a type in it twice is outside the model.
ASSUME ProbeAssumption ==
  /\ Types \in Seq(Machines)
  /\ \A i, j \in DOMAIN Types : Types[i] = Types[j] => i = j
  /\ SshTries \in [{"gcp", "aws"} -> Nat \ {0}] /\ AptTries \in Nat \ {0}
  /\ FaultSets \subseteq SUBSET FaultKinds

Roles == {"srv", "cli"}

VARIABLES
  cloud,  \* the pair of scripts that runs: "gcp" or "aws"
  inFleet, \* a fleet runs the probe, with NAPKIN_CSV set
  faults, \* what can go wrong
  left,   \* what an earlier run left of each type, under the names of this one
  pc,     \* where the probe, or the fleet between two probes, is
  queue,  \* the machine types left, the one being probed first
  role,   \* the VM the loop over both is at
  tries,  \* failed attempts of the loop inside
  known,  \* the instances whose ids the trap has on AWS: SRV_ID and CLI_ID
  there,  \* what there is of each type: VMs, and the rule that opens the port
  status  \* the exit status of the probe, and of the fleet once it ends

fixed == <<cloud, inFleet, faults, left>>
vars == <<fixed, pc, queue, role, tries, known, there, status>>

Gcp == cloud = "gcp"
Machine == Head(queue)

Nothing == [t \in Machines |-> {}]

\* The names of a GCP fleet are the same each night, so that it may meet what
\* one before it left; a lone probe takes its names from its process id.
Init ==
  /\ cloud \in {"gcp", "aws"}
  /\ inFleet \in BOOLEAN
  /\ faults \in FaultSets
  /\ left \in IF Gcp /\ inFleet
              THEN [Machines -> SUBSET (Roles \cup {"rule"})] ELSE {Nothing}
  /\ pc = "fleet"
  /\ queue \in IF inFleet THEN {Types} ELSE {<<t>> : t \in Machines}
  /\ role = "srv"
  /\ tries = 0
  /\ known = {}
  /\ there = left
  /\ status = 0

-----------------------------------------------------------------------------
Make(what) == there' = [there EXCEPT ![Machine] = @ \cup what]

Delete(what) == there' = [there EXCEPT ![Machine] = @ \ what]

\* The EXIT trap starts.
Trap ==
  /\ pc' = IF Gcp THEN "closePort" ELSE "terminate"
  /\ role' = "srv"

\* set -e: a command that fails ends the script, by way of the trap.
Abort == Trap /\ status' = 1

\* The next machine type, up to where the trap is set.
StartProbe ==
  /\ pc = "fleet" /\ status = 0 /\ queue # <<>>
  /\ role' = "srv" /\ tries' = 0 /\ known' = {}
  /\ \/ pc' = "create" /\ UNCHANGED status
     \/ "setup" \in faults /\ ~Gcp /\ pc' = "fleet" /\ status' = 1
  /\ UNCHANGED <<fixed, queue, there>>

\* One command for the pair.  It fails if a VM of either name exists, and may
\* have made the other, or both, when it fails.
CreatePair ==
  /\ pc = "create" /\ Gcp
  /\ \/ /\ there[Machine] \cap Roles = {}
        /\ Make(Roles)
        /\ pc' = "ssh" /\ UNCHANGED <<role, status>>
     \/ /\ "create" \in faults \/ there[Machine] \cap Roles # {}
        /\ \E made \in SUBSET Roles : Make(made)
        /\ Abort
  /\ UNCHANGED <<fixed, queue, tries, known>>

\* Mutant: the ids reach the trap only when both instances are there.
MutCreateInstance ==
  /\ pc = "create" /\ ~Gcp
  /\ \/ /\ Make({role})
        /\ known' = IF role = "cli" THEN Roles ELSE known
        /\ pc' = IF role = "srv" THEN "create" ELSE "wait"
        /\ role' = IF role = "srv" THEN "cli" ELSE "srv"
        /\ UNCHANGED status
     \/ "create" \in faults /\ Abort /\ UNCHANGED <<there, known>>
     \/ "lost" \in faults /\ Make({role}) /\ Abort /\ UNCHANGED known
  /\ UNCHANGED <<fixed, queue, tries>>

\* One command for each instance, the server first.  Its id is in the answer.
CreateInstance ==
  /\ pc = "create" /\ ~Gcp
  /\ \/ /\ Make({role})
        /\ known' = known \cup {role}
        /\ pc' = IF role = "srv" THEN "create" ELSE "wait"
        /\ role' = IF role = "srv" THEN "cli" ELSE "srv"
        /\ UNCHANGED status
     \/ "create" \in faults /\ Abort /\ UNCHANGED <<there, known>>
     \/ "lost" \in faults /\ Make({role}) /\ Abort /\ UNCHANGED known
  /\ UNCHANGED <<fixed, queue, tries>>

\* Commands on the pair, after which the script is at `next'.
Command(label, next) ==
  /\ pc = label
  /\ \/ pc' = next /\ UNCHANGED <<role, status>>
     \/ "step" \in faults /\ Abort
  /\ UNCHANGED <<fixed, queue, tries, known, there>>

\* AWS waits until both run, and asks for their addresses.
WaitRunning == Command("wait", "ssh")

\* Mutant: the loop over one VM has no limit.
MutTryBoth(label, fault, limit, next) ==
  /\ pc = label
  /\ \/ /\ tries' = 0
        /\ role' = IF role = "srv" THEN "cli" ELSE "srv"
        /\ pc' = IF role = "srv" THEN label ELSE next
     \/ fault \in faults /\ tries' = tries + 1 /\ UNCHANGED <<pc, role>>
  /\ UNCHANGED <<fixed, queue, known, there, status>>

\* A loop over both VMs that tries each at most `limit' times.
TryBoth(label, fault, limit, next) ==
  /\ pc = label
  /\ \/ /\ tries' = 0
        /\ role' = IF role = "srv" THEN "cli" ELSE "srv"
        /\ pc' = IF role = "srv" THEN label ELSE next
        /\ UNCHANGED status
     \/ /\ fault \in faults
        /\ tries' = tries + 1
        /\ IF tries + 1 = limit THEN Abort ELSE UNCHANGED <<pc, role, status>>
  /\ UNCHANGED <<fixed, queue, known, there>>

WaitSsh == TryBoth("ssh", "ssh", SshTries[cloud], "install")

InstallIperf == TryBoth("install", "apt", AptTries, "inside")

\* The iperf3 server and the measurement over the private path.
MeasureInside == Command("inside", IF Gcp THEN "rule" ELSE "outside")

\* GCP opens the port to the public address of the client, and fails if there
\* is a rule of that name; the group of AWS has it open between its members.
OpenPort ==
  /\ pc = "rule"
  /\ \/ /\ "rule" \notin there[Machine]
        /\ Make({"rule"})
        /\ pc' = "outside" /\ UNCHANGED <<role, status>>
     \/ /\ "step" \in faults \/ "rule" \in there[Machine]
        /\ Abort
        /\ UNCHANGED there
  /\ UNCHANGED <<fixed, queue, tries, known>>

MeasureOutside == Command("outside", "append")

\* In a fleet, `source' of a file that does not exist; alone, nothing to do.
AppendRows ==
  /\ pc = "append"
  /\ IF inFleet THEN Abort ELSE Trap /\ UNCHANGED status
  /\ UNCHANGED <<fixed, queue, tries, known, there>>

\* Mutant: the trap deletes the VMs first.
MutClosePort ==
  /\ pc = "closePort"
  /\ Delete(Roles) \/ ("delete" \in faults /\ UNCHANGED there)
  /\ pc' = "deletePair"
  /\ UNCHANGED <<fixed, queue, role, tries, known, status>>

\* The trap of GCP: first the rule, then both VMs in one command; errors are
\* ignored, and the names are known from the start.
ClosePort ==
  /\ pc = "closePort"
  /\ Delete({"rule"}) \/ ("delete" \in faults /\ UNCHANGED there)
  /\ pc' = "deletePair"
  /\ UNCHANGED <<fixed, queue, role, tries, known, status>>

\* Mutant: a failed machine type is tried again.
MutReturn ==
  /\ pc' = "fleet"
  /\ queue' = IF status = 0 THEN Tail(queue) ELSE queue
  /\ status' = 0

\* The probe ends; the fleet script runs under set -e.
Return ==
  /\ pc' = "fleet"
  /\ queue' = IF status = 0 THEN Tail(queue) ELSE queue
  /\ UNCHANGED status

DeletePair ==
  /\ pc = "deletePair"
  /\ \/ Delete(Roles)
     \/ "delete" \in faults /\ \E gone \in SUBSET Roles : Delete(gone)
  /\ Return
  /\ UNCHANGED <<fixed, role, tries, known>>

\* The trap of AWS: one command for each instance whose id has come.
TerminateInstance ==
  /\ pc = "terminate"
  /\ \/ Delete({role} \cap known)
     \/ "delete" \in faults /\ UNCHANGED there
  /\ IF role = "srv" THEN role' = "cli" /\ UNCHANGED <<pc, queue, status>>
                     ELSE Return /\ UNCHANGED role
  /\ UNCHANGED <<fixed, tries, known>>

InTrap == pc \in {"closePort", "deletePair", "terminate"}

Interrupt ==
  /\ "interrupt" \in faults
  /\ ~InTrap /\ pc \notin {"fleet", "done"}
  /\ Abort
  /\ UNCHANGED <<fixed, queue, tries, known, there>>

Kill ==
  /\ "kill" \in faults
  /\ pc \notin {"fleet", "done"}
  /\ pc' = "fleet" /\ status' = 1
  /\ UNCHANGED <<fixed, queue, role, tries, known, there>>

EndFleet ==
  /\ pc = "fleet"
  /\ status # 0 \/ queue = <<>>
  /\ pc' = "done"
  /\ UNCHANGED <<fixed, queue, role, tries, known, there, status>>

Proceed ==
  \/ StartProbe \/ CreatePair \/ CreateInstance \/ WaitRunning \/ WaitSsh
  \/ InstallIperf \/ MeasureInside \/ OpenPort \/ MeasureOutside
  \/ AppendRows \/ ClosePort \/ DeletePair \/ TerminateInstance \/ EndFleet

Done == pc = "done" /\ UNCHANGED vars

Next == Proceed \/ Interrupt \/ Kill \/ Done

\* Every command of the scripts returns.
Spec == Init /\ [][Next]_vars
FairSpec == Spec /\ WF_vars(Proceed)

-----------------------------------------------------------------------------
(* Properties.                                                             *)

Free(kinds) == faults \cap kinds = {}

\* Every variable keeps its type.
TypeOK ==
  /\ cloud \in {"gcp", "aws"} /\ inFleet \in BOOLEAN /\ faults \in FaultSets
  /\ pc \in {"fleet", "create", "wait", "ssh", "install", "inside", "rule",
             "outside", "append", "closePort", "deletePair", "terminate",
             "done"}
  /\ queue \in Seq(Machines) /\ role \in Roles /\ known \subseteq Roles
  /\ tries \in 0 .. SshTries[cloud] + AptTries
  /\ left \in [Machines -> SUBSET (Roles \cup {"rule"})]
  /\ there \in [Machines -> SUBSET (Roles \cup {"rule"})]
  /\ status \in {0, 1}

\* What this run has made of a machine type and not deleted.
Own(t) == there[t] \ left[t]

\* The types whose probe has not begun.
Ahead ==
  LET rest == IF status = 0 THEN queue ELSE Tail(queue)
  IN  {rest[i] : i \in DOMAIN rest}

\* As long as deletions work, a fleet has VMs of one machine type at most, and
\* so leaves no more than one pair when it is killed or an answer is lost.  If
\* in addition its traps run to their end, and on AWS no answer is lost, there
\* is nothing left of a type whose probe is over, wherever it failed; not even
\* what an earlier night left under its names, which made that probe fail.
NothingLeftBehind ==
  /\ Free({"delete"}) =>
       \A t, u \in Machines : Own(t) # {} /\ Own(u) # {} => t = u
  /\ Free({"delete", "kill"}) /\ (Gcp \/ Free({"lost"}))
       /\ pc \in {"fleet", "done"} =>
       \A t \in Machines :
         Own(t) = {} /\ (there[t] # {} => t \in Ahead)

\* A port that a probe opens to the address of its client is open no longer
\* than it has that address: wherever the script fails or is killed, in the
\* trap too, both VMs are there with the rule, unless a deletion fails.
PortOpenOnlyForPair ==
  Free({"delete"}) =>
    \A t \in Machines : "rule" \in Own(t) => Roles \subseteq there[t]

\* A mirror that keeps failing, a pair that never answers or a failed step ends
\* the fleet; nothing makes it wait for ever.
FleetEnds == <>(pc = "done")

\* "Fleet: NAPKIN_CSV set -> append network_inside_vpc* / network_outside_vpc*
\* rows" (probe-net-pair-gcp.sh:6, nightly.yml:150): with nothing failing and
\* nothing in the way, the fleet gets through to its end with success.
FleetDeliversRows ==
  faults = {} /\ left = Nothing /\ inFleet /\ pc = "done" => status = 0
=============================================================================
