-------------------------- MODULE NetProbe_proofs --------------------------
(***************************************************************************)
(* Proofs about NetProbe, for every list of machine types, every limit of  *)
(* the loops, every set of faults and all that an earlier night may have   *)
(* left: what a probe leaves behind, and when the port is open.            *)
(***************************************************************************)
EXTENDS NetProbe, TLAPS

Outside == pc \in {"fleet", "done"}

\* Where a probe has its pair.
Paired == {"wait", "ssh", "install", "inside", "rule", "outside", "append"}

\* Traps run to their end, and on AWS know every instance.
Clean == Free({"delete", "kill"}) /\ (Gcp \/ Free({"lost"}))

\* TypeOK; a loop is left before its limit; a probe is of some machine type.
Typed ==
  /\ TypeOK
  /\ pc \in {"create", "wait"} => tries = 0
  /\ pc = "ssh" => tries < SshTries[cloud]
  /\ pc = "install" => tries < AptTries
  /\ ~Outside \/ status # 0 => queue # <<>>
  /\ pc \in {"rule", "closePort", "deletePair"} => Gcp
  /\ pc \in {"wait", "terminate"} => ~Gcp

\* A pair that is waited for is there, and on AWS the trap has both ids.  What
\* an earlier run may have left, and rules, there are on GCP only.
Placed ==
  /\ pc \in Paired => Roles \subseteq there[Machine] /\ (~Gcp => known = Roles)
  /\ pc = "create" /\ ~Gcp =>
       IF role = "srv" THEN known = {}
       ELSE known = {"srv"} /\ "srv" \in there[Machine]
  /\ pc = "terminate" /\ status = 0 => known = Roles
  /\ ~Gcp => \A t \in Machines : left[t] = {} /\ "rule" \notin there[t]

\* When deletions work, nothing but the type being probed has something of
\* this run, and that is gone when the next probe begins.
Serial ==
  Free({"delete"}) =>
    /\ \A t \in Machines : Own(t) # {} => queue # <<>> /\ t = Machine
    /\ pc = "fleet" /\ status = 0 => \A t \in Machines : Own(t) = {}
    /\ pc = "create" => "rule" \notin Own(Machine)
    /\ pc = "deletePair" => "rule" \notin there[Machine]
    /\ pc = "terminate" /\ role = "cli" /\ status = 0 =>
         "srv" \notin there[Machine]

\* What a trap that runs to its end will not miss.
Swept ==
  Clean =>
    /\ Outside => \A t \in Machines :
                    Own(t) = {} /\ (there[t] # {} => t \in Ahead)
    /\ ~Outside => \A t \in Machines :
                     there[t] # {} => \E i \in DOMAIN queue : queue[i] = t
    /\ ~Outside /\ ~Gcp => there[Machine] \subseteq known
    /\ pc = "terminate" /\ role = "cli" => there[Machine] \subseteq {"cli"}

IInv == Typed /\ Placed /\ Serial /\ Swept /\ PortOpenOnlyForPair

-----------------------------------------------------------------------------
\* The queue when a probe is over.
LEMMA TailTypes ==
  ASSUME NEW S, NEW q \in Seq(S), q # <<>>
  PROVE  /\ Tail(q) \in Seq(S) /\ Head(q) \in S /\ Head(q) = q[1]
         /\ 1 \in DOMAIN q
         /\ \A i \in DOMAIN q :
              q[i] # Head(q) => \E j \in DOMAIN Tail(q) : Tail(q)[j] = q[i]
<1>1. /\ Tail(q) \in Seq(S) /\ Head(q) \in S /\ Head(q) = q[1]
      /\ 1 \in DOMAIN q
  OBVIOUS
<1>2. ASSUME NEW i \in DOMAIN q, q[i] # Head(q)
      PROVE  \E j \in DOMAIN Tail(q) : Tail(q)[j] = q[i]
  <2>1. /\ i - 1 \in DOMAIN Tail(q)
        /\ Tail(q)[i - 1] = q[i]
    BY <1>1, <1>2
  <2> QED
    BY <2>1
<1> QED
  BY <1>1, <1>2

LEMMA InitInv == Init => IInv
<1> SUFFICES ASSUME Init PROVE IInv
  OBVIOUS
<1>1. queue \in Seq(Machines)
  <2>1. CASE inFleet
    BY <2>1, ProbeAssumption DEF Init
  <2>2. CASE ~inFleet
    <3>1. PICK t \in Machines : queue = <<t>>
      BY <2>2 DEF Init
    <3> QED
      BY <3>1
  <2> QED
    BY <2>1, <2>2 DEF Init
<1>2. 0 \in 0 .. SshTries[cloud] + AptTries
  BY ProbeAssumption DEF Init
<1>3. /\ left \in [Machines -> SUBSET (Roles \cup {"rule"})]
      /\ ~Gcp \/ ~inFleet => \A t \in Machines : left[t] = {}
  BY DEF Init, Nothing
<1>4. Typed
  BY <1>1, <1>2, <1>3 DEF Init, Typed, TypeOK, Outside, Roles
<1>5. \A t \in Machines : Own(t) = {}
  BY DEF Init, Own
<1>6. \A t \in Machines : there[t] # {} => t \in Ahead
  <2>1. CASE Gcp /\ inFleet
    BY <2>1 DEF Init, Ahead, Machines
  <2>2. CASE ~(Gcp /\ inFleet)
    BY <1>3, <2>2 DEF Init
  <2> QED
    BY <2>1, <2>2
<1>7. Placed
  BY <1>3 DEF Init, Placed, Paired
<1> QED
  BY <1>4, <1>5, <1>6, <1>7
  DEF Init, IInv, Serial, Swept, PortOpenOnlyForPair, Outside

-----------------------------------------------------------------------------
(* The steps.                                                              *)

\* Making or deleting something of the machine type being probed.
LEMMA Changed ==
  ASSUME TypeOK, queue # <<>>, NEW what \in SUBSET (Roles \cup {"rule"})
  PROVE  /\ Machine \in Machines
         /\ Make(what) =>
              /\ there' \in [Machines -> SUBSET (Roles \cup {"rule"})]
              /\ there'[Machine] = there[Machine] \cup what
              /\ \A t \in Machines : t # Machine => there'[t] = there[t]
         /\ Delete(what) =>
              /\ there' \in [Machines -> SUBSET (Roles \cup {"rule"})]
              /\ there'[Machine] = there[Machine] \ what
              /\ \A t \in Machines : t # Machine => there'[t] = there[t]
  BY TailTypes DEF TypeOK, Machine, Make, Delete

\* A step that makes and deletes nothing, and stays in the probe or starts its
\* trap.
LEMMA QuietStep ==
  ASSUME IInv, ~Outside, ~InTrap, pc # "create",
         UNCHANGED <<fixed, queue, known, there>>,
         \/ pc' \in Paired /\ UNCHANGED status
         \/ Trap /\ status' \in {status, 1}
  PROVE  (Placed /\ Serial /\ Swept /\ PortOpenOnlyForPair)'
<1> USE DEF fixed, IInv, Outside, InTrap, Trap, Machine, Gcp, Own, Free
<1>1. Machine' = Machine /\ pc \in Paired /\ ~Outside'
  BY DEF Typed, TypeOK, Paired
<1>2. Placed'
  BY <1>1 DEF Placed, Paired
<1>3. Serial'
  BY <1>1 DEF Serial, Paired
<1>4. Swept'
  BY <1>1 DEF Swept, Paired, Clean
<1>5. PortOpenOnlyForPair'
  BY <1>1 DEF PortOpenOnlyForPair
<1> QED
  BY <1>2, <1>3, <1>4, <1>5

LEMMA QuietActions ==
  ASSUME IInv,
         WaitRunning \/ WaitSsh \/ InstallIperf \/ MeasureInside
           \/ MeasureOutside \/ AppendRows
           \/ (Interrupt /\ pc # "create")
  PROVE  IInv'
<1>1. /\ AptTries \in Nat \ {0} /\ SshTries[cloud] \in Nat \ {0}
      /\ tries \in 0 .. SshTries[cloud] + AptTries
  BY ProbeAssumption DEF IInv, Typed, TypeOK
<1>2. /\ ~Outside /\ ~InTrap /\ pc # "create"
      /\ UNCHANGED <<fixed, queue, known, there>>
      /\ \/ pc' \in Paired /\ UNCHANGED status
         \/ Trap /\ status' \in {status, 1}
  <2> USE DEF Paired, Outside, InTrap, Abort
  <2>1. CASE WaitRunning
    BY <2>1 DEF WaitRunning, Command
  <2>2. CASE WaitSsh
    BY <2>2 DEF WaitSsh, TryBoth
  <2>3. CASE InstallIperf
    BY <2>3 DEF InstallIperf, TryBoth
  <2>4. CASE MeasureInside
    BY <2>4 DEF MeasureInside, Command
  <2>5. CASE MeasureOutside
    BY <2>5 DEF MeasureOutside, Command
  <2>6. CASE AppendRows
    BY <2>6 DEF AppendRows
  <2>7. CASE Interrupt /\ pc # "create"
    BY <2>7 DEF Interrupt
  <2> QED
    BY <2>1, <2>2, <2>3, <2>4, <2>5, <2>6, <2>7
<1>3. (Placed /\ Serial /\ Swept /\ PortOpenOnlyForPair)'
  BY <1>2, QuietStep
<1>4. Typed
  BY DEF IInv
<1>5. Typed'
  <2> USE <1>1, <1>4 DEF Typed, TypeOK, Outside, fixed, Roles, Gcp, Abort, Trap
  <2>1. CASE WaitRunning
    BY <2>1 DEF WaitRunning, Command
  <2>2. CASE WaitSsh
    BY <2>2 DEF WaitSsh, TryBoth
  <2>3. CASE InstallIperf
    BY <2>3 DEF InstallIperf, TryBoth
  <2>4. CASE MeasureInside
    BY <2>4 DEF MeasureInside, Command
  <2>5. CASE MeasureOutside
    BY <2>5 DEF MeasureOutside, Command
  <2>6. CASE AppendRows
    BY <2>6 DEF AppendRows
  <2>7. CASE Interrupt /\ pc # "create"
    BY <2>7 DEF Interrupt
  <2> QED
    BY <2>1, <2>2, <2>3, <2>4, <2>5, <2>6, <2>7
<1> QED
  BY <1>3, <1>5 DEF IInv

\* Where a type is made or deleted: the other types have what they had.
LEMMA StartKeeps ==
  ASSUME IInv, StartProbe
  PROVE  IInv'
<1> USE DEF StartProbe, fixed, Gcp, Free
<1>1. Typed'
  BY ProbeAssumption DEF IInv, Typed, TypeOK, Outside, Roles
<1>2. Placed'
  BY DEF IInv, Placed, Paired
<1>3. Serial' /\ PortOpenOnlyForPair'
  <2>1. Machine \in Machines /\ Machine' = Machine
    BY TailTypes DEF IInv, Typed, TypeOK, Machine
  <2> QED
    BY <2>1 DEF IInv, Serial, PortOpenOnlyForPair, Own
<1>4. Swept'
  <2>1. Clean <=> Clean'
    BY DEF Clean
  <2>2. CASE pc' = "create"
    BY <2>1, <2>2
    DEF IInv, Swept, Placed, Own, Outside, Ahead, Machine, Typed, TypeOK
  <2>3. CASE pc' = "fleet"
    BY <2>1, <2>3 DEF IInv, Swept, Placed, Own, Outside
  <2> QED
    BY <2>2, <2>3
<1> QED
  BY <1>1, <1>2, <1>3, <1>4 DEF IInv

LEMMA KillKeeps ==
  ASSUME IInv, Kill
  PROVE  IInv'
<1> USE DEF Kill, fixed, Gcp, Free
<1>1. Typed'
  BY DEF IInv, Typed, TypeOK, Outside
<1>2. Placed'
  BY DEF IInv, Placed, Paired, Machine
<1>3. Serial' /\ PortOpenOnlyForPair'
  BY DEF IInv, Serial, PortOpenOnlyForPair, Own, Machine
<1>4. Swept'
  BY DEF Swept, Clean
<1> QED
  BY <1>1, <1>2, <1>3, <1>4 DEF IInv

LEMMA EndKeeps ==
  ASSUME IInv, EndFleet
  PROVE  IInv'
<1> USE DEF EndFleet, fixed, Gcp, Free
<1>1. Typed'
  BY DEF IInv, Typed, TypeOK, Outside
<1>2. Placed'
  BY DEF IInv, Placed, Paired, Machine
<1>3. Serial' /\ PortOpenOnlyForPair'
  BY DEF IInv, Serial, PortOpenOnlyForPair, Own, Machine
<1>4. Swept'
  BY DEF IInv, Swept, Clean, Outside, Own, Ahead
<1> QED
  BY <1>1, <1>2, <1>3, <1>4 DEF IInv

LEMMA InterruptCreate ==
  ASSUME IInv, Interrupt, pc = "create"
  PROVE  IInv'
<1> USE DEF Interrupt, Abort, Trap, fixed, Gcp, Free
<1>1. Typed'
  BY DEF IInv, Typed, TypeOK, Outside, Roles
<1>2. Placed'
  BY DEF IInv, Placed, Paired
<1>3. Serial' /\ PortOpenOnlyForPair'
  BY DEF IInv, Serial, PortOpenOnlyForPair, Own, Machine
<1>4. Swept'
  BY DEF IInv, Swept, Clean, Outside, Machine
<1> QED
  BY <1>1, <1>2, <1>3, <1>4 DEF IInv

\* What is made is of the type being probed, and the queue stays.
LEMMA MakeStep ==
  ASSUME IInv, ~Outside, ~InTrap, ~Outside', pc' # "deletePair",
         pc' = "terminate" => role' = "srv",
         UNCHANGED <<fixed, queue>>,
         NEW what \in SUBSET (Roles \cup {"rule"}), Make(what),
         pc' = "create" => pc = "create" /\ "rule" \notin what,
         \/ "rule" \notin what /\ pc = "create"
         \/ Roles \subseteq there[Machine]
  PROVE  /\ Serial' /\ PortOpenOnlyForPair'
         /\ there' \in [Machines -> SUBSET (Roles \cup {"rule"})]
         /\ Clean' => \A t \in Machines :
                        there'[t] # {} => \E i \in DOMAIN queue : queue[i] = t
<1>1. /\ queue \in Seq(Machines) /\ queue # <<>>
      /\ Machine = queue[1] /\ 1 \in DOMAIN queue
  BY TailTypes DEF IInv, Typed, TypeOK, Machine
<1>2. /\ Machine \in Machines /\ Machine' = Machine
      /\ there' \in [Machines -> SUBSET (Roles \cup {"rule"})]
      /\ there'[Machine] = there[Machine] \cup what
      /\ \A t \in Machines : t # Machine => there'[t] = there[t]
  BY <1>1, Changed DEF IInv, Typed, Machine
<1>3. \A t \in Machines : t # Machine => Own(t)' = Own(t)
  BY <1>2 DEF Own, fixed
<1>4. Serial'
  <2>1. pc' = "create" /\ Free({"delete"}) => "rule" \notin Own(Machine)'
    BY <1>2 DEF IInv, Serial, Own, fixed
  <2> QED
    BY <1>1, <1>2, <1>3, <2>1 DEF IInv, Serial, Outside, Free, fixed
<1>5. PortOpenOnlyForPair'
  BY <1>2, <1>3 DEF IInv, PortOpenOnlyForPair, Free, fixed, Own
<1>6. Clean' => \A t \in Machines :
                  there'[t] # {} => \E i \in DOMAIN queue : queue[i] = t
  BY <1>1, <1>2 DEF IInv, Swept, Clean, Free, fixed, Gcp
<1> QED
  BY <1>2, <1>4, <1>5, <1>6

LEMMA CreatePairKeeps ==
  ASSUME IInv, CreatePair
  PROVE  IInv'
<1> USE DEF CreatePair
<1>1. PICK what \in SUBSET Roles : Make(what) /\ (pc' = "ssh" => what = Roles)
  BY DEF Abort, Trap
<1>2. /\ ~Outside /\ ~InTrap /\ pc' \in {"ssh", "closePort"} /\ Gcp /\ Gcp'
      /\ ~Outside' /\ UNCHANGED <<fixed, queue>>
  BY DEF Outside, InTrap, Abort, Trap, Gcp, fixed
<1>3. "rule" \notin what
  BY <1>1 DEF Roles
<1>4. what \in SUBSET (Roles \cup {"rule"})
  OBVIOUS
<1>5. /\ Serial' /\ PortOpenOnlyForPair'
      /\ there' \in [Machines -> SUBSET (Roles \cup {"rule"})]
      /\ Clean' => \A t \in Machines :
                     there'[t] # {} => \E i \in DOMAIN queue : queue[i] = t
  BY <1>1, <1>2, <1>3, <1>4, MakeStep
<1>6. Typed'
  BY <1>2, <1>5, ProbeAssumption
  DEF IInv, Typed, TypeOK, Outside, Roles, Abort, Trap, fixed
<1>7. Swept'
  BY <1>2, <1>5 DEF Swept, Outside, fixed
<1>8. Placed'
  <2>1. queue # <<>> /\ TypeOK
    BY <1>2 DEF IInv, Typed
  <2>2. CASE pc' = "ssh"
    <3>1. Roles \subseteq there'[Machine] /\ Machine' = Machine
      BY <1>1, <1>2, <1>4, <2>1, <2>2, Changed DEF Machine
    <3> QED
      BY <1>2, <2>2, <3>1 DEF Placed
  <2>3. CASE pc' = "closePort"
    BY <1>2, <2>3 DEF Placed, Paired
  <2> QED
    BY <1>2, <2>2, <2>3
<1> QED
  BY <1>5, <1>6, <1>7, <1>8 DEF IInv

LEMMA OpenPortKeeps ==
  ASSUME IInv, OpenPort
  PROVE  IInv'
<1>1. CASE Abort /\ UNCHANGED there
  <2>1. /\ ~Outside /\ ~InTrap /\ pc # "create"
        /\ UNCHANGED <<fixed, queue, known, there>>
        /\ Trap /\ status' \in {status, 1}
    BY <1>1 DEF OpenPort, Outside, InTrap, Abort, Make, IInv, Typed, TypeOK
  <2>2. Typed'
    BY <2>1 DEF OpenPort, IInv, Typed, TypeOK, Outside, Trap, Roles, Gcp, fixed
  <2> QED
    BY <2>1, <2>2, QuietStep DEF IInv
<1>2. CASE Make({"rule"}) /\ pc' = "outside" /\ UNCHANGED <<role, status>>
  <2>1. /\ ~Outside /\ ~InTrap /\ ~Outside' /\ Gcp /\ Gcp'
        /\ UNCHANGED <<fixed, queue>>
        /\ Roles \subseteq there[Machine]
    BY <1>2
    DEF OpenPort, Outside, InTrap, fixed, Gcp, IInv, Placed, Typed, Paired
  <2>2. /\ Serial' /\ PortOpenOnlyForPair'
        /\ there' \in [Machines -> SUBSET (Roles \cup {"rule"})]
        /\ Clean' => \A t \in Machines :
                       there'[t] # {} => \E i \in DOMAIN queue : queue[i] = t
    <3>1. {"rule"} \in SUBSET (Roles \cup {"rule"})
      OBVIOUS
    <3> QED
      BY <1>2, <2>1, <3>1, MakeStep
  <2>3. Typed'
    BY <1>2, <2>1, <2>2 DEF OpenPort, IInv, Typed, TypeOK, Outside, fixed
  <2>4. Swept'
    BY <1>2, <2>1, <2>2 DEF Swept, Outside, fixed
  <2>5. Placed'
    <3>1. queue # <<>> /\ TypeOK
      BY <2>1 DEF IInv, Typed
    <3> QED
      BY <1>2, <2>1, <3>1, Changed DEF Placed, Machine, fixed
  <2> QED
    BY <2>2, <2>3, <2>4, <2>5 DEF IInv
<1> QED
  BY <1>1, <1>2 DEF OpenPort

LEMMA CreateInstanceKeeps ==
  ASSUME IInv, CreateInstance
  PROVE  IInv'
<1>1. CASE Abort /\ UNCHANGED <<there, known>>
  <2> USE <1>1 DEF CreateInstance, Abort, Trap, fixed, Gcp, Free
  <2>1. Typed'
    BY DEF IInv, Typed, TypeOK, Outside, Roles
  <2>2. Placed'
    BY DEF IInv, Placed, Paired
  <2>3. Serial' /\ PortOpenOnlyForPair'
    BY DEF IInv, Serial, PortOpenOnlyForPair, Own, Machine
  <2>4. Swept'
    BY DEF IInv, Swept, Clean, Outside, Machine
  <2> QED
    BY <2>1, <2>2, <2>3, <2>4 DEF IInv
<1>2. CASE Make({role}) /\ ~(Abort /\ UNCHANGED <<there, known>>)
  <2>1. /\ ~Outside /\ ~InTrap /\ ~Outside' /\ ~Gcp /\ ~Gcp'
        /\ UNCHANGED <<fixed, queue>> /\ queue # <<>> /\ TypeOK
        /\ pc = "create" /\ pc' \in {"create", "wait", "terminate"}
        /\ pc' = "terminate" => role' = "srv" /\ "lost" \in faults
                                  /\ status' = 1
        /\ pc' # "terminate" => known' = known \cup {role}
        /\ pc' = "create" => role = "srv" /\ role' = "cli"
        /\ pc' = "wait" => role = "cli"
        /\ role' \in Roles /\ known' \subseteq Roles /\ role \in Roles
    BY <1>2
    DEF CreateInstance, Outside, InTrap, fixed, Gcp, Abort, Trap, IInv, Typed,
        TypeOK, Roles
  <2>2. {role} \in SUBSET (Roles \cup {"rule"}) /\ "rule" \notin {role}
    BY <2>1 DEF Roles
  <2>3. /\ Serial' /\ PortOpenOnlyForPair'
        /\ there' \in [Machines -> SUBSET (Roles \cup {"rule"})]
        /\ Clean' => \A t \in Machines :
                       there'[t] # {} => \E i \in DOMAIN queue : queue[i] = t
    BY <1>2, <2>1, <2>2, MakeStep
  <2>4. /\ there'[Machine] = there[Machine] \cup {role}
        /\ Machine' = Machine /\ Machine \in Machines
        /\ \A t \in Machines : t # Machine => there'[t] = there[t]
    BY <1>2, <2>1, <2>2, Changed DEF Machine
  <2>5. Typed'
    <3>1. tries = 0 /\ UNCHANGED <<fixed, queue, tries>>
          /\ status' \in {0, 1} /\ SshTries[cloud] \in Nat \ {0}
      BY <2>1, ProbeAssumption
      DEF CreateInstance, IInv, Typed, TypeOK, Abort, fixed
    <3>2. TypeOK'
      BY <2>1, <2>3, <3>1 DEF TypeOK, fixed
    <3> QED
      BY <2>1, <3>1, <3>2 DEF Typed, Outside
  <2>6. Placed'
    <3>1. /\ ~Gcp => \A t \in Machines : left[t] = {} /\ "rule" \notin there[t]
          /\ IF role = "srv" THEN known = {}
             ELSE known = {"srv"} /\ "srv" \in there[Machine]
      BY <2>1 DEF IInv, Placed
    <3>2. \A t \in Machines : left'[t] = {} /\ "rule" \notin there'[t]
      BY <2>1, <2>2, <2>4, <3>1 DEF fixed
    <3> QED
      BY <2>1, <2>4, <3>1, <3>2 DEF Placed, Paired, Roles
  <2>7. Swept'
    <3>1. Clean' => there[Machine] \subseteq known /\ pc' # "terminate"
      BY <2>1 DEF IInv, Swept, Clean, Free, Gcp, fixed
    <3> QED
      BY <2>1, <2>3, <2>4, <3>1 DEF Swept, Outside, fixed
  <2> QED
    BY <2>3, <2>5, <2>6, <2>7 DEF IInv
<1> QED
  BY <1>1, <1>2 DEF CreateInstance

LEMMA ClosePortKeeps ==
  ASSUME IInv, ClosePort
  PROVE  IInv'
<1>1. /\ pc = "closePort" /\ pc' = "deletePair" /\ Gcp /\ Gcp'
      /\ UNCHANGED <<fixed, queue, known, role, status, tries>>
      /\ queue # <<>> /\ TypeOK /\ Machine' = Machine
      /\ {"rule"} \in SUBSET (Roles \cup {"rule"})
  BY DEF ClosePort, IInv, Typed, Outside, Gcp, fixed, Machine
<1>2. /\ there' \in [Machines -> SUBSET (Roles \cup {"rule"})]
      /\ Machine \in Machines
      /\ there'[Machine] \subseteq there[Machine]
      /\ Free({"delete"}) => there'[Machine] = there[Machine] \ {"rule"}
      /\ \A t \in Machines : t # Machine => there'[t] = there[t]
  BY <1>1, Changed DEF ClosePort, TypeOK, Free
<1>3. Typed'
  BY <1>1, <1>2 DEF IInv, Typed, TypeOK, Outside, fixed
<1>4. Placed'
  BY <1>1 DEF Placed, Paired
<1>5. Serial'
  BY <1>1, <1>2 DEF IInv, Serial, Own, Free, fixed
<1>6. PortOpenOnlyForPair'
  BY <1>1, <1>2 DEF IInv, PortOpenOnlyForPair, Own, Free, fixed, Roles
<1>7. Swept'
  BY <1>1, <1>2 DEF IInv, Swept, Clean, Free, fixed, Outside, Gcp
<1> QED
  BY <1>3, <1>4, <1>5, <1>6, <1>7 DEF IInv

\* A probe that ends has nothing more of its type, if its trap could see to it.
LEMMA ReturnStep ==
  ASSUME IInv, ~Outside, Return, UNCHANGED fixed, queue # <<>>, TypeOK,
         there' \in [Machines -> SUBSET (Roles \cup {"rule"})],
         \A t \in Machines : t # Machine => there'[t] = there[t],
         Free({"delete"}) /\ (status = 0 \/ Clean) => there'[Machine] = {},
         Free({"delete"}) => "rule" \notin there'[Machine],
         there'[Machine] \subseteq there[Machine]
  PROVE  (Serial /\ Swept /\ PortOpenOnlyForPair)'
<1>1. /\ Tail(queue) \in Seq(Machines) /\ Machine \in Machines
      /\ Machine = queue[1]
      /\ \A i \in DOMAIN queue :
           queue[i] # Machine =>
             \E j \in DOMAIN Tail(queue) : Tail(queue)[j] = queue[i]
  BY TailTypes DEF TypeOK, Machine
<1>2. \A t \in Machines : t # Machine => Own(t)' = Own(t)
  BY DEF Own, fixed
<1>3. /\ pc' = "fleet" /\ Outside' /\ status' = status
      /\ Free({"delete"})' <=> Free({"delete"})
      /\ Clean' <=> Clean
  BY DEF Return, Outside, Free, Clean, fixed, Gcp
<1>4. Free({"delete"}) => \A t \in Machines : t # Machine => Own(t)' = {}
  BY <1>2 DEF IInv, Serial
<1>5. Free({"delete"}) /\ (status = 0 \/ Clean) =>
        \A t \in Machines : Own(t)' = {}
  BY <1>1, <1>4 DEF Own
<1>6. Serial'
  <2>1. CASE status = 0
    BY <1>3, <1>5, <2>1 DEF Serial
  <2>2. CASE status # 0
    <3>1. queue' = queue /\ Machine' = Machine
      BY <2>2 DEF Return, Machine
    <3> QED
      BY <1>3, <1>4, <2>2, <3>1 DEF Serial
  <2> QED
    BY <2>1, <2>2
<1>7. PortOpenOnlyForPair'
  BY <1>1, <1>3, <1>4 DEF PortOpenOnlyForPair, Own
<1>8. Swept'
  <2>1. Clean => Free({"delete"})
    BY DEF Clean, Free
  <2>2. Ahead' = {Tail(queue)[i] : i \in DOMAIN Tail(queue)}
    BY <1>3 DEF Ahead, Return
  <2>3. ASSUME Clean, NEW t \in Machines, there'[t] # {}
        PROVE  t \in Ahead'
    <3>1. t # Machine /\ there'[t] = there[t]
      BY <1>1, <2>1, <2>3
    <3>2. PICK i \in DOMAIN queue : queue[i] = t
      BY <2>3, <3>1 DEF IInv, Swept
    <3>3. PICK j \in DOMAIN Tail(queue) : Tail(queue)[j] = t
      BY <1>1, <3>1, <3>2
    <3> QED
      BY <2>2, <3>3
  <2> QED
    BY <1>3, <1>5, <2>1, <2>3 DEF Swept
<1> QED
  BY <1>6, <1>7, <1>8

LEMMA DeletePairKeeps ==
  ASSUME IInv, DeletePair
  PROVE  IInv'
<1>1. /\ pc = "deletePair" /\ ~Outside /\ Gcp /\ Gcp' /\ Return
      /\ UNCHANGED <<fixed, known, role, tries>>
      /\ queue # <<>> /\ TypeOK /\ Machine \in Machines
  BY TailTypes
  DEF DeletePair, IInv, Typed, TypeOK, Outside, Gcp, fixed, Machine
<1>2. PICK gone \in SUBSET Roles :
        Delete(gone) /\ (Free({"delete"}) => gone = Roles)
  BY DEF DeletePair, Free
<1>3. /\ there' \in [Machines -> SUBSET (Roles \cup {"rule"})]
      /\ there'[Machine] = there[Machine] \ gone
      /\ \A t \in Machines : t # Machine => there'[t] = there[t]
  BY <1>1, <1>2, Changed
<1>4. Free({"delete"}) => there'[Machine] = {}
  <2>1. Free({"delete"}) => "rule" \notin there[Machine]
    BY <1>1 DEF IInv, Serial
  <2>2. there[Machine] \in SUBSET (Roles \cup {"rule"})
    BY <1>1 DEF TypeOK
  <2> QED
    BY <1>2, <1>3, <2>1, <2>2
<1>5. (Serial /\ Swept /\ PortOpenOnlyForPair)'
  BY <1>1, <1>3, <1>4, ReturnStep
<1>6. Typed'
  BY <1>1, <1>3, TailTypes
  DEF Return, IInv, Typed, TypeOK, Outside, fixed
<1>7. Placed'
  BY <1>1 DEF Placed, Paired, Return
<1> QED
  BY <1>5, <1>6, <1>7 DEF IInv

LEMMA TerminateKeeps ==
  ASSUME IInv, TerminateInstance
  PROVE  IInv'
<1>1. /\ pc = "terminate" /\ ~Outside /\ ~Gcp /\ ~Gcp' /\ role \in Roles
      /\ UNCHANGED <<fixed, known, tries>>
      /\ queue # <<>> /\ TypeOK /\ Machine \in Machines
      /\ {role} \cap known \in SUBSET (Roles \cup {"rule"})
      /\ \A t \in Machines : left[t] = {} /\ "rule" \notin there[t]
  BY TailTypes
  DEF TerminateInstance, IInv, Typed, TypeOK, Outside, Gcp, fixed, Machine,
      Placed
<1>2. /\ there' \in [Machines -> SUBSET (Roles \cup {"rule"})]
      /\ there'[Machine] \subseteq there[Machine]
      /\ Free({"delete"}) =>
           there'[Machine] = there[Machine] \ ({role} \cap known)
      /\ \A t \in Machines : t # Machine => there'[t] = there[t]
  BY <1>1, Changed DEF TerminateInstance, TypeOK, Free
<1>3. \A t \in Machines : "rule" \notin there'[t]
  BY <1>1, <1>2
<1>4. there[Machine] \subseteq Roles
  BY <1>1 DEF TypeOK
<1>5. CASE role = "srv"
  <2>1. /\ role' = "cli" /\ UNCHANGED <<pc, queue, status>>
        /\ Machine' = Machine
    BY <1>5 DEF TerminateInstance, Machine
  <2>2. Typed'
    BY <1>1, <1>2, <2>1 DEF IInv, Typed, TypeOK, Outside, fixed, Roles
  <2>3. Placed'
    BY <1>1, <1>3, <2>1 DEF IInv, Placed, Paired, fixed
  <2>4. Serial'
    BY <1>1, <1>2, <1>5, <2>1 DEF IInv, Serial, Placed, Own, Free, fixed, Roles
  <2>5. PortOpenOnlyForPair'
    BY <1>3 DEF PortOpenOnlyForPair, Own
  <2>6. Swept'
    <3>1. Clean' <=> Clean
      BY <1>1, <2>1 DEF Clean, Free, Gcp, fixed
    <3>2. Clean => there'[Machine] \subseteq {"cli"} \cap known
      BY <1>1, <1>2, <1>4, <1>5 DEF IInv, Swept, Clean, Free, Roles
    <3> QED
      BY <1>1, <1>2, <2>1, <3>1, <3>2 DEF IInv, Swept, Outside
  <2> QED
    BY <2>2, <2>3, <2>4, <2>5, <2>6 DEF IInv
<1>6. CASE role = "cli"
  <2>1. Return
    BY <1>6 DEF TerminateInstance
  <2>2. Free({"delete"}) /\ (status = 0 \/ Clean) => there'[Machine] = {}
    <3>1. CASE Free({"delete"}) /\ Clean
      BY <1>1, <1>2, <1>6, <3>1 DEF IInv, Swept
    <3>2. CASE Free({"delete"}) /\ status = 0
      BY <1>1, <1>2, <1>4, <1>6, <3>2 DEF IInv, Serial, Placed, Roles
    <3> QED
      BY <3>1, <3>2
  <2>3. (Serial /\ Swept /\ PortOpenOnlyForPair)'
    BY <1>1, <1>2, <1>3, <2>1, <2>2, ReturnStep
  <2>4. Typed'
    BY <1>1, <1>2, <1>6, <2>1, TailTypes
    DEF TerminateInstance, Return, IInv, Typed, TypeOK, Outside, fixed
  <2>5. Placed'
    BY <1>1, <1>3, <2>1 DEF Placed, Paired, Return, fixed
  <2> QED
    BY <2>3, <2>4, <2>5 DEF IInv
<1> QED
  BY <1>1, <1>5, <1>6 DEF Roles

LEMMA NextInv == IInv /\ [Next]_vars => IInv'
<1> SUFFICES ASSUME IInv, [Next]_vars PROVE IInv'
  OBVIOUS
<1>1. CASE Proceed
  BY <1>1, StartKeeps, CreatePairKeeps, CreateInstanceKeeps, QuietActions,
     OpenPortKeeps, ClosePortKeeps, DeletePairKeeps, TerminateKeeps, EndKeeps
  DEF Proceed
<1>2. CASE Interrupt
  BY <1>2, QuietActions, InterruptCreate
<1>3. CASE Kill
  BY <1>3, KillKeeps
<1>4. CASE UNCHANGED vars
  BY <1>4
  DEF vars, fixed, IInv, Typed, TypeOK, Placed, Serial, Swept, Clean, Own,
      Free, Outside, Paired, Machine, Ahead, Gcp, PortOpenOnlyForPair
<1> QED
  BY <1>1, <1>2, <1>3, <1>4 DEF Next, Done

-----------------------------------------------------------------------------
(* The theorems.                                                           *)

\* Every variable keeps its type.
THEOREM ProbeTyped == Spec => []TypeOK
<1>1. IInv => TypeOK
  BY DEF IInv, Typed
<1> QED
  BY <1>1, InitInv, NextInv, PTL DEF Spec

\* What probes leave: nothing where their traps run to the end and the ids have
\* come, what an earlier night left included; and as long as deletions work,
\* that of one machine type whatever happens (probe-net-pair-gcp.sh:26-31 and
\* -aws.sh:41-47, bench-net-fleet-gcp.sh:19-23).
THEOREM NothingStays == Spec => []NothingLeftBehind
<1>1. IInv => NothingLeftBehind
  <2>1. IInv => \A t, u \in Machines :
                  Free({"delete"}) /\ Own(t) # {} /\ Own(u) # {} => t = u
    BY DEF IInv, Serial
  <2> QED
    BY <2>1 DEF IInv, Swept, Clean, Outside, NothingLeftBehind
<1> QED
  BY <1>1, InitInv, NextInv, PTL DEF Spec

\* A port opened to the address of a client is closed before the client goes,
\* also where the trap is killed between the two (probe-net-pair-gcp.sh:28-29).
THEOREM PortOnlyForPair == Spec => []PortOpenOnlyForPair
<1>1. IInv => PortOpenOnlyForPair
  BY DEF IInv
<1> QED
  BY <1>1, InitInv, NextInv, PTL DEF Spec
=============================================================================
