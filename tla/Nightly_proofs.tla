--------------------------- MODULE Nightly_proofs ---------------------------
(***************************************************************************)
(* Proofs about Nightly, for every fleet and any number of nights and      *)
(* dates: the two passes of a night share the machines out between rows    *)
(* and log lines, no machine is made more than twice, and the site is the  *)
(* merge of its files.                                                     *)
(***************************************************************************)
EXTENDS Nightly, WellFoundedInduction, TLAPS

-----------------------------------------------------------------------------
(* The members of a sequence.                                              *)

\* What is appended joins the members.
LEMMA ElemsAppend ==
  ASSUME NEW S, NEW s \in Seq(S), NEW x \in S
  PROVE  /\ Elems(Append(s, x)) = Elems(s) \cup {x}
         /\ Distinct(s) /\ x \notin Elems(s) => Distinct(Append(s, x))
<1>1. /\ Len(s) \in Nat
      /\ DOMAIN Append(s, x) = 1 .. Len(s) + 1 /\ DOMAIN s = 1 .. Len(s)
      /\ Append(s, x)[Len(s) + 1] = x
      /\ \A i \in 1 .. Len(s) : Append(s, x)[i] = s[i]
  OBVIOUS
<1>2. 1 .. Len(s) + 1 = (1 .. Len(s)) \cup {Len(s) + 1}
  BY <1>1
<1>3. Elems(Append(s, x)) = Elems(s) \cup {x}
  BY <1>1, <1>2 DEF Elems
<1>4. ASSUME Distinct(s), x \notin Elems(s) PROVE Distinct(Append(s, x))
  BY <1>1, <1>2, <1>4 DEF Distinct, Elems
<1> QED
  BY <1>3, <1>4

\* The head of a sequence and the members of its tail are its members.
LEMMA ElemsTail ==
  ASSUME NEW S, NEW s \in Seq(S), s # <<>>
  PROVE  /\ Head(s) \in S /\ Tail(s) \in Seq(S)
         /\ Elems(s) = {Head(s)} \cup Elems(Tail(s))
         /\ Distinct(s) => Distinct(Tail(s)) /\ Head(s) \notin Elems(Tail(s))
<1>1. /\ Len(s) \in Nat /\ Len(s) >= 1 /\ Head(s) = s[1]
      /\ DOMAIN s = 1 .. Len(s) /\ DOMAIN Tail(s) = 1 .. Len(s) - 1
      /\ \A i \in 1 .. Len(s) - 1 : Tail(s)[i] = s[i + 1]
  OBVIOUS
<1>2. \A i \in 1 .. Len(s) : i = 1 \/ (i - 1 \in 1 .. Len(s) - 1)
  BY <1>1
<1>3. Elems(s) = {Head(s)} \cup Elems(Tail(s))
  <2>1. ASSUME NEW i \in 1 .. Len(s)
        PROVE  s[i] \in {Head(s)} \cup Elems(Tail(s))
    <3>1. CASE i = 1
      BY <1>1, <3>1
    <3>2. CASE i - 1 \in 1 .. Len(s) - 1
      <4>1. s[i] = Tail(s)[i - 1]
        BY <1>1, <3>2
      <4> QED
        BY <1>1, <3>2, <4>1 DEF Elems
    <3> QED
      BY <1>2, <3>1, <3>2
  <2>2. ASSUME NEW i \in 1 .. Len(s) - 1
        PROVE  Tail(s)[i] \in Elems(s)
    BY <1>1 DEF Elems
  <2>3. s[1] \in Elems(s)
    BY <1>1 DEF Elems
  <2> QED
    BY <1>1, <2>1, <2>2, <2>3 DEF Elems
<1>4. ASSUME Distinct(s)
      PROVE  Distinct(Tail(s)) /\ Head(s) \notin Elems(Tail(s))
  <2>1. \A i \in 1 .. Len(s) - 1 : s[i + 1] # s[1]
    BY <1>1, <1>4 DEF Distinct
  <2>2. \A i, j \in 1 .. Len(s) - 1 : s[i + 1] = s[j + 1] => i = j
    BY <1>1, <1>4 DEF Distinct
  <2> QED
    BY <1>1, <2>1, <2>2 DEF Distinct, Elems
<1> QED
  BY <1>1, <1>3, <1>4

\* An empty sequence has none.
LEMMA ElemsEmpty == Elems(<<>>) = {} /\ Distinct(<<>>)
  BY DEF Elems, Distinct

\* The members of a sequence over a set are of that set.
LEMMA ElemsOf ==
  ASSUME NEW S, NEW s \in Seq(S)
  PROVE  Elems(s) \subseteq S /\ (s # <<>> => Elems(s) # {})
<1>1. CASE s = <<>>
  BY <1>1, ElemsEmpty
<1>2. CASE s # <<>>
  <2>1. Len(s) \in Nat /\ Len(s) >= 1 /\ DOMAIN s = 1 .. Len(s)
    BY <1>2
  <2>2. s[1] \in Elems(s)
    BY <2>1 DEF Elems
  <2>3. \A i \in 1 .. Len(s) : s[i] \in S
    OBVIOUS
  <2> QED
    BY <2>1, <2>2, <2>3 DEF Elems
<1> QED
  BY <1>1, <1>2

-----------------------------------------------------------------------------
(* The merge of the files of the dates, which is a recursive function.     *)

\* A set of natural numbers has a least one.
LEMMA LeastNatural ==
  ASSUME NEW T \in SUBSET Nat, T # {}
  PROVE  \E m \in T : \A k \in T : ~(k < m)
<1>1. \E x \in T : \A y \in T : ~(<<y, x>> \in OpToRel(<, Nat))
  BY WFMin, NatLessThanWellFounded
<1> QED
  BY <1>1 DEF OpToRel

\* What FlattenSeq takes as its function: entry i has the first i together.
Joins(f, seqs, n) ==
  f = [i \in 1 .. n |-> IF i = 1 THEN seqs[i] ELSE f[i - 1] \o seqs[i]]

\* The recursion of FlattenSeq has a solution: each of its finite parts is one
\* longer than the one before, so there is no least number without one.
LEMMA FlattenDefined ==
  ASSUME NEW S, NEW n \in Nat \ {0}, NEW seqs \in [1 .. n -> Seq(S)]
  PROVE  \E f : Joins(f, seqs, n)
<1> DEFINE Part(m, g) ==
             g = [i \in 1 .. m |-> IF i = 1 THEN seqs[i]
                                            ELSE g[i - 1] \o seqs[i]]
           Lacking == {m \in 1 .. n : ~ \E g : Part(m, g)}
<1>1. ASSUME Lacking # {} PROVE FALSE
  <2>1. PICK m \in Lacking : \A k \in Lacking : ~(k < m)
    <3>1. Lacking \in SUBSET Nat
      <4> HIDE DEF Part
      <4> QED
        OBVIOUS
    <3> HIDE DEF Lacking
    <3> QED
      BY <1>1, <3>1, LeastNatural
  <2>2. m # 1
    <3>1. Part(1, [i \in 1 .. 1 |-> seqs[i]])
      OBVIOUS
    <3> QED
      BY <3>1
  <2>3. m \in 1 .. n /\ m - 1 \in 1 .. n /\ m - 1 < m
    BY <2>2
  <2>4. PICK g : Part(m - 1, g)
    BY <2>1, <2>3
  <2> DEFINE h == [i \in 1 .. m |-> IF i = m THEN g[m - 1] \o seqs[m]
                                             ELSE g[i]]
  <2>5. \A i \in 1 .. m - 1 : i \in 1 .. m /\ i # m /\ h[i] = g[i]
    BY <2>3
  <2>6. ASSUME NEW i \in 1 .. m
        PROVE  h[i] = IF i = 1 THEN seqs[i] ELSE h[i - 1] \o seqs[i]
    <3>1. CASE i = m
      <4>1. h[m - 1] = g[m - 1] /\ h[m] = g[m - 1] \o seqs[m]
        BY <2>3, <2>5
      <4> QED
        BY <2>2, <3>1, <4>1
    <3>2. CASE i # m
      <4>1. i \in 1 .. m - 1 /\ (i # 1 => i - 1 \in 1 .. m - 1)
        BY <2>3, <3>2
      <4>2. h[i] = g[i] /\ (i # 1 => h[i - 1] = g[i - 1])
        BY <2>5, <4>1
      <4>3. g[i] = IF i = 1 THEN seqs[i] ELSE g[i - 1] \o seqs[i]
        BY <2>4, <4>1
      <4> QED
        BY <4>2, <4>3
    <3> QED
      BY <3>1, <3>2
  <2>7. Part(m, h)
    <3>1. h = [i \in 1 .. m |-> h[i]]
      OBVIOUS
    <3> HIDE DEF h
    <3> QED
      BY <2>6, <3>1
  <2>8. \E f : Part(m, f)
    <3> HIDE DEF h, Part
    <3> QED
      BY <2>7
  <2> QED
    BY <2>1, <2>8
<1>2. n \in 1 .. n
  OBVIOUS
<1> HIDE DEF Part
<1>3. \E f : Part(n, f)
  BY <1>1, <1>2
<1> QED
  BY <1>3 DEF Part, Joins

\* Sequences over a set put together are a sequence over it.
LEMMA FlattenTyped ==
  ASSUME NEW S, NEW n \in Nat \ {0}, NEW seqs \in [1 .. n -> Seq(S)]
  PROVE  FlattenSeq(seqs) \in Seq(S)
<1> DEFINE flatten == CHOOSE f : Joins(f, seqs, n)
<1>1. Joins(flatten, seqs, n)
  BY FlattenDefined
<1>2. FlattenSeq(seqs) = flatten[n]
  <2>1. Len(seqs) = n /\ n # 0
    <3>1. seqs \in Seq(Seq(S)) /\ DOMAIN seqs = 1 .. n
      OBVIOUS
    <3> QED
      BY <3>1
  <2> QED
    BY <2>1, Zenon DEF FlattenSeq, Joins
<1> DEFINE Astray == {i \in 1 .. n : flatten[i] \notin Seq(S)}
<1>3. ASSUME Astray # {} PROVE FALSE
  <2> HIDE DEF flatten
  <2>1. PICK m \in Astray : \A k \in Astray : ~(k < m)
    <3>1. Astray \in SUBSET Nat
      OBVIOUS
    <3> HIDE DEF Astray
    <3> QED
      BY <1>3, <3>1, LeastNatural
  <2>2. m \in 1 .. n /\ flatten[m] \notin Seq(S) /\ seqs[m] \in Seq(S)
    OBVIOUS
  <2>3. flatten[m] = IF m = 1 THEN seqs[m] ELSE flatten[m - 1] \o seqs[m]
    BY <1>1, <2>2 DEF Joins
  <2>4. m # 1
    BY <2>2, <2>3
  <2>5. m - 1 \in 1 .. n /\ m - 1 < m
    BY <2>2, <2>4
  <2>6. flatten[m - 1] \in Seq(S)
    BY <2>1, <2>5
  <2> QED
    BY <2>2, <2>3, <2>4, <2>6
<1>4. n \in 1 .. n
  OBVIOUS
<1> HIDE DEF flatten
<1> QED
  BY <1>2, <1>3, <1>4

-----------------------------------------------------------------------------
(* The invariant.                                                          *)

FleetOf(c) == IF c = "gcp" THEN Elems(GcpMachines) ELSE Elems(AwsMachines)

\* The steps between the truncation of the files and the end of the job.
Work == FleetSteps \cup {"retry", "net", "publish", "push"}

\* The types the other parts of the invariant rest on: all but those of the
\* report and of the merged rows.
Types ==
  /\ night \in Nights
  /\ step \in Steps
  /\ queue \in Seq(Known)
  /\ ok \in Nat /\ failed \in Nat
  /\ awsRetry \in Seq(Known)
  /\ rows \in [Nights -> Seq(Batches)]
  /\ log \in [Clouds -> Seq(Known)]
  /\ attempts \in [Nights -> [Known -> Nat]]
  /\ outcome \in {"running", "success", "failure", "cancelled"}
  /\ today \in Dates
  /\ data.dated \in [Dates -> Seq(Batches)]
  /\ site.dated \in [Dates -> Seq(Batches)] /\ site.dead \in Seq(Batches)
  /\ pushed \in BOOLEAN

\* The machines the passes still have to run.
Waiting ==
  Elems(queue) \cup (IF step = "retryGcp" THEN Elems(awsRetry) ELSE {})

\* The data and the log of the night tell the machines apart.
Divided ==
  /\ \A i \in DOMAIN rows[night] : rows[night][i].night = night
  /\ Distinct(rows[night])
  /\ \A c \in Clouds : Distinct(log[c]) /\ Elems(log[c]) \subseteq FleetOf(c)
  /\ Reporting \cap Missing = {}

\* Each machine of the fleets that were started is in one of three places.
Shared ==
  step \in Work =>
    /\ Divided
    /\ Reporting \cup Missing \cup Waiting =
         (IF step = "gcp" THEN FleetOf("gcp") ELSE Machines)
    /\ Waiting \cap (Reporting \cup Missing) = {}
    /\ IF step \in FleetSteps
         THEN Distinct(queue) /\ Elems(queue) \subseteq FleetOf(Cloud(step))
         ELSE queue = <<>>
    /\ step = "retryGcp" =>
         Distinct(awsRetry) /\ Elems(awsRetry) \subseteq FleetOf("aws")

\* How often the machines were provisioned, by where they are.
Counted ==
  /\ \A k \in Nights : k > night => \A m \in Known : attempts[k][m] = 0
  /\ step \in {"setup", "truncate"} => \A m \in Known : attempts[night][m] = 0
  /\ step \in {"gcp", "aws", "retry"} => \A m \in Known :
       attempts[night][m] = IF m \in Reporting \cup Missing THEN 1 ELSE 0
  /\ step \in {"retryGcp", "retryAws"} =>
       /\ \A m \in Waiting : attempts[night][m] = 1
       /\ \E other \in Machines :
            attempts[night][other] = 1 /\ HasRows(night, other)

\* No two files of the site have rows of one night, and none of this night
\* before the push.
Dated ==
  /\ \A d \in Dates : Distinct(site.dated[d])
  /\ \A d, e \in Dates :
       \A i \in DOMAIN site.dated[d], j \in DOMAIN site.dated[e] :
         site.dated[d][i].night = site.dated[e][j].night => d = e
  /\ \A d \in Dates : \A i \in DOMAIN site.dated[d] :
       /\ site.dated[d][i].night <= night
       /\ ~pushed => site.dated[d][i].night # night

\* The runner has the files of the site, to which it adds one.
Seeded ==
  /\ step \in {"truncate"} \cup (Work \ {"push"}) => data.dated = site.dated
  /\ step = "push" =>
       /\ data.dated = [site.dated EXCEPT ![today] = rows[night]]
       /\ rows[night] # <<>>
       /\ data.merged = ReadDaily(data.dated)

\* What was pushed, and what the report says of it.
Pushed ==
  /\ site.merged = ReadDaily(site.dated)
  /\ pushed =>
       /\ step \in {"report", "done"}
       /\ site.dated[today] = rows[night]
       /\ Divided
       /\ Reporting \cup Missing = Machines
  /\ outcome = "success" => pushed
  /\ step = "done" => summary.missing = log

IInv ==
  /\ Types /\ BoundedProvisions /\ Shared /\ Counted
  /\ Dated /\ Seeded /\ Pushed

\* All machines of the fleets are known, and the fleets are disjoint.
LEMMA Fleets ==
  /\ \A c \in Clouds : FleetOf(c) \subseteq Machines
  /\ Machines \subseteq Known /\ OldMachine \in Known
  /\ Machines = FleetOf("gcp") \cup FleetOf("aws")
  /\ FleetOf("gcp") \cap FleetOf("aws") = {}
  /\ GcpMachines \in Seq(Known) /\ AwsMachines \in Seq(Known)
  BY FleetAssumption DEF Machines, Known, FleetOf, Clouds

\* Two batches of one night are of one machine only if they are the same.
LEMMA Batching ==
  /\ \A k \in 0 .. LastNight, m \in Known :
       /\ Batch(k, m) \in Batches
       /\ Batch(k, m).night = k /\ Batch(k, m).machine = m
  /\ \A b \in Batches : b = Batch(b.night, b.machine)
  BY DEF Batch, Batches

\* The rows of before the first night are a batch.
LEMMA Past == OldRows \in Seq(Batches)
<1>1. Batch(0, OldMachine) \in Batches
  BY Batching, Fleets, FleetAssumption
<1> QED
  BY <1>1 DEF OldRows

-----------------------------------------------------------------------------
(* The types, and what steps leave alone.                                  *)

\* The first night starts with no files but those of the site.
LEMMA InitTypes == Init => Types
<1> SUFFICES ASSUME Init PROVE Types
  OBVIOUS
<1>1. OldRows \in Seq(Batches)
  BY Past
<1>2. 1 \in Dates /\ NoFiles.dated \in [Dates -> Seq(Batches)]
  BY FleetAssumption DEF Dates, NoFiles
<1>3. PICK dated \in {NoFiles.dated, [NoFiles.dated EXCEPT ![1] = OldRows]} :
        site = [dated |-> dated, merged |-> ReadDaily(dated),
                dead |-> dated[1]]
  BY DEF Init, Sites
<1>4. dated \in [Dates -> Seq(Batches)]
  BY <1>1, <1>2
<1>5. site.dated \in [Dates -> Seq(Batches)] /\ site.dead \in Seq(Batches)
  BY <1>2, <1>3, <1>4
<1>6. /\ 1 \in Nights /\ rows \in [Nights -> Seq(Batches)]
      /\ log \in [Clouds -> Seq(Known)]
      /\ attempts \in [Nights -> [Known -> Nat]]
  BY FleetAssumption DEF Init, Nights, NoLines
<1>7. /\ data.dated \in [Dates -> Seq(Batches)]
      /\ queue \in Seq(Known) /\ awsRetry \in Seq(Known)
  BY <1>2 DEF Init
<1> QED
  BY <1>2, <1>5, <1>6, <1>7 DEF Init, Types, Steps

\* Every step keeps the types.
LEMMA TypesKept == Types /\ [Next]_vars => Types'
<1>1. Types /\ Setup => Types'
  <2> SUFFICES ASSUME Types, Setup PROVE Types'
    OBVIOUS
  <2>1. rows' \in [Nights -> Seq(Batches)]
    BY Past DEF Setup, Types
  <2> QED
    BY <2>1 DEF Setup, Stop, Steps, fleet, Types
<1>2. Types /\ StartNight => Types'
  <2> SUFFICES ASSUME Types, StartNight PROVE Types'
    OBVIOUS
  <2>1. queue' \in Seq(Known) /\ log' \in [Clouds -> Seq(Known)]
    BY Fleets, FleetAssumption DEF StartNight, StartFleet, NoLines
  <2> QED
    BY <2>1 DEF StartNight, StartFleet, Steps, FleetSteps, publication, Types
<1>3. Types /\ RunMachine => Types'
  <2> SUFFICES ASSUME Types, RunMachine PROVE Types'
    OBVIOUS
  <2>1. /\ Head(queue) \in Known /\ Tail(queue) \in Seq(Known)
        /\ Batch(night, Head(queue)) \in Batches
        /\ Cloud(step) \in Clouds
    BY ElemsTail, Batching DEF RunMachine, Types, Nights, Cloud, Clouds
  <2>2. attempts' \in [Nights -> [Known -> Nat]]
    <3>1. /\ attempts \in [Nights -> [Known -> Nat]] /\ night \in Nights
          /\ attempts' = [attempts EXCEPT ![night] =
               [attempts[night] EXCEPT ![Head(queue)] =
                  attempts[night][Head(queue)] + 1]]
      BY DEF RunMachine, Types
    <3>2. [attempts[night] EXCEPT ![Head(queue)] =
             attempts[night][Head(queue)] + 1] \in [Known -> Nat]
      BY <2>1, <3>1
    <3> QED
      BY <3>1, <3>2
  <2>3. /\ rows' \in [Nights -> Seq(Batches)]
        /\ log' \in [Clouds -> Seq(Known)]
        /\ ok' \in Nat /\ failed' \in Nat
    <3>1. /\ rows \in [Nights -> Seq(Batches)] /\ night \in Nights
          /\ log \in [Clouds -> Seq(Known)]
          /\ ok \in Nat /\ failed \in Nat
      BY DEF Types
    <3>2. /\ Append(rows[night], Batch(night, Head(queue))) \in Seq(Batches)
          /\ Append(log[Cloud(step)], Head(queue)) \in Seq(Known)
      BY <2>1, <3>1
    <3>3. CASE /\ rows' = [rows EXCEPT ![night] =
                            Append(@, Batch(night, Head(queue)))]
               /\ ok' = ok + 1 /\ UNCHANGED <<log, failed>>
      BY <3>1, <3>2, <3>3
    <3>4. CASE /\ log' = [log EXCEPT ![Cloud(step)] = Append(@, Head(queue))]
               /\ failed' = failed + 1 /\ UNCHANGED <<rows, ok>>
      BY <2>1, <3>1, <3>2, <3>4
    <3> QED
      BY <3>3, <3>4 DEF RunMachine
  <2> QED
    BY <2>1, <2>2, <2>3 DEF RunMachine, publication, Types
<1>4. Types /\ GcpFleetEnds => Types'
  BY Fleets, FleetAssumption
  DEF GcpFleetEnds, StartFleet, Steps, FleetSteps, publication, Types
<1>5. Types /\ AwsFleetEnds => Types'
  BY DEF AwsFleetEnds, Steps, fleet, publication, Types
<1>6. Types /\ NoRetry => Types'
  BY DEF NoRetry, Steps, fleet, publication, Types
<1>7. Types /\ TakeWorklist => Types'
  <2> SUFFICES ASSUME Types, TakeWorklist PROVE Types'
    OBVIOUS
  <2>1. /\ awsRetry' = log["aws"] /\ log' = NoLines
        /\ UNCHANGED <<night, rows, attempts, outcome, summary, publication>>
        /\ CallRetry(log["gcp"], log["aws"])
        /\ log["gcp"] \in Seq(Known) /\ log["aws"] \in Seq(Known)
    BY DEF TakeWorklist, Lines, Types, Clouds
  <2>2. /\ step' \in Steps /\ queue' \in Seq(Known)
        /\ ok' \in Nat /\ failed' \in Nat
    <3>1. step \in Steps /\ queue \in Seq(Known) /\ ok \in Nat /\ failed \in Nat
      BY DEF Types
    <3>2. \/ /\ step' \in {"retryGcp", "retryAws"} /\ ok' = 0 /\ failed' = 0
             /\ queue' \in {log["gcp"], log["aws"]}
          \/ step' = "net" /\ UNCHANGED <<queue, ok, failed>>
      BY <2>1, Zenon DEF CallRetry, CallAwsRetry, StartFleet, fleet
    <3>3. {"retryGcp", "retryAws", "net"} \subseteq Steps
      BY DEF Steps, FleetSteps
    <3> QED
      BY <2>1, <3>1, <3>2, <3>3
  <2>3. log' \in [Clouds -> Seq(Known)]
    BY <2>1 DEF NoLines
  <2> QED
    BY <2>1, <2>2, <2>3 DEF publication, Types
<1>8. Types /\ RetryGcpEnds => Types'
  BY DEF RetryGcpEnds, CallAwsRetry, StartFleet, Steps, FleetSteps,
         publication, fleet, Types
<1>9. Types /\ RetryAwsEnds => Types'
  BY DEF RetryAwsEnds, Steps, fleet, publication, Types
<1>10. Types /\ NetProbes => Types'
  BY DEF NetProbes, Steps, fleet, publication, Types
<1>11. Types /\ MergeFiles => Types'
  <2> SUFFICES ASSUME Types, MergeFiles PROVE Types'
    OBVIOUS
  <2>1. /\ data.dated \in [Dates -> Seq(Batches)] /\ today \in Dates
        /\ rows[night] \in Seq(Batches)
    BY DEF Types
  <2>2. CASE UNCHANGED <<today, data>>
    BY <2>1, <2>2 DEF MergeFiles, Stop, Steps, fleet, Types
  <2>3. CASE step' = "push" /\ UNCHANGED outcome
    <3>1. PICK d \in Dates :
            /\ today' = d
            /\ data' = [dated  |-> [data.dated EXCEPT ![d] = rows[night]],
                        merged |-> ReadDaily([data.dated EXCEPT
                                                ![d] = rows[night]])]
      BY <2>3 DEF MergeFiles, Stop
    <3>2. data'.dated \in [Dates -> Seq(Batches)]
      BY <2>1, <3>1
    <3> QED
      BY <2>3, <3>1, <3>2 DEF MergeFiles, Steps, fleet, Types
  <2> QED
    BY <2>2, <2>3 DEF MergeFiles, Stop
<1>12. Types /\ Push => Types'
  <2> SUFFICES ASSUME Types, Push PROVE Types'
    OBVIOUS
  <2>1. /\ data.dated \in [Dates -> Seq(Batches)]
        /\ site.dated \in [Dates -> Seq(Batches)] /\ site.dead \in Seq(Batches)
        /\ rows[night] \in Seq(Batches)
    BY DEF Types
  <2>2. [d \in Dates |-> IF data.dated[d] = <<>> THEN site.dated[d]
                         ELSE data.dated[d]] \in [Dates -> Seq(Batches)]
    BY <2>1
  <2>3. /\ site'.dated \in [Dates -> Seq(Batches)]
        /\ site'.dead \in Seq(Batches)
    BY <2>1, <2>2 DEF Push
  <2>4. /\ step' \in Steps /\ pushed' \in BOOLEAN
        /\ outcome' \in {"running", "success", "failure", "cancelled"}
    BY DEF Push, Stop, Steps, Types
  <2> QED
    BY <2>3, <2>4 DEF Push, fleet, Types
<1>13. Types /\ Report => Types'
  BY DEF Report, Steps, fleet, publication, Types
<1>14. Types /\ Cancel => Types'
  BY DEF Cancel, Stop, Steps, fleet, publication, Types
<1>15. Types /\ NextNight => Types'
  <2> SUFFICES ASSUME Types, NextNight PROVE Types'
    OBVIOUS
  <2>1. /\ night' \in Nights /\ log' \in [Clouds -> Seq(Known)]
        /\ data'.dated \in [Dates -> Seq(Batches)]
        /\ queue' \in Seq(Known) /\ awsRetry' \in Seq(Known)
    BY FleetAssumption DEF NextNight, Types, Nights, NoLines, NoFiles
  <2> QED
    BY <2>1 DEF NextNight, Steps, Types
<1>16. Types /\ UNCHANGED vars => Types'
  BY DEF vars, fleet, publication, Types
<1> QED
  BY <1>1, <1>2, <1>3, <1>4, <1>5, <1>6, <1>7, <1>8, <1>9, <1>10, <1>11,
     <1>12, <1>13, <1>14, <1>15, <1>16
  DEF Next, Proceed, Finished

\* Where the machines are is read off the data and the log of the night.
LEMMA SamePlaces ==
  UNCHANGED <<night, rows, log>> =>
    /\ Reporting' = Reporting /\ Missing' = Missing
    /\ Divided' = Divided
  BY DEF Reporting, HasRows, Missing, Divided

\* The bound on provisions is about the counts and the data.
LEMMA SameProvisions ==
  BoundedProvisions /\ UNCHANGED <<rows, attempts>> => BoundedProvisions'
  BY DEF BoundedProvisions, HasRows

\* The files of the site change only with a push.
LEMMA SameSite == Dated /\ UNCHANGED <<night, site, pushed>> => Dated'
  BY DEF Dated

-----------------------------------------------------------------------------
(* The invariant holds at first, and one lemma for each action.            *)

\* Before the first night the site is the merge of its files.
LEMMA InitInv == Init => IInv
<1> SUFFICES ASSUME Init PROVE IInv
  OBVIOUS
<1>1. PICK dated \in {NoFiles.dated, [NoFiles.dated EXCEPT ![1] = OldRows]} :
        site = [dated |-> dated, merged |-> ReadDaily(dated),
                dead |-> dated[1]]
  BY DEF Init, Sites
<1>2. \A d \in Dates :
        site.dated[d] = <<>> \/ (d = 1 /\ site.dated[d] = OldRows)
  BY <1>1 DEF NoFiles
<1>3. \A d \in Dates : \A i \in DOMAIN site.dated[d] :
        d = 1 /\ i = 1 /\ site.dated[d][i].night = 0
  BY <1>2 DEF OldRows, Batch
<1>4. Dated
  BY <1>3, FleetAssumption DEF Dated, Distinct, Init
<1>5. Types /\ BoundedProvisions /\ Counted
  BY InitTypes, FleetAssumption DEF Init, BoundedProvisions, Counted, Nights
<1>6. Shared /\ Seeded /\ Pushed
  BY <1>1 DEF Init, Shared, Seeded, Pushed, Work, FleetSteps
<1> QED
  BY <1>4, <1>5, <1>6 DEF IInv

\* A step that leaves the machines where they are, at a time when none waits.
LEMMA MoveOn ==
  ASSUME IInv, Types', queue = <<>>, Waiting = {}, step \in Work \ {"gcp", "push"},
         step' \in {"retry", "net", "publish"}, step' = "retry" => step = "aws",
         UNCHANGED <<night, queue, rows, log, attempts, outcome, data,
                     site, pushed>>
  PROVE  IInv'
<1>1. Waiting' = {}
  BY ElemsEmpty DEF Waiting
<1>2. Shared'
  <2>1. /\ Divided /\ Reporting \cup Missing = Machines
    BY DEF IInv, Shared
  <2>2. /\ Divided' /\ Reporting' = Reporting /\ Missing' = Missing
    BY <2>1, SamePlaces
  <2> QED
    BY <1>1, <2>1, <2>2 DEF Shared, FleetSteps
<1>3. Counted'
  BY SamePlaces DEF IInv, Counted, FleetSteps, Work
<1>4. Seeded'
  BY DEF IInv, Seeded
<1>5. Pushed'
  BY DEF IInv, Pushed, Work, FleetSteps
<1> QED
  BY <1>2, <1>3, <1>4, <1>5, SameProvisions, SameSite DEF IInv

\* A runner is set up with the site's files, or the job fails.
LEMMA SetupInv == IInv /\ Setup => IInv'
<1> SUFFICES ASSUME IInv, Setup PROVE IInv'
  OBVIOUS
<1>1. /\ step = "setup" /\ step' \in {"truncate", "report"}
      /\ UNCHANGED <<night, attempts, site, pushed, log>>
      /\ outcome' = outcome \/ outcome' = "failure"
      /\ step' = "truncate" => data'.dated = site.dated
      /\ \A k \in Nights : k # night => rows'[k] = rows[k]
  BY DEF Setup, Stop, IInv, Types
<1>2. Types'
  BY TypesKept DEF IInv, Next, Proceed
<1>3. BoundedProvisions'
  <2>1. \A m \in Known : attempts[night][m] = 0
    BY <1>1 DEF IInv, Counted
  <2>2. ASSUME NEW k \in Nights, NEW m \in Known
        PROVE  /\ attempts[k][m] <= IF m \in Machines THEN 2 ELSE 0
               /\ attempts[k][m] > 1 =>
                    \E other \in Machines :
                      attempts[k][other] = 1 /\ HasRows(k, other)'
    <3>1. CASE k = night
      BY <2>1, <3>1
    <3>2. CASE k # night
      BY <1>1, <3>2 DEF IInv, BoundedProvisions, HasRows
    <3> QED
      BY <3>1, <3>2
  <2> QED
    BY <1>1, <2>2 DEF BoundedProvisions
<1>4. Shared' /\ Counted' /\ Seeded' /\ Pushed'
  BY <1>1
  DEF IInv, Shared, Counted, Seeded, Pushed, Work, FleetSteps
<1> QED
  BY <1>1, <1>2, <1>3, <1>4, SameSite DEF IInv

\* No machine of the first fleet is in the data or the log yet.
LEMMA StartInv == IInv /\ StartNight => IInv'
<1> SUFFICES ASSUME IInv, StartNight PROVE IInv'
  OBVIOUS
<1>1. /\ step = "truncate" /\ step' = "gcp" /\ queue' = GcpMachines
      /\ rows' = [rows EXCEPT ![night] = <<>>] /\ log' = NoLines
      /\ UNCHANGED <<night, attempts, outcome, data, site, pushed, today>>
  BY FleetAssumption DEF StartNight, StartFleet, publication
<1>2. Types'
  BY TypesKept DEF IInv, Next, Proceed
<1>3. \A m \in Known : attempts[night][m] = 0
  BY <1>1 DEF IInv, Counted
<1>4. rows'[night] = <<>> /\ \A k \in Nights : k # night => rows'[k] = rows[k]
  BY <1>1 DEF IInv, Types
<1>5. BoundedProvisions'
  <2>1. ASSUME NEW k \in Nights, NEW m \in Known
        PROVE  /\ attempts[k][m] <= IF m \in Machines THEN 2 ELSE 0
               /\ attempts[k][m] > 1 =>
                    \E other \in Machines :
                      attempts[k][other] = 1 /\ HasRows(k, other)'
    <3>1. CASE k = night
      BY <1>3, <3>1
    <3>2. CASE k # night
      BY <1>4, <3>2 DEF IInv, BoundedProvisions, HasRows
    <3> QED
      BY <3>1, <3>2
  <2> QED
    BY <1>1, <2>1 DEF BoundedProvisions
<1>6. Reporting' = {} /\ Missing' = {} /\ Divided'
  BY <1>1, <1>4, ElemsEmpty
  DEF Reporting, HasRows, Missing, NoLines, Clouds, Divided
<1>7. Shared'
  BY <1>1, <1>6, FleetAssumption
  DEF Shared, Waiting, FleetOf, FleetSteps, Cloud
<1>8. Counted' /\ Seeded' /\ Pushed'
  BY <1>1, <1>3, <1>6 DEF IInv, Counted, Seeded, Pushed, Work, FleetSteps
<1> QED
  BY <1>1, <1>2, <1>5, <1>7, <1>8, SameSite DEF IInv

\* The machine whose turn it is leaves the queue for the data or the log.
LEMMA RunInv == IInv /\ RunMachine => IInv'
<1> SUFFICES ASSUME IInv, RunMachine PROVE IInv'
  OBVIOUS
<1> DEFINE m == Head(queue)
<1>1. /\ step \in FleetSteps /\ queue # <<>> /\ queue' = Tail(queue)
      /\ attempts' = [attempts EXCEPT ![night][m] = @ + 1]
      /\ UNCHANGED <<night, step, awsRetry, outcome, today, data, site, pushed>>
  BY DEF RunMachine, publication
<1>2. /\ night \in Nights /\ queue \in Seq(Known)
      /\ rows \in [Nights -> Seq(Batches)] /\ log \in [Clouds -> Seq(Known)]
      /\ attempts \in [Nights -> [Known -> Nat]]
      /\ step \in Work /\ Cloud(step) \in Clouds
  BY <1>1 DEF IInv, Types, Work, Cloud, Clouds
<1>3. /\ m \in Known /\ Tail(queue) \in Seq(Known)
      /\ Elems(queue) = {m} \cup Elems(Tail(queue))
      /\ Distinct(Tail(queue)) /\ m \notin Elems(Tail(queue))
      /\ m \in FleetOf(Cloud(step)) /\ m \in Machines
  BY <1>1, <1>2, ElemsTail, Fleets DEF IInv, Shared
<1>4. Waiting = {m} \cup Waiting' /\ m \notin Waiting'
  <2>1. CASE step = "retryGcp"
    <3>1. m \notin Elems(awsRetry)
      BY <1>2, <1>3, <2>1, Fleets DEF IInv, Shared, Cloud
    <3> QED
      BY <1>1, <1>3, <2>1, <3>1 DEF Waiting
  <2>2. CASE step # "retryGcp"
    BY <1>1, <1>3, <2>2 DEF Waiting
  <2> QED
    BY <2>1, <2>2
<1>5. /\ Divided /\ m \notin Reporting /\ m \notin Missing
      /\ Waiting' \cap (Reporting \cup Missing) = {}
  BY <1>2, <1>4 DEF IInv, Shared
<1>6. /\ Divided' /\ Reporting' \cup Missing' = Reporting \cup Missing \cup {m}
      /\ \A k \in Nights, x \in Known : HasRows(k, x) => HasRows(k, x)'
  <2>1. CASE /\ rows' = [rows EXCEPT ![night] = Append(@, Batch(night, m))]
             /\ log' = log
    <3>1. /\ Batch(night, m) \in Batches /\ Batch(night, m).night = night
          /\ Batch(night, m) \notin Elems(rows[night])
      BY <1>2, <1>3, <1>5, Batching DEF Reporting, HasRows, Nights
    <3>2. /\ rows'[night] = Append(rows[night], Batch(night, m))
          /\ \A k \in Nights : k # night => rows'[k] = rows[k]
      BY <1>2, <2>1
    <3>3. /\ Elems(rows'[night]) = Elems(rows[night]) \cup {Batch(night, m)}
          /\ Distinct(rows'[night])
      BY <1>2, <1>5, <3>1, <3>2, ElemsAppend DEF Divided
    <3>4. Reporting' = Reporting \cup {m} /\ Missing' = Missing
      <4>1. \A x \in Known : Batch(night, x) = Batch(night, m) => x = m
        BY DEF Batch
      <4> QED
        BY <1>1, <1>3, <2>1, <3>3, <4>1 DEF Reporting, HasRows, Missing
    <3>5. \A i \in DOMAIN rows'[night] : rows'[night][i].night = night
      <4>1. \A b \in Elems(rows[night]) : b.night = night
        BY <1>5 DEF Divided, Elems
      <4>2. \A i \in DOMAIN rows'[night] : rows'[night][i] \in Elems(rows'[night])
        BY DEF Elems
      <4> QED
        BY <3>1, <3>3, <4>1, <4>2
    <3>6. Divided'
      BY <1>1, <1>5, <2>1, <3>3, <3>4, <3>5 DEF Divided
    <3>7. \A k \in Nights, x \in Known : HasRows(k, x) => HasRows(k, x)'
      BY <3>2, <3>3 DEF HasRows
    <3> QED
      BY <3>4, <3>6, <3>7
  <2>2. CASE /\ log' = [log EXCEPT ![Cloud(step)] = Append(@, m)]
             /\ rows' = rows
    <3>1. /\ log'[Cloud(step)] = Append(log[Cloud(step)], m)
          /\ \A c \in Clouds : c # Cloud(step) => log'[c] = log[c]
      BY <1>2, <2>2
    <3>2. m \notin Elems(log[Cloud(step)])
      BY <1>2, <1>5 DEF Missing, Clouds
    <3>3. /\ Elems(log'[Cloud(step)]) = Elems(log[Cloud(step)]) \cup {m}
          /\ Distinct(log'[Cloud(step)])
      BY <1>2, <1>3, <1>5, <3>1, <3>2, ElemsAppend DEF Divided
    <3>4. Reporting' = Reporting /\ \A k, x : HasRows(k, x)' = HasRows(k, x)
      BY <1>1, <2>2 DEF Reporting, HasRows
    <3>5. Missing' = Missing \cup {m}
      BY <1>2, <3>1, <3>3 DEF Missing, Clouds
    <3>6. \A c \in Clouds : Distinct(log'[c]) /\ Elems(log'[c]) \subseteq FleetOf(c)
      <4>1. \A c \in Clouds : Distinct(log[c]) /\ Elems(log[c]) \subseteq FleetOf(c)
        BY <1>5 DEF Divided
      <4>2. ASSUME NEW c \in Clouds
            PROVE  Distinct(log'[c]) /\ Elems(log'[c]) \subseteq FleetOf(c)
        <5>1. CASE c = Cloud(step)
          BY <1>3, <3>3, <4>1, <5>1
        <5>2. CASE c # Cloud(step)
          BY <3>1, <4>1, <5>2
        <5> QED
          BY <5>1, <5>2
      <4> QED
        BY <4>2
    <3>7. Divided'
      BY <1>1, <1>5, <2>2, <3>4, <3>5, <3>6 DEF Divided
    <3> QED
      BY <3>4, <3>5, <3>7
  <2> QED
    BY <2>1, <2>2 DEF RunMachine
<1>7. Shared'
  <2>1. Waiting' \cap (Reporting' \cup Missing') = {}
    BY <1>4, <1>5, <1>6
  <2>2. Reporting' \cup Missing' \cup Waiting' = Reporting \cup Missing \cup Waiting
    BY <1>4, <1>6
  <2> QED
    BY <1>1, <1>2, <1>3, <1>6, <2>1, <2>2 DEF IInv, Shared
<1>8. /\ attempts'[night][m] = attempts[night][m] + 1
      /\ \A x \in Known : x # m => attempts'[night][x] = attempts[night][x]
      /\ \A k \in Nights : k # night => attempts'[k] = attempts[k]
  BY <1>1, <1>2, <1>3
<1>9. ASSUME step \in {"gcp", "aws"}
      PROVE  Counted' /\ BoundedProvisions'
  <2>1. \A x \in Known : attempts[night][x] =
                           IF x \in Reporting \cup Missing THEN 1 ELSE 0
    BY <1>9 DEF IInv, Counted
  <2>2. \A x \in Known : attempts'[night][x] =
                           IF x \in Reporting' \cup Missing' THEN 1 ELSE 0
    BY <1>3, <1>5, <1>6, <1>8, <2>1
  <2>3. Counted'
    BY <1>1, <1>2, <1>8, <1>9, <2>2 DEF IInv, Counted, Nights
  <2>4. Reporting' \cup Missing' \subseteq Machines
    BY <1>1, <1>2, <1>7, <1>9, Fleets DEF Shared
  <2>5. ASSUME NEW k \in Nights, NEW x \in Known
        PROVE  /\ attempts'[k][x] <= IF x \in Machines THEN 2 ELSE 0
               /\ attempts'[k][x] > 1 =>
                    \E other \in Machines :
                      attempts'[k][other] = 1 /\ HasRows(k, other)'
    <3>1. CASE k = night
      BY <2>2, <2>4, <3>1
    <3>2. CASE k # night
      BY <1>6, <1>8, <3>2, Fleets DEF IInv, BoundedProvisions
    <3> QED
      BY <3>1, <3>2
  <2> QED
    BY <2>3, <2>5 DEF BoundedProvisions
<1>10. ASSUME step \in {"retryGcp", "retryAws"}
       PROVE  Counted' /\ BoundedProvisions'
  <2>1. PICK other \in Machines : attempts[night][other] = 1 /\ HasRows(night, other)
    BY <1>10 DEF IInv, Counted
  <2>2. other # m /\ other \in Known
    BY <1>5, <2>1, Fleets DEF Reporting
  <2>3. attempts'[night][other] = 1 /\ HasRows(night, other)'
    BY <1>1, <1>2, <1>6, <1>8, <2>1, <2>2 DEF HasRows
  <2>4. attempts[night][m] = 1
    BY <1>4, <1>10 DEF IInv, Counted
  <2>5. \A x \in Waiting' : attempts'[night][x] = 1
    <3>1. Waiting' \subseteq Known
      BY <1>1, <1>2, <1>7, Fleets DEF Shared
    <3> QED
      BY <1>4, <1>8, <1>10, <3>1 DEF IInv, Counted
  <2>6. Counted'
    BY <1>1, <1>2, <1>8, <1>10, <2>3, <2>5 DEF IInv, Counted, Nights, FleetSteps
  <2>7. ASSUME NEW k \in Nights, NEW x \in Known
        PROVE  /\ attempts'[k][x] <= IF x \in Machines THEN 2 ELSE 0
               /\ attempts'[k][x] > 1 =>
                    \E y \in Machines :
                      attempts'[k][y] = 1 /\ HasRows(k, y)'
    <3>1. CASE k = night
      <4>1. attempts'[k][other] = 1 /\ HasRows(k, other)'
        BY <1>1, <2>3, <3>1 DEF HasRows
      <4>2. attempts'[k][x] <= IF x \in Machines THEN 2 ELSE 0
        BY <1>3, <1>8, <2>4, <3>1 DEF IInv, BoundedProvisions
      <4> QED
        BY <4>1, <4>2
    <3>2. CASE k # night
      BY <1>6, <1>8, <3>2, Fleets DEF IInv, BoundedProvisions
    <3> QED
      BY <3>1, <3>2
  <2> QED
    BY <2>6, <2>7 DEF BoundedProvisions
<1>11. Seeded' /\ Pushed'
  BY <1>1, <1>2 DEF IInv, Seeded, Pushed, Work, FleetSteps
<1>12. Types'
  BY TypesKept DEF IInv, Next, Proceed
<1> QED
  BY <1>1, <1>7, <1>9, <1>10, <1>11, <1>12, SameSite DEF IInv, FleetSteps

\* The first fleet is done with its machines; those of the second wait.
LEMMA GcpEndsInv == IInv /\ GcpFleetEnds => IInv'
<1> SUFFICES ASSUME IInv, GcpFleetEnds PROVE IInv'
  OBVIOUS
<1>1. /\ step = "gcp" /\ queue = <<>> /\ step' = "aws" /\ queue' = AwsMachines
      /\ UNCHANGED <<night, rows, log, attempts, outcome, data, site, pushed,
                     today>>
  BY FleetAssumption DEF GcpFleetEnds, FleetDone, StartFleet, publication
<1>2. Waiting = {} /\ Waiting' = FleetOf("aws")
  BY <1>1, ElemsEmpty DEF Waiting, FleetOf
<1>3. Divided /\ Reporting \cup Missing = FleetOf("gcp")
  BY <1>1, <1>2 DEF IInv, Shared, Work, FleetSteps
<1>4. Divided' /\ Reporting' = Reporting /\ Missing' = Missing
  BY <1>1, <1>3, SamePlaces
<1>5. Shared'
  BY <1>1, <1>2, <1>3, <1>4, Fleets, FleetAssumption
  DEF Shared, FleetSteps, Cloud, FleetOf
<1>6. Counted' /\ Seeded' /\ Pushed'
  BY <1>1, <1>4 DEF IInv, Counted, Seeded, Pushed, Work, FleetSteps
<1>7. Types'
  BY TypesKept DEF IInv, Next, Proceed
<1> QED
  BY <1>1, <1>5, <1>6, <1>7, SameProvisions, SameSite DEF IInv

\* The steps without a fleet, or after one, move on.
LEMMA PassInv ==
  IInv /\ (AwsFleetEnds \/ NoRetry \/ RetryAwsEnds \/ NetProbes) => IInv'
<1> SUFFICES ASSUME IInv,
                    AwsFleetEnds \/ NoRetry \/ RetryAwsEnds \/ NetProbes
             PROVE  IInv'
  OBVIOUS
<1>1. Types'
  BY TypesKept DEF IInv, Next, Proceed
<1>2. /\ step \in {"aws", "retry", "retryAws", "net"}
      /\ step' \in {"retry", "net", "publish"}
      /\ step' = "retry" => step = "aws"
      /\ UNCHANGED <<night, queue, rows, log, attempts, outcome, data,
                     site, pushed>>
      /\ step \in {"aws", "retryAws"} => queue = <<>>
  BY DEF AwsFleetEnds, NoRetry, RetryAwsEnds, NetProbes, FleetDone, fleet,
         publication
<1>3. queue = <<>> /\ step \in Work \ {"gcp", "push"}
  BY <1>2 DEF IInv, Shared, Work, FleetSteps
<1>4. Waiting = {}
  BY <1>2, <1>3, ElemsEmpty DEF Waiting
<1> QED
  BY <1>1, <1>2, <1>3, <1>4, MoveOn

\* What was missing waits, and is missing no more; a machine that reported is
\* the reason for which a second attempt is worth making.
LEMMA TakeInv == IInv /\ TakeWorklist => IInv'
<1> SUFFICES ASSUME IInv, TakeWorklist PROVE IInv'
  OBVIOUS
<1>1. /\ step = "retry" /\ log # NoLines /\ rows[night] # <<>>
      /\ awsRetry' = log["aws"] /\ log' = NoLines
      /\ CallRetry(log["gcp"], log["aws"])
      /\ UNCHANGED <<night, rows, attempts, outcome, data, site, pushed, today>>
  BY DEF TakeWorklist, Lines, publication
<1>2. /\ night \in Nights /\ log["gcp"] \in Seq(Known) /\ log["aws"] \in Seq(Known)
      /\ rows[night] \in Seq(Batches) /\ log \in [Clouds -> Seq(Known)]
  BY DEF IInv, Types, Clouds
<1>3. /\ Divided /\ Reporting \cup Missing = Machines
  <2>1. queue = <<>> /\ Waiting = {}
    BY <1>1, ElemsEmpty DEF IInv, Shared, Waiting, Work, FleetSteps
  <2> QED
    BY <1>1, <2>1 DEF IInv, Shared, Work
<1>4. log["gcp"] # <<>> \/ log["aws"] # <<>>
  BY <1>1, <1>2 DEF NoLines, Clouds
<1>5. \/ step' = "retryGcp" /\ queue' = log["gcp"]
      \/ step' = "retryAws" /\ queue' = log["aws"] /\ log["gcp"] = <<>>
  BY <1>1, <1>4 DEF CallRetry, CallAwsRetry, StartFleet
<1>6. Waiting' = Missing
  <2>1. CASE step' = "retryGcp" /\ queue' = log["gcp"]
    BY <1>1, <2>1 DEF Waiting, Missing
  <2>2. CASE step' = "retryAws" /\ queue' = log["aws"] /\ log["gcp"] = <<>>
    BY <1>1, <2>2, ElemsEmpty DEF Waiting, Missing
  <2> QED
    BY <1>5, <2>1, <2>2
<1>7. Reporting' = Reporting /\ Missing' = {} /\ Divided'
  BY <1>1, <1>3, ElemsEmpty
  DEF Reporting, HasRows, Missing, NoLines, Clouds, Divided
<1>8. Shared'
  <2>1. \A c \in Clouds : Distinct(log[c]) /\ Elems(log[c]) \subseteq FleetOf(c)
    BY <1>3 DEF Divided
  <2>2. Reporting \cap Missing = {}
    BY <1>3 DEF Divided
  <2> QED
    BY <1>1, <1>3, <1>5, <1>6, <1>7, <2>1, <2>2
    DEF Shared, FleetSteps, Cloud, Clouds
<1>9. Counted'
  <2>1. \A x \in Known : attempts[night][x] =
                           IF x \in Reporting \cup Missing THEN 1 ELSE 0
    BY <1>1 DEF IInv, Counted
  <2>2. \A x \in Missing : attempts[night][x] = 1
    BY <1>3, <2>1, Fleets
  <2>3. PICK other \in Known : other \in Reporting
    <3>1. PICK b \in Elems(rows[night]) : b \in Batches
      BY <1>1, <1>2, ElemsOf
    <3>2. b.night = night
      BY <1>3, <3>1 DEF Divided, Elems
    <3>3. b.machine \in Known /\ b = Batch(night, b.machine)
      BY <3>1, <3>2, Batching DEF Batches
    <3> QED
      BY <3>1, <3>3 DEF Reporting, HasRows
  <2>4. /\ other \in Machines /\ attempts[night][other] = 1
        /\ HasRows(night, other)
    BY <1>3, <2>1, <2>3 DEF Reporting
  <2>5. HasRows(night, other)'
    BY <1>1, <2>4 DEF HasRows
  <2> QED
    BY <1>1, <1>5, <1>6, <2>2, <2>4, <2>5 DEF IInv, Counted
<1>10. Seeded' /\ Pushed'
  BY <1>1, <1>5 DEF IInv, Seeded, Pushed, Work, FleetSteps
<1>11. Types'
  BY TypesKept DEF IInv, Next, Proceed
<1> QED
  BY <1>1, <1>8, <1>9, <1>10, <1>11, SameProvisions, SameSite DEF IInv

\* The fleet of the second cloud is given its lines, if it has any.
LEMMA RetryGcpInv == IInv /\ RetryGcpEnds => IInv'
<1> SUFFICES ASSUME IInv, RetryGcpEnds PROVE IInv'
  OBVIOUS
<1>1. /\ step = "retryGcp" /\ queue = <<>> /\ CallAwsRetry(awsRetry)
      /\ UNCHANGED <<night, awsRetry, rows, log, attempts, outcome, data, site,
                     pushed, today>>
  BY DEF RetryGcpEnds, FleetDone, publication
<1>2. Types'
  BY TypesKept DEF IInv, Next, Proceed
<1>3. CASE awsRetry = <<>>
  <2>1. step' = "net" /\ UNCHANGED queue /\ Waiting = {}
    BY <1>1, <1>3, ElemsEmpty DEF CallAwsRetry, fleet, Waiting
  <2> QED
    BY <1>1, <1>2, <2>1, MoveOn DEF Work, FleetSteps
<1>4. CASE awsRetry # <<>>
  <2>1. step' = "retryAws" /\ queue' = awsRetry
    BY <1>1, <1>4 DEF CallAwsRetry, StartFleet
  <2>2. Waiting' = Waiting
    BY <1>1, <2>1, ElemsEmpty DEF Waiting
  <2>3. /\ Divided /\ Reporting \cup Missing \cup Waiting = Machines
        /\ Waiting \cap (Reporting \cup Missing) = {}
        /\ Distinct(awsRetry) /\ Elems(awsRetry) \subseteq FleetOf("aws")
    BY <1>1 DEF IInv, Shared, Work, FleetSteps
  <2>4. Divided' /\ Reporting' = Reporting /\ Missing' = Missing
    BY <1>1, <2>3, SamePlaces
  <2>5. Shared'
    BY <2>1, <2>2, <2>3, <2>4 DEF Shared, FleetSteps, Cloud
  <2>6. Counted'
    BY <1>1, <2>1, <2>2 DEF IInv, Counted, HasRows
  <2>7. Seeded' /\ Pushed'
    BY <1>1, <2>1 DEF IInv, Seeded, Pushed, Work, FleetSteps
  <2> QED
    BY <1>1, <1>2, <2>5, <2>6, <2>7, SameProvisions, SameSite DEF IInv
<1> QED
  BY <1>3, <1>4

\* The rows of the night become the file of a date, and only of that one.
LEMMA MergeInv == IInv /\ MergeFiles => IInv'
<1> SUFFICES ASSUME IInv, MergeFiles PROVE IInv'
  OBVIOUS
<1>1. /\ step = "publish" /\ step' \in {"push", "report"}
      /\ UNCHANGED <<night, queue, awsRetry, rows, log, attempts, summary, site,
                     pushed>>
      /\ step' = "push" => outcome' = outcome /\ rows[night] # <<>>
      /\ outcome' \in {outcome, "failure"}
  BY DEF MergeFiles, Stop, fleet
<1>2. Types'
  BY TypesKept DEF IInv, Next, Proceed
<1>3. Shared'
  <2>1. CASE step' = "push"
    <3>1. /\ Divided /\ Reporting \cup Missing \cup Waiting = Machines
          /\ Waiting \cap (Reporting \cup Missing) = {} /\ queue = <<>>
      BY <1>1 DEF IInv, Shared, Work, FleetSteps
    <3>2. Waiting' = Waiting /\ Divided' /\ Reporting' = Reporting /\ Missing' = Missing
      BY <1>1, <2>1, <3>1, SamePlaces DEF Waiting
    <3> QED
      BY <1>1, <2>1, <3>1, <3>2 DEF Shared, FleetSteps
  <2>2. CASE step' = "report"
    BY <2>2 DEF Shared, Work, FleetSteps
  <2> QED
    BY <1>1, <2>1, <2>2
<1>4. Counted'
  BY <1>1 DEF IInv, Counted
<1>5. Seeded'
  <2>1. CASE step' = "push"
    <3>1. PICK d \in Dates :
            /\ today' = d
            /\ data' = [dated  |-> [data.dated EXCEPT ![d] = rows[night]],
                        merged |-> ReadDaily([data.dated EXCEPT
                                                ![d] = rows[night]])]
      BY <2>1 DEF MergeFiles, Stop
    <3>2. data.dated = site.dated
      BY <1>1 DEF IInv, Seeded, Work
    <3> QED
      BY <1>1, <2>1, <3>1, <3>2 DEF Seeded, Work
  <2>2. CASE step' = "report"
    BY <2>2 DEF Seeded, Work, FleetSteps
  <2> QED
    BY <1>1, <2>1, <2>2
<1>6. Pushed'
  BY <1>1 DEF IInv, Pushed
<1> QED
  BY <1>1, <1>2, <1>3, <1>4, <1>5, <1>6, SameProvisions, SameSite DEF IInv

\* The pushed files are those of the site but for one, which is of this night.
LEMMA PushInv == IInv /\ Push => IInv'
<1> SUFFICES ASSUME IInv, Push PROVE IInv'
  OBVIOUS
<1>1. /\ step = "push" /\ step' = "report"
      /\ UNCHANGED <<night, rows, log, attempts, today, data>>
      /\ \/ pushed' = TRUE
         \/ outcome' = "failure" /\ UNCHANGED <<site, pushed>>
  BY DEF Push, Stop
<1>2. Types'
  BY TypesKept DEF IInv, Next, Proceed
<1>3. Shared' /\ Counted' /\ Seeded'
  BY <1>1 DEF IInv, Shared, Counted, Seeded, Work, FleetSteps
<1>4. CASE outcome' = "failure" /\ UNCHANGED <<site, pushed>>
  <2>1. Pushed'
    BY <1>1, <1>4 DEF IInv, Pushed
  <2> QED
    BY <1>1, <1>2, <1>3, <1>4, <2>1, SameProvisions, SameSite DEF IInv
<1>5. CASE ~(outcome' = "failure" /\ UNCHANGED <<site, pushed>>)
  <2>1. /\ pushed' = TRUE
        /\ site' = [dated  |-> [d \in Dates |->
                                  IF data.dated[d] = <<>> THEN site.dated[d]
                                                          ELSE data.dated[d]],
                    merged |-> data.merged,
                    dead   |-> rows[night]]
    BY <1>5 DEF Push, Stop
  <2>2. /\ night \in Nights /\ today \in Dates /\ ~pushed
        /\ site.dated \in [Dates -> Seq(Batches)]
        /\ data.dated = [site.dated EXCEPT ![today] = rows[night]]
        /\ rows[night] # <<>> /\ data.merged = ReadDaily(data.dated)
    BY <1>1 DEF IInv, Types, Seeded, Pushed
  <2>3. site'.dated = data.dated /\ site'.merged = data.merged
    <3>1. \A d \in Dates : data.dated[d] = <<>> => site.dated[d] = <<>>
      BY <2>2
    <3>2. [d \in Dates |-> IF data.dated[d] = <<>> THEN site.dated[d]
                                                   ELSE data.dated[d]]
            = [d \in Dates |-> data.dated[d]]
      BY <3>1
    <3>3. data.dated = [d \in Dates |-> data.dated[d]]
      BY <2>2
    <3> QED
      BY <2>1, <3>2, <3>3
  <2>4. /\ site'.dated[today] = rows[night]
        /\ \A d \in Dates : d # today => site'.dated[d] = site.dated[d]
    BY <2>2, <2>3
  <2>5. /\ Divided /\ Reporting \cup Missing = Machines
    <3>1. queue = <<>> /\ Waiting = {}
      BY <1>1, ElemsEmpty DEF IInv, Shared, Waiting, Work, FleetSteps
    <3> QED
      BY <1>1, <3>1 DEF IInv, Shared, Work
  <2>6. Divided' /\ Reporting' = Reporting /\ Missing' = Missing
    BY <1>1, <2>5, SamePlaces
  <2>7. Pushed'
    BY <1>1, <2>2, <2>3, <2>4, <2>5, <2>6 DEF Pushed
  <2>8. Dated'
    <3>1. /\ Distinct(rows[night])
          /\ \A i \in DOMAIN rows[night] : rows[night][i].night = night
      BY <2>5 DEF Divided
    <3>2. /\ \A d \in Dates : Distinct(site.dated[d])
          /\ \A d, e \in Dates :
               \A i \in DOMAIN site.dated[d], j \in DOMAIN site.dated[e] :
                 site.dated[d][i].night = site.dated[e][j].night => d = e
          /\ \A d \in Dates : \A i \in DOMAIN site.dated[d] :
               site.dated[d][i].night <= night /\ site.dated[d][i].night # night
      BY <2>2 DEF IInv, Dated
    <3>3. ASSUME NEW d \in Dates
          PROVE  /\ Distinct(site'.dated[d])
                 /\ \A i \in DOMAIN site'.dated[d] :
                      /\ site'.dated[d][i].night <= night
                      /\ \A e \in Dates : \A j \in DOMAIN site'.dated[e] :
                           site'.dated[d][i].night = site'.dated[e][j].night
                             => d = e
      <4>1. CASE d = today
        <5>1. /\ Distinct(site'.dated[d])
              /\ \A i \in DOMAIN site'.dated[d] : site'.dated[d][i].night = night
          BY <2>4, <3>1, <4>1
        <5>2. \A e \in Dates : e # d => \A j \in DOMAIN site'.dated[e] :
                site'.dated[e][j].night # night
          BY <2>4, <3>2, <4>1
        <5>3. night <= night
          BY <2>2 DEF Nights
        <5> QED
          BY <5>1, <5>2, <5>3
      <4>2. CASE d # today
        <5>1. /\ Distinct(site'.dated[d])
              /\ \A i \in DOMAIN site'.dated[d] :
                   /\ site'.dated[d][i].night <= night
                   /\ site'.dated[d][i].night # night
          BY <2>4, <3>2, <4>2
        <5>2. ASSUME NEW e \in Dates, e # d, NEW i \in DOMAIN site'.dated[d],
                     NEW j \in DOMAIN site'.dated[e]
              PROVE  site'.dated[d][i].night # site'.dated[e][j].night
          <6>1. CASE e = today
            BY <2>4, <3>1, <5>1, <6>1
          <6>2. CASE e # today
            BY <2>4, <3>2, <4>2, <5>2, <6>2
          <6> QED
            BY <6>1, <6>2
        <5> QED
          BY <5>1, <5>2
      <4> QED
        BY <4>1, <4>2
    <3> QED
      BY <1>1, <2>1, <3>3 DEF Dated
  <2> QED
    BY <1>1, <1>2, <1>3, <2>7, <2>8, SameProvisions DEF IInv
<1> QED
  BY <1>4, <1>5

\* The report copies the log.
LEMMA ReportInv == IInv /\ Report => IInv'
<1> SUFFICES ASSUME IInv, Report PROVE IInv'
  OBVIOUS
<1>1. /\ step = "report" /\ step' = "done" /\ summary'.missing = log
      /\ UNCHANGED <<night, rows, log, attempts, outcome, today, data, site,
                     pushed>>
  BY DEF Report, publication
<1>2. Types'
  BY TypesKept DEF IInv, Next, Proceed
<1>3. Shared' /\ Counted' /\ Seeded'
  BY <1>1 DEF IInv, Shared, Counted, Seeded, Work, FleetSteps
<1>4. Pushed'
  BY <1>1, SamePlaces DEF IInv, Pushed
<1> QED
  BY <1>1, <1>2, <1>3, <1>4, SameProvisions, SameSite DEF IInv

\* A cancelled run has pushed nothing.
LEMMA CancelInv == IInv /\ Cancel => IInv'
<1> SUFFICES ASSUME IInv, Cancel PROVE IInv'
  OBVIOUS
<1>1. /\ step \notin {"report", "done"} /\ step' = "report"
      /\ outcome' = "cancelled"
      /\ UNCHANGED <<night, rows, log, attempts, today, data, site, pushed>>
  BY DEF Cancel, Stop, publication
<1>2. Types'
  BY TypesKept DEF IInv, Next, Proceed
<1>3. Shared' /\ Counted' /\ Seeded'
  BY <1>1 DEF IInv, Shared, Counted, Seeded, Work, FleetSteps
<1>4. Pushed'
  BY <1>1 DEF IInv, Pushed
<1> QED
  BY <1>1, <1>2, <1>3, <1>4, SameProvisions, SameSite DEF IInv

\* All rows of the site are of nights before the next one.
LEMMA NextNightInv == IInv /\ NextNight => IInv'
<1> SUFFICES ASSUME IInv, NextNight PROVE IInv'
  OBVIOUS
<1>1. /\ step' = "setup" /\ night' = night + 1 /\ night < LastNight
      /\ outcome' = "running" /\ pushed' = FALSE
      /\ UNCHANGED <<rows, attempts, today, site>>
  BY DEF NextNight
<1>2. Types'
  BY TypesKept DEF IInv, Next
<1>3. night \in Nights /\ night' \in Nights
  BY <1>1, FleetAssumption DEF IInv, Types, Nights
<1>4. Shared' /\ Seeded' /\ Pushed'
  BY <1>1 DEF IInv, Shared, Seeded, Pushed, Work, FleetSteps
<1>5. Counted'
  BY <1>1, <1>3 DEF IInv, Counted, Nights
<1>6. Dated'
  <2>1. \A d \in Dates : \A i \in DOMAIN site.dated[d] :
          site.dated[d][i].night \in 0 .. LastNight
    <3>1. site.dated \in [Dates -> Seq(Batches)]
      BY DEF IInv, Types
    <3>2. \A d \in Dates : \A i \in DOMAIN site.dated[d] :
            site.dated[d][i] \in Batches
      BY <3>1
    <3> QED
      BY <3>2 DEF Batches
  <2>2. \A d \in Dates : \A i \in DOMAIN site.dated[d] :
          /\ site.dated[d][i].night <= night + 1
          /\ site.dated[d][i].night # night + 1
    BY <1>3, <2>1 DEF IInv, Dated, Nights
  <2> QED
    BY <1>1, <2>2 DEF IInv, Dated
<1> QED
  BY <1>1, <1>2, <1>4, <1>5, <1>6, SameProvisions DEF IInv

\* A stuttering step changes nothing the invariant is about.
LEMMA StutterInv == IInv /\ UNCHANGED vars => IInv'
<1> SUFFICES ASSUME IInv, UNCHANGED vars PROVE IInv'
  OBVIOUS
<1>1. UNCHANGED <<night, step, queue, awsRetry, rows, log, attempts, outcome,
                  summary, today, data, site, pushed>>
  BY DEF vars, fleet, publication
<1>2. /\ Divided' = Divided /\ Reporting' = Reporting /\ Missing' = Missing
      /\ Waiting' = Waiting /\ \A k, m : HasRows(k, m)' = HasRows(k, m)
  BY <1>1, SamePlaces DEF Waiting, HasRows
<1>3. Types'
  BY TypesKept DEF IInv
<1>4. Shared' /\ Counted'
  BY <1>1, <1>2 DEF IInv, Shared, Counted
<1>5. Seeded' /\ Pushed'
  BY <1>1, <1>2 DEF IInv, Seeded, Pushed
<1> QED
  BY <1>1, <1>3, <1>4, <1>5, SameProvisions, SameSite DEF IInv

-----------------------------------------------------------------------------
(* The types of the report and of the merged rows.                         *)

\* What Types leaves out of TypeOK.
Files ==
  /\ summary \in [kind : {"none", "allReported", "missing"},
                  missing : [Clouds -> Seq(Known)]]
  /\ data \in [dated : [Dates -> Seq(Batches)], merged : Seq(Batches)]
  /\ site \in [dated : [Dates -> Seq(Batches)], merged : Seq(Batches),
               dead : Seq(Batches)]

\* The merge of the files is a list of batches too.
LEMMA MergeTyped ==
  ASSUME NEW dated \in [Dates -> Seq(Batches)]
  PROVE  ReadDaily(dated) \in Seq(Batches)
  BY FlattenTyped, FleetAssumption DEF ReadDaily, Dates

\* A runner starts with no files.
LEMMA NothingYet ==
  /\ NoReport \in [kind : {"none", "allReported", "missing"},
                   missing : [Clouds -> Seq(Known)]]
  /\ NoFiles \in [dated : [Dates -> Seq(Batches)], merged : Seq(Batches)]
<1>1. /\ NoLines \in [Clouds -> Seq(Known)] /\ <<>> \in Seq(Batches)
      /\ [d \in Dates |-> <<>>] \in [Dates -> Seq(Batches)]
  BY DEF NoLines
<1> QED
  BY <1>1 DEF NoReport, NoFiles

\* The site of before the first night has the merge of its files.
LEMMA InitFiles == Init => Files
<1> SUFFICES ASSUME Init PROVE Files
  OBVIOUS
<1>1. PICK dated \in {NoFiles.dated, [NoFiles.dated EXCEPT ![1] = OldRows]} :
        site = [dated |-> dated, merged |-> ReadDaily(dated),
                dead |-> dated[1]]
  BY DEF Init, Sites
<1>2. NoFiles.dated \in [Dates -> Seq(Batches)] /\ 1 \in Dates
  BY FleetAssumption DEF NoFiles, Dates
<1>3. dated \in [Dates -> Seq(Batches)] /\ dated[1] \in Seq(Batches)
  BY <1>2, Past
<1>4. ReadDaily(dated) \in Seq(Batches)
  BY <1>3, MergeTyped
<1> QED
  BY <1>1, <1>3, <1>4, NothingYet DEF Init, Files

\* Every step keeps them.
LEMMA FilesKept == Types /\ Files /\ [Next]_vars => Files'
<1> SUFFICES ASSUME Types, Files, [Next]_vars PROVE Files'
  OBVIOUS
<1>1. /\ night \in Nights /\ rows[night] \in Seq(Batches)
      /\ log \in [Clouds -> Seq(Known)]
      /\ data.dated \in [Dates -> Seq(Batches)]
  BY DEF Types
<1>2. CASE UNCHANGED <<summary, data, site>>
  BY <1>2 DEF Files
<1>3. CASE Setup
  <2>1. [dated |-> site.dated, merged |-> site.merged]
          \in [dated : [Dates -> Seq(Batches)], merged : Seq(Batches)]
    BY DEF Files
  <2> QED
    BY <1>3, <2>1 DEF Setup, Files
<1>4. CASE MergeFiles
  <2>1. /\ UNCHANGED <<summary, site>>
        /\ \/ UNCHANGED data
           \/ \E d \in Dates :
                LET dated == [data.dated EXCEPT ![d] = rows[night]]
                IN  data' = [dated |-> dated, merged |-> ReadDaily(dated)]
    BY <1>4 DEF MergeFiles
  <2>2. \A d \in Dates :
          [data.dated EXCEPT ![d] = rows[night]] \in [Dates -> Seq(Batches)]
    BY <1>1
  <2>3. CASE UNCHANGED data
    BY <1>2, <2>1, <2>3
  <2>4. ASSUME NEW d \in Dates,
               data' = [dated  |-> [data.dated EXCEPT ![d] = rows[night]],
                        merged |-> ReadDaily([data.dated EXCEPT
                                                ![d] = rows[night]])]
        PROVE  Files'
    <3> DEFINE dated == [data.dated EXCEPT ![d] = rows[night]]
    <3>1. dated \in [Dates -> Seq(Batches)] /\ ReadDaily(dated) \in Seq(Batches)
      BY <2>2, MergeTyped
    <3>2. data' = [dated |-> dated, merged |-> ReadDaily(dated)]
      BY <2>4
    <3> HIDE DEF dated
    <3> QED
      BY <2>1, <3>1, <3>2 DEF Files
  <2> QED
    BY <2>1, <2>3, <2>4
<1>5. CASE Push
  <2>1. UNCHANGED <<summary, site>>
        \/ site' = [dated  |-> [d \in Dates |->
                                  IF data.dated[d] = <<>> THEN site.dated[d]
                                                          ELSE data.dated[d]],
                    merged |-> data.merged,
                    dead   |-> rows[night]]
    BY <1>5 DEF Push
  <2>2. /\ [d \in Dates |-> IF data.dated[d] = <<>> THEN site.dated[d]
                            ELSE data.dated[d]] \in [Dates -> Seq(Batches)]
        /\ data.merged \in Seq(Batches)
    BY <1>1 DEF Files
  <2>3. UNCHANGED <<summary, data>>
    BY <1>5 DEF Push
  <2> QED
    BY <1>1, <2>1, <2>2, <2>3 DEF Files
<1>6. CASE Report
  <2>1. /\ summary' = [kind |-> IF log = NoLines THEN "allReported"
                                                 ELSE "missing",
                       missing |-> log]
        /\ UNCHANGED <<data, site>>
    BY <1>6 DEF Report, publication
  <2> QED
    BY <1>1, <2>1 DEF Files
<1>7. CASE NextNight
  BY <1>7, NothingYet DEF NextNight, Files
<1>8. CASE \/ StartNight \/ RunMachine \/ GcpFleetEnds \/ AwsFleetEnds
           \/ NoRetry \/ TakeWorklist \/ RetryGcpEnds \/ RetryAwsEnds
           \/ NetProbes \/ Cancel
  BY <1>2, <1>8
  DEF StartNight, RunMachine, GcpFleetEnds, AwsFleetEnds, NoRetry,
      TakeWorklist, RetryGcpEnds, RetryAwsEnds, NetProbes, Cancel, publication
<1>9. CASE UNCHANGED vars
  BY <1>2, <1>9 DEF vars, publication
<1> QED
  BY <1>3, <1>4, <1>5, <1>6, <1>7, <1>8, <1>9 DEF Next, Proceed, Finished

-----------------------------------------------------------------------------
(* The theorems.                                                           *)

\* The invariant holds in every reachable state.
THEOREM Invariance == Spec => []IInv
<1>1. IInv /\ [Next]_vars => IInv'
  BY SetupInv, StartInv, RunInv, GcpEndsInv, PassInv, TakeInv, RetryGcpInv,
     MergeInv, PushInv, ReportInv, CancelInv, NextNightInv, StutterInv
  DEF Next, Proceed, Finished
<1> QED
  BY <1>1, InitInv, PTL DEF Spec

\* For all fleets and any number of nights, every variable keeps its type: the
\* counters, the lists, the files and the report of a night (nightly.yml).
THEOREM TypeCorrect == Spec => []TypeOK
<1>1. IInv /\ Files /\ [Next]_vars => Files'
  BY FilesKept DEF IInv
<1>2. IInv /\ Files => TypeOK
  BY DEF IInv, Types, Files, TypeOK
<1> QED
  BY <1>1, <1>2, InitFiles, Invariance, PTL DEF Spec

\* However the workers, the job and its pushes end, on any number of nights, no
\* machine is provisioned more than twice a night, and none a second time but
\* on a night on which another gave results (retry-failed.sh 9-12).
THEOREM ProvisionsBounded == Spec => []BoundedProvisions
<1>1. IInv => BoundedProvisions
  BY DEF IInv
<1> QED
  BY <1>1, Invariance, PTL

\* For all fleets: after the passes of a night every machine of the workflow
\* has rows, once, or one line in the log (bench-gcp-fleet.sh, retry-failed.sh).
THEOREM MachinesAccounted == Spec => []EveryMachineAccounted
<1>1. IInv => EveryMachineAccounted
  <2> SUFFICES ASSUME IInv,
                      step \in {"retry", "net", "publish", "push"}
                        \/ outcome = "success"
               PROVE  Divided /\ Reporting \cup Missing = Machines
    BY Fleets DEF EveryMachineAccounted, Divided, Clouds
  <2>1. CASE step \in {"retry", "net", "publish", "push"}
    <3>1. queue = <<>> /\ Waiting = {}
      BY <2>1, ElemsEmpty DEF IInv, Shared, Waiting, Work, FleetSteps
    <3> QED
      BY <2>1, <3>1 DEF IInv, Shared, Work
  <2>2. CASE outcome = "success"
    BY <2>2 DEF IInv, Pushed
  <2> QED
    BY <2>1, <2>2
<1> QED
  BY <1>1, Invariance, PTL

\* Whatever the nights did, and whatever dates they fell on, the table of the
\* site is the merge of its files, and has no batch twice (publish.py).
THEOREM SiteStaysWhole == Spec => []SiteIsWhole
<1>1. IInv => SiteIsWhole
  BY DEF IInv, SiteIsWhole, Pushed, Dated, Distinct
<1> QED
  BY <1>1, Invariance, PTL

\* What a night publishes is of that night, and the report names exactly the
\* machines it lacks (nightly.yml 140, 176-193).
THEOREM NightPublished == Spec => []PublishedIsTonight
<1>1. IInv => PublishedIsTonight
  <2> SUFFICES ASSUME IInv, pushed PROVE PublishedIsTonight
    BY DEF PublishedIsTonight
  <2>1. /\ site.dated[today] = rows[night] /\ Divided
        /\ Reporting \cup Missing = Machines
        /\ step = "done" => summary.missing = log
    BY DEF IInv, Pushed
  <2>2. Elems(rows[night]) = {Batch(night, m) : m \in Reporting}
    <3>1. \A b \in Elems(rows[night]) : b \in Batches /\ b.night = night
      <4>1. rows[night] \in Seq(Batches)
        BY DEF IInv, Types
      <4> QED
        BY <2>1, <4>1 DEF Divided, Elems
    <3>2. \A b \in Elems(rows[night]) :
            b = Batch(night, b.machine) /\ b.machine \in Known
      BY <3>1, Batching DEF Batches
    <3> QED
      BY <3>2 DEF Reporting, HasRows
  <2>3. Reporting \cap Missing = {}
    BY <2>1 DEF Divided
  <2>4. Missing = UNION {Elems(log[c]) : c \in Clouds}
    BY DEF Missing, Clouds
  <2> QED
    BY <2>1, <2>2, <2>3, <2>4 DEF PublishedIsTonight
<1> QED
  BY <1>1, Invariance, PTL

-----------------------------------------------------------------------------
(* The status of a fleet and of the job, a second invariant on top of IInv. *)

\* A job runs until a step fails, and it has tried every machine when both
\* fleets are done.
Tried ==
  /\ step \in Work \cup {"setup", "truncate"} => outcome = "running"
  /\ step \in Work \ {"gcp", "aws"} =>
       \A m \in Machines : attempts[night][m] > 0
  /\ EveryMachineTried

\* The counters of a first pass are about the data and the log of its cloud.
Tallied ==
  step \in {"gcp", "aws"} =>
    /\ ok > 0 <=> Reporting \cap FleetOf(step) # {}
    /\ failed > 0 <=> Missing \cap FleetOf(step) # {}

\* A turn of a machine of the first pass counts it.
LEMMA RunTallied == IInv /\ Tallied /\ RunMachine => Tallied'
<1> SUFFICES ASSUME IInv, Tallied, RunMachine, step \in {"gcp", "aws"}
             PROVE  /\ ok' > 0 <=> Reporting' \cap FleetOf(step) # {}
                    /\ failed' > 0 <=> Missing' \cap FleetOf(step) # {}
  BY DEF Tallied, RunMachine
<1> PICK m : m = Head(queue)
  OBVIOUS
<1>1. /\ night \in Nights /\ queue \in Seq(Known) /\ ok \in Nat /\ failed \in Nat
      /\ rows \in [Nights -> Seq(Batches)] /\ log \in [Clouds -> Seq(Known)]
      /\ step \in Work /\ step \in Clouds /\ Cloud(step) = step
      /\ UNCHANGED night /\ queue # <<>>
  BY DEF IInv, Types, Work, FleetSteps, Cloud, Clouds, RunMachine
<1>2. m \in Known /\ m \in FleetOf(step)
  BY <1>1, ElemsTail DEF IInv, Shared, FleetSteps
<1>3. CASE /\ rows' = [rows EXCEPT ![night] = Append(@, Batch(night, m))]
           /\ ok' = ok + 1 /\ UNCHANGED <<log, failed>>
  <2>1. Batch(night, m) \in Batches
    BY <1>1, <1>2, Batching DEF Nights
  <2>2. Batch(night, m) \in Elems(rows'[night])
    BY <1>1, <1>3, <2>1, ElemsAppend
  <2>3. m \in Reporting' /\ Missing' = Missing
    BY <1>1, <1>2, <1>3, <2>2 DEF Reporting, HasRows, Missing
  <2> QED
    BY <1>1, <1>2, <1>3, <2>3 DEF Tallied
<1>4. CASE /\ log' = [log EXCEPT ![Cloud(step)] = Append(@, m)]
           /\ failed' = failed + 1 /\ UNCHANGED <<rows, ok>>
  <2>1. m \in Elems(log'[step])
    BY <1>1, <1>2, <1>4, ElemsAppend
  <2>2. m \in Missing' /\ Reporting' = Reporting
    BY <1>1, <1>4, <2>1 DEF Reporting, HasRows, Missing, Clouds
  <2> QED
    BY <1>1, <1>2, <1>4, <2>2 DEF Tallied
<1> QED
  BY <1>3, <1>4 DEF RunMachine

\* The other steps start a pass with nothing of its cloud, or are none of one.
LEMMA TalliedKept == IInv /\ IInv' /\ Tallied /\ [Next]_vars => Tallied'
<1> SUFFICES ASSUME IInv, IInv', Tallied, [Next]_vars PROVE Tallied'
  OBVIOUS
<1>1. CASE RunMachine
  BY <1>1, RunTallied
<1>2. CASE StartNight
  <2>1. /\ step' = "gcp" /\ ok' = 0 /\ failed' = 0 /\ log' = NoLines
        /\ rows'[night] = <<>> /\ UNCHANGED night
    BY <1>2 DEF StartNight, StartFleet, IInv, Types
  <2>2. Reporting' = {} /\ Missing' = {}
    BY <2>1, ElemsEmpty DEF Reporting, HasRows, Missing, NoLines, Clouds
  <2> QED
    BY <2>1, <2>2 DEF Tallied
<1>3. CASE GcpFleetEnds
  <2>1. /\ step = "gcp" /\ queue = <<>> /\ step' = "aws" /\ ok' = 0 /\ failed' = 0
        /\ UNCHANGED <<night, rows, log>>
    BY <1>3 DEF GcpFleetEnds, FleetDone, StartFleet
  <2>2. Reporting \cup Missing \subseteq FleetOf("gcp")
    BY <2>1 DEF IInv, Shared, Work, FleetSteps
  <2> QED
    BY <2>1, <2>2, SamePlaces, Fleets DEF Tallied
<1>4. CASE step' \notin {"gcp", "aws"}
  BY <1>4 DEF Tallied
<1>5. CASE \/ Setup \/ AwsFleetEnds \/ NoRetry \/ TakeWorklist \/ RetryGcpEnds
           \/ RetryAwsEnds \/ NetProbes \/ MergeFiles \/ Push \/ Report
           \/ Cancel \/ NextNight
  <2>1. step' \notin {"gcp", "aws"}
    <3>1. CASE TakeWorklist \/ RetryGcpEnds
      <4>1. step \in {"retry", "retryGcp"}
        BY <3>1 DEF TakeWorklist, RetryGcpEnds, FleetDone
      <4> QED
        BY <3>1, <4>1
        DEF TakeWorklist, RetryGcpEnds, CallRetry, CallAwsRetry, StartFleet,
            fleet
    <3>2. CASE \/ Setup \/ AwsFleetEnds \/ NoRetry \/ RetryAwsEnds \/ NetProbes
               \/ MergeFiles \/ Push \/ Report \/ Cancel \/ NextNight
      BY <3>2
      DEF Setup, AwsFleetEnds, NoRetry, RetryAwsEnds, NetProbes, MergeFiles,
          Push, Report, Cancel, NextNight, Stop
    <3> QED
      BY <1>5, <3>1, <3>2
  <2> QED
    BY <1>4, <2>1
<1>6. CASE UNCHANGED vars
  <2>1. UNCHANGED <<step, ok, failed, night, rows, log>>
    BY <1>6 DEF vars, fleet
  <2> QED
    BY <2>1, SamePlaces DEF Tallied
<1> QED
  BY <1>1, <1>2, <1>3, <1>5, <1>6 DEF Next, Proceed, Finished

\* Counts only grow, and a step that fails the job comes before the fleets or
\* after them.
LEMMA TriedKept == IInv /\ IInv' /\ Tried /\ [Next]_vars => Tried'
<1> SUFFICES ASSUME IInv, IInv', Tried, [Next]_vars PROVE Tried'
  OBVIOUS
<1>1. night \in Nights /\ attempts \in [Nights -> [Known -> Nat]]
  BY DEF IInv, Types
<1>2. CASE RunMachine
  <2>1. /\ step \in FleetSteps /\ queue # <<>> /\ UNCHANGED <<night, step, outcome>>
        /\ attempts' = [attempts EXCEPT ![night][Head(queue)] = @ + 1]
    BY <1>2 DEF RunMachine
  <2>2. Head(queue) \in Known
    BY <2>1, ElemsTail DEF IInv, Types
  <2>3. \A x \in Known : attempts'[night][x] >= attempts[night][x]
    BY <1>1, <2>1, <2>2
  <2>4. outcome = "running" /\ step \in Work
    BY <2>1 DEF Tried, Work
  <2>5. \A x \in Machines : attempts[night][x] \in Nat /\ attempts'[night][x] \in Nat
    BY <1>1, Fleets DEF IInv, Types
  <2>6. step \in Work \ {"gcp", "aws"} =>
          \A x \in Machines : attempts'[night][x] > 0
    BY <2>3, <2>5, Fleets DEF Tried
  <2> QED
    BY <2>1, <2>4, <2>6 DEF Tried, EveryMachineTried
<1>3. CASE AwsFleetEnds
  <2>1. /\ step = "aws" /\ queue = <<>> /\ step' = "retry"
        /\ UNCHANGED <<night, attempts, outcome>>
    BY <1>3 DEF AwsFleetEnds, FleetDone
  <2>2. Waiting = {} /\ step \in Work
    BY <2>1, ElemsEmpty DEF Waiting, Work, FleetSteps
  <2>3. Machines = Reporting \cup Missing
    BY <2>1, <2>2 DEF IInv, Shared
  <2>4. \A x \in Machines : attempts[night][x] = 1
    BY <2>1, <2>3, Fleets DEF IInv, Counted
  <2> QED
    BY <2>1, <2>2, <2>4 DEF Tried, EveryMachineTried
<1>4. CASE Setup
  <2>1. /\ step = "setup" /\ step' \in {"truncate", "report"}
        /\ UNCHANGED <<night, attempts>>
        /\ step' = "truncate" => outcome' = outcome
    BY <1>4 DEF Setup, Stop
  <2>2. \A x \in Machines : attempts[night][x] = 0
    BY <2>1, Fleets DEF IInv, Counted
  <2> QED
    BY <2>1, <2>2 DEF Tried, EveryMachineTried, Work, FleetSteps
<1>5. CASE MergeFiles \/ Push
  <2>1. /\ step \in {"publish", "push"} /\ step' \in {"push", "report"}
        /\ UNCHANGED <<night, attempts>>
        /\ step' = "push" => outcome' = outcome
    BY <1>5 DEF MergeFiles, Push, Stop
  <2>2. \A x \in Machines : attempts[night][x] > 0
    BY <2>1 DEF Tried, Work, FleetSteps
  <2> QED
    BY <2>1, <2>2 DEF Tried, EveryMachineTried, Work, FleetSteps
<1>6. CASE StartNight \/ GcpFleetEnds
  <2>1. /\ step \in {"truncate", "gcp"} /\ step' \in {"gcp", "aws"}
        /\ UNCHANGED <<night, attempts, outcome>>
    BY <1>6 DEF StartNight, GcpFleetEnds, FleetDone, StartFleet
  <2> QED
    BY <2>1 DEF Tried, EveryMachineTried, Work, FleetSteps
<1>7. CASE NoRetry \/ TakeWorklist \/ RetryGcpEnds \/ RetryAwsEnds \/ NetProbes
  <2>1. /\ step \in Work \ {"gcp", "aws"}
        /\ UNCHANGED <<night, attempts, outcome>>
    BY <1>7
    DEF NoRetry, TakeWorklist, RetryGcpEnds, RetryAwsEnds, NetProbes,
        FleetDone, Work, FleetSteps
  <2> QED
    BY <2>1 DEF Tried, EveryMachineTried
<1>8. CASE Report \/ Cancel
  <2>1. /\ step' \in {"report", "done"} /\ UNCHANGED <<night, attempts>>
        /\ outcome' \in {outcome, "cancelled"}
    BY <1>8 DEF Report, Cancel, Stop
  <2> QED
    BY <2>1 DEF Tried, EveryMachineTried, Work, FleetSteps
<1>9. CASE NextNight
  BY <1>9 DEF NextNight, Tried, EveryMachineTried, Work, FleetSteps
<1>10. CASE UNCHANGED vars
  BY <1>10 DEF vars, Tried, EveryMachineTried
<1> QED
  BY <1>2, <1>3, <1>4, <1>5, <1>6, <1>7, <1>8, <1>9, <1>10
  DEF Next, Proceed, Finished

\* Both hold in every reachable state.
LEMMA StatusInvariance == Spec => [](Tried /\ Tallied)
<1>1. Init => Tried /\ Tallied
  BY FleetAssumption DEF Init, Tried, Tallied, EveryMachineTried, Work, FleetSteps
<1> QED
  BY <1>1, TriedKept, TalliedKept, Invariance, PTL DEF Spec

\* A cloud whose fleet fails as a whole does not stop the other: a job that
\* fails once a machine was provisioned has provisioned them all
\* (nightly.yml 142-150).
THEOREM AllTried == Spec => []EveryMachineTried
<1>1. Tried => EveryMachineTried
  BY DEF Tried
<1> QED
  BY <1>1, StatusInvariance, PTL

\* The exit status of a first pass is that no machine of its cloud gave
\* results (bench-gcp-fleet.sh and bench-aws-fleet.sh, line 7).
THEOREM StatusTellsResults == Spec => []FleetStatusTellsResults
<1>1. IInv /\ Tallied => FleetStatusTellsResults
  <2> SUFFICES ASSUME IInv, Tallied, step \in {"gcp", "aws"}, queue = <<>>
               PROVE  FleetStatus = 1 <=> FleetOf(step) \cap Reporting = {}
    BY DEF FleetStatusTellsResults, FleetDone, FleetOf
  <2>1. FleetOf(step) \subseteq Reporting \cup Missing
    <3>1. Waiting = {} /\ step \in Work
      BY ElemsEmpty DEF Waiting, Work, FleetSteps
    <3> QED
      BY <3>1, Fleets DEF IInv, Shared, Clouds
  <2>2. FleetOf(step) # {}
    BY FleetAssumption, ElemsOf DEF FleetOf
  <2>3. ok \in Nat /\ failed \in Nat
    BY DEF IInv, Types
  <2>4. /\ ok > 0 <=> Reporting \cap FleetOf(step) # {}
        /\ failed > 0 <=> Missing \cap FleetOf(step) # {}
    BY DEF Tallied
  <2> QED
    BY <2>1, <2>2, <2>3, <2>4 DEF FleetStatus
<1> QED
  BY <1>1, Invariance, StatusInvariance, PTL

-----------------------------------------------------------------------------
(* The refinement of WorkerContract.                                       *)

\* What the mapping gives for the variables of the contract.
Result == [a \in Uses |-> IF attempts[a[1]][a[2]] < a[3] THEN "working"
                          ELSE IF LastUse(a) THEN "ok"
                          ELSE "failed"]
Merged == {a \in Uses : LastUse(a)}

\* The parts of a use.
LEMMA UseParts ==
  \A a \in Uses : /\ a = <<a[1], a[2], a[3]>> /\ a[1] \in Nights
                  /\ a[2] \in Machines /\ a[2] \in Known /\ a[3] \in {1, 2}
  BY Fleets DEF Uses

\* A machine's turn is a use of the contract, the next one of that machine.
LEMMA RunUses ==
  IInv /\ IInv' /\ RunMachine =>
    \E a \in Uses : Contract!Succeed(a) \/ Contract!Fail(a)
<1> SUFFICES ASSUME IInv, IInv', RunMachine
             PROVE  \E a \in Uses : Contract!Succeed(a) \/ Contract!Fail(a)
  OBVIOUS
<1> PICK m : m = Head(queue)
  OBVIOUS
<1>1. /\ step \in FleetSteps /\ queue # <<>> /\ UNCHANGED night
      /\ attempts' = [attempts EXCEPT ![night][m] = @ + 1]
  BY DEF RunMachine
<1>2. /\ night \in Nights /\ queue \in Seq(Known)
      /\ rows \in [Nights -> Seq(Batches)]
      /\ attempts \in [Nights -> [Known -> Nat]]
      /\ step \in Work /\ Cloud(step) \in Clouds
  BY <1>1 DEF IInv, Types, Work, Cloud, Clouds
<1>3. m \in Known /\ m \in Machines /\ ~HasRows(night, m)
  <2>1. m \in Elems(queue) /\ m \in Known
    BY <1>1, <1>2, ElemsTail
  <2>2. m \in FleetOf(Cloud(step)) /\ m \notin Reporting
    BY <1>1, <1>2, <2>1 DEF IInv, Shared, Waiting
  <2> QED
    BY <1>2, <2>1, <2>2, Fleets DEF Reporting
<1>4. /\ attempts'[night][m] = attempts[night][m] + 1
      /\ \A k \in Nights, x \in Known :
           k # night \/ x # m => attempts'[k][x] = attempts[k][x]
  BY <1>1, <1>2, <1>3
<1>5. PICK use \in Uses : /\ use[1] = night /\ use[2] = m
                         /\ use[3] = attempts[night][m] + 1
                         /\ use = <<night, m, attempts[night][m] + 1>>
  <2>1. attempts'[night][m] <= 2
    BY <1>2, <1>3 DEF IInv, BoundedProvisions
  <2>2. attempts[night][m] \in Nat
    BY <1>2, <1>3
  <2>3. attempts[night][m] + 1 \in {1, 2}
    BY <1>4, <2>1, <2>2
  <2> QED
    BY <1>2, <1>3, <2>3 DEF Uses
<1>6. \A a \in Uses : a # use =>
        \/ a[1] # night \/ a[2] # m \/ a[3] # attempts[night][m] + 1
  BY <1>5, UseParts
<1>7. ASSUME NEW a \in Uses, a # use,
             \A k \in Nights, x \in Known : k # night \/ x # m =>
               Batch(k, x) \in Elems(rows'[k]) <=> Batch(k, x) \in Elems(rows[k])
      PROVE  Result'[a] = Result[a] /\ LastUse(a)' = LastUse(a)
  <2>1. /\ a[1] \in Nights /\ a[2] \in Known /\ a[3] \in {1, 2}
        /\ attempts[a[1]][a[2]] \in Nat /\ attempts'[a[1]][a[2]] \in Nat
    BY <1>2, UseParts DEF IInv, Types
  <2>2. CASE a[1] # night \/ a[2] # m
    <3>1. /\ attempts'[a[1]][a[2]] = attempts[a[1]][a[2]]
          /\ HasRows(a[1], a[2])' = HasRows(a[1], a[2])
      BY <1>4, <1>7, <2>1, <2>2 DEF HasRows
    <3> QED
      BY <3>1 DEF Result, LastUse
  <2>3. CASE a[1] = night /\ a[2] = m
    <3>1. a[3] # attempts[night][m] + 1 /\ attempts[night][m] \in Nat
      BY <1>6, <1>7, <2>1, <2>3
    <3>2. /\ attempts'[a[1]][a[2]] < a[3] <=> attempts[a[1]][a[2]] < a[3]
          /\ a[3] # attempts'[a[1]][a[2]]
      BY <1>4, <2>1, <2>3, <3>1
    <3>3. ~LastUse(a) /\ ~LastUse(a)'
      BY <1>3, <2>3, <3>2 DEF LastUse
    <3> QED
      BY <3>2, <3>3 DEF Result, LastUse, HasRows
  <2> QED
    BY <2>2, <2>3
<1>8. Result[use] = "working"
  BY <1>2, <1>3, <1>5 DEF Result
<1>9. CASE rows' = [rows EXCEPT ![night] = Append(@, Batch(night, m))]
  <2>1. Elems(rows'[night]) = Elems(rows[night]) \cup {Batch(night, m)}
    BY <1>2, <1>3, <1>9, Batching, ElemsAppend DEF Nights
  <2>2. \A k \in Nights, x \in Known : k # night \/ x # m =>
          Batch(k, x) \in Elems(rows'[k]) <=> Batch(k, x) \in Elems(rows[k])
    <3>1. \A x \in Known : x # m => Batch(night, x) # Batch(night, m)
      BY DEF Batch
    <3> QED
      BY <1>2, <1>9, <2>1, <3>1
  <2>3. LastUse(use)' /\ Result'[use] = "ok"
    <3>1. HasRows(night, m)' /\ LastUse(use)'
      BY <1>1, <1>4, <1>5, <2>1 DEF HasRows, LastUse
    <3> QED
      BY <1>2, <1>3, <1>4, <1>5, <3>1 DEF Result
  <2>4. Result' = [Result EXCEPT ![use] = "ok"]
    BY <1>5, <1>7, <2>2, <2>3 DEF Result
  <2>5. Merged' = Merged \cup {use}
    BY <1>5, <1>7, <2>2, <2>3 DEF Merged
  <2>6. Contract!Succeed(use)
    BY <1>8, <2>4, <2>5 DEF Contract!Succeed, Result, Merged
  <2> QED
    BY <1>5, <2>6
<1>10. CASE UNCHANGED rows
  <2>1. ~LastUse(use) /\ ~LastUse(use)' /\ Result'[use] = "failed"
    <3>1. ~HasRows(night, m)'
      BY <1>1, <1>3, <1>10 DEF HasRows
    <3>2. ~LastUse(use) /\ ~LastUse(use)'
      BY <1>1, <1>3, <1>5, <3>1 DEF LastUse, HasRows
    <3> QED
      BY <1>1, <1>2, <1>3, <1>4, <1>5, <3>2 DEF Result
  <2>2. \A a \in Uses : a # use =>
          Result'[a] = Result[a] /\ LastUse(a)' = LastUse(a)
    BY <1>7, <1>10
  <2>3. Result' = [Result EXCEPT ![use] = "failed"]
    BY <1>5, <2>1, <2>2 DEF Result
  <2>4. Merged' = Merged
    BY <1>5, <2>1, <2>2 DEF Merged
  <2>5. Contract!Fail(use)
    BY <1>8, <2>3, <2>4 DEF Contract!Fail, Result, Merged
  <2> QED
    BY <1>5, <2>5
<1> QED
  BY <1>9, <1>10 DEF RunMachine

\* Before the fleets of a night run, the two uses of each machine that night
\* are still to come, so that what is done to its data is no use.
LEMMA FreshRows ==
  ASSUME IInv, UNCHANGED <<night, attempts>>,
         \A x \in Known : attempts[night][x] = 0,
         \A k \in Nights : k # night => rows'[k] = rows[k]
  PROVE  Result' = Result /\ Merged' = Merged
<1>1. ASSUME NEW a \in Uses
      PROVE  Result'[a] = Result[a] /\ LastUse(a)' = LastUse(a)
  <2>1. a[1] \in Nights /\ a[2] \in Known /\ a[3] \in {1, 2}
    BY UseParts
  <2>2. CASE a[1] = night
    BY <2>1, <2>2 DEF Result, LastUse
  <2>3. CASE a[1] # night
    BY <2>1, <2>3 DEF Result, LastUse, HasRows
  <2> QED
    BY <2>2, <2>3
<1> QED
  BY <1>1 DEF Result, Merged

\* All other steps leave the uses as they are.
LEMMA OtherUses ==
  IInv /\ [Next]_vars /\ ~RunMachine => Result' = Result /\ Merged' = Merged
<1> SUFFICES ASSUME IInv, [Next]_vars, ~RunMachine
             PROVE  Result' = Result /\ Merged' = Merged
  OBVIOUS
<1>1. ASSUME UNCHANGED <<rows, attempts>>
      PROVE  Result' = Result /\ Merged' = Merged
  BY <1>1 DEF Result, Merged, LastUse, HasRows
<1>2. CASE Setup
  BY <1>2, FreshRows DEF Setup, IInv, Types, Counted
<1>3. CASE StartNight
  BY <1>3, FreshRows DEF StartNight, IInv, Types, Counted
<1>4. CASE \/ GcpFleetEnds \/ AwsFleetEnds \/ NoRetry \/ TakeWorklist
           \/ RetryGcpEnds \/ RetryAwsEnds \/ NetProbes \/ MergeFiles \/ Push
           \/ Report \/ Cancel \/ NextNight
  <2>1. UNCHANGED <<rows, attempts>>
    BY <1>4
    DEF GcpFleetEnds, AwsFleetEnds, NoRetry, TakeWorklist, RetryGcpEnds,
        RetryAwsEnds, NetProbes, MergeFiles, Push, Report, Cancel, NextNight
  <2> QED
    BY <1>1, <2>1
<1>5. CASE UNCHANGED vars
  BY <1>1, <1>5 DEF vars
<1> QED
  BY <1>2, <1>3, <1>4, <1>5 DEF Next, Proceed, Finished

\* The fleets of any number of nights, the retry pass included, use their
\* workers as WorkerContract allows: each attempt gives its rows once or none.
THEOREM NightsUseContract == Spec => UsesWorkerContract
<1>1. Init => Contract!Init
  <2> SUFFICES ASSUME Init PROVE Contract!Init
    OBVIOUS
  <2>1. ASSUME NEW a \in Uses
        PROVE  /\ attempts[a[1]][a[2]] < a[3] /\ ~LastUse(a)
    <3>1. attempts[a[1]][a[2]] = 0 /\ a[3] \in {1, 2}
      BY UseParts DEF Init
    <3> QED
      BY <3>1 DEF LastUse
  <2> QED
    BY <2>1 DEF Contract!Init
<1>2. IInv /\ IInv' /\ [Next]_vars => [Contract!Next]_(Contract!vars)
  <2> SUFFICES ASSUME IInv, IInv', [Next]_vars
               PROVE  Contract!Next \/ (Result' = Result /\ Merged' = Merged)
    BY DEF Contract!vars, Result, Merged
  <2>1. CASE RunMachine
    BY <2>1, RunUses DEF Contract!Next
  <2>2. CASE ~RunMachine
    BY <2>2, OtherUses
  <2> QED
    BY <2>1, <2>2
<1> QED
  BY <1>1, <1>2, Invariance, PTL DEF Spec, UsesWorkerContract, Contract!Spec
=============================================================================
