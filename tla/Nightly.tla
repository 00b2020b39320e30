------------------------------ MODULE Nightly ------------------------------
(***************************************************************************)
(* The nights of .github/workflows/nightly.yml, one after the other, with  *)
(* the fleet scripts they run (machines/bench-gcp-fleet.sh and             *)
(* bench-aws-fleet.sh), the retry pass (machines/retry-failed.sh) and the  *)
(* publication (scripts/publish.py).  A fleet runs its machines one after  *)
(* the other; each worker is the single command of WorkerContract.         *)
(*                                                                         *)
(* A night has a runner of its own, which starts from the two checkouts;   *)
(* what lasts is the site.                                                 *)
(***************************************************************************)
EXTENDS Naturals, Sequences, SequencesExt

CONSTANTS
  LastNight,                  \* the nights looked at are 1 .. LastNight
  LastDate,                   \* the dates they may fall on are 1 .. LastDate
  GcpMachines, AwsMachines,   \* the fleets, in order (nightly.yml:31-32)
  GcpDefault, AwsDefault,     \* what a fleet runs when it is given no machine
  OldMachine                  \* a machine measured before the first night

Nights == 1 .. LastNight
Dates == 1 .. LastDate
Clouds == {"gcp", "aws"}

Elems(s) == {s[i] : i \in DOMAIN s}
Distinct(s) == \A i, j \in DOMAIN s : s[i] = s[j] => i = j
Machines == Elems(GcpMachines) \cup Elems(AwsMachines)
Known == Machines \cup Elems(GcpDefault) \cup Elems(AwsDefault)
                  \cup {OldMachine}

ASSUME FleetAssumption ==
  /\ LastNight \in Nat \ {0} /\ LastDate \in Nat \ {0}
  /\ GcpMachines \in Seq(Machines) /\ GcpMachines # <<>>
  /\ AwsMachines \in Seq(Machines) /\ AwsMachines # <<>>
  /\ Distinct(GcpMachines) /\ Distinct(AwsMachines)
  /\ Elems(GcpMachines) \cap Elems(AwsMachines) = {}
  /\ GcpDefault \in Seq(Known) /\ AwsDefault \in Seq(Known)
  /\ OldMachine \notin Machines

VARIABLES
  night,      \* the night, and the runner it has
  step,       \* the step the run is at
  queue,      \* the machines the running fleet has left
  ok, failed, \* the counters of the running fleet
  awsRetry,   \* the aws lines of the worklist of the retry pass
  rows,       \* data/dead.csv of each night's runner: one batch a machine
  log,        \* data/failed-machines.txt: the machines of each cloud's lines
  attempts,   \* history: how often each machine was provisioned each night
  outcome,    \* of the job
  summary,    \* what the report says
  today,      \* the date of the last publication
  data,       \* the other files of the runner's data/
  site,       \* data/ on gh-pages
  pushed      \* history: the push of this night took effect

fleet == <<queue, ok, failed>>
publication == <<today, data, site, pushed>>
vars == <<night, step, fleet, awsRetry, rows, log, attempts, outcome, summary,
          publication>>

\* The rows of one machine, told apart by the night that measured them.
Batch(k, m) == [night |-> k, machine |-> m]
OldRows == <<Batch(0, OldMachine)>>

FleetSteps == {"gcp", "aws", "retryGcp", "retryAws"}
Cloud(s) == IF s \in {"gcp", "retryGcp"} THEN "gcp" ELSE "aws"
NoLines == [c \in Clouds |-> <<>>]
NoReport == [kind |-> "none", missing |-> NoLines]
NoFiles == [dated |-> [d \in Dates |-> <<>>], merged |-> <<>>]

\* read_daily: the rows of the files named by a date, in the order of dates.
ReadDaily(dated) == FlattenSeq(dated)

\* gh-pages has no data yet, or those of an earlier night.
Sites ==
  {[dated |-> dated, merged |-> ReadDaily(dated), dead |-> dated[1]] :
     dated \in {NoFiles.dated, [NoFiles.dated EXCEPT ![1] = OldRows]}}

Init ==
  /\ night = 1
  /\ step = "setup"
  /\ queue = <<>>
  /\ ok = 0 /\ failed = 0
  /\ awsRetry = <<>>
  /\ rows = [k \in Nights |-> <<>>]
  /\ log = NoLines
  /\ attempts = [k \in Nights |-> [m \in Known |-> 0]]
  /\ outcome = "running"
  /\ summary = NoReport
  /\ today = 1
  /\ data = NoFiles
  /\ site \in Sites
  /\ pushed = FALSE

-----------------------------------------------------------------------------
\* A step that fails, or a cancelled run, skips to the step marked always().
Stop(result) ==
  /\ outcome' = result
  /\ step' = "report"

\* Mutant: data/ is not seeded with the files of the site.
MutSetup ==
  /\ step = "setup"
  /\ \/ /\ step' = "truncate"
        /\ rows' = [rows EXCEPT ![night] = OldRows]
        /\ UNCHANGED <<outcome, data>>
     \/ Stop("failure") /\ UNCHANGED <<rows, data>>
  /\ UNCHANGED <<night, fleet, awsRetry, log, attempts, summary, today, site,
                 pushed>>

\* Both checkouts, binaries, credentials and the seed step.  The master
\* checkout has a dead.csv of its own, and so has the site once it published
\* one; neither has a log.
Setup ==
  /\ step = "setup"
  /\ \/ /\ step' = "truncate"
        /\ rows' = [rows EXCEPT ![night] =
                      IF site.dead = <<>> THEN OldRows ELSE site.dead]
        /\ data' = [dated |-> site.dated, merged |-> site.merged]
        /\ UNCHANGED outcome
     \/ Stop("failure") /\ UNCHANGED <<rows, data>>
  /\ UNCHANGED <<night, fleet, awsRetry, log, attempts, summary, today, site,
                 pushed>>

\* A fleet script given the machines ms, as its arguments.
StartFleet(s, ms, default) ==
  /\ step' = s
  /\ queue' = IF ms = <<>> THEN default ELSE ms
  /\ ok' = 0
  /\ failed' = 0

\* Mutant: dead.csv is not truncated.
MutStartNight ==
  /\ step = "truncate"
  /\ log' = NoLines
  /\ StartFleet("gcp", GcpMachines, GcpDefault)
  /\ UNCHANGED <<night, rows, awsRetry, attempts, outcome, summary,
                 publication>>

StartNight ==
  /\ step = "truncate"
  /\ rows' = [rows EXCEPT ![night] = <<>>]
  /\ log' = NoLines
  /\ StartFleet("gcp", GcpMachines, GcpDefault)
  /\ UNCHANGED <<night, awsRetry, attempts, outcome, summary, publication>>

\* One turn of the loop of a fleet script: a worker succeeds, and its rows are
\* in dead.csv, or it fails and is logged; either way the fleet moves on.
RunMachine ==
  /\ step \in FleetSteps /\ queue # <<>>
  /\ LET m == Head(queue)
     IN  /\ attempts' = [attempts EXCEPT ![night][m] = @ + 1]
         /\ \/ /\ rows' = [rows EXCEPT ![night] = Append(@, Batch(night, m))]
               /\ ok' = ok + 1
               /\ UNCHANGED <<log, failed>>
            \/ /\ log' = [log EXCEPT ![Cloud(step)] = Append(@, m)]
               /\ failed' = failed + 1
               /\ UNCHANGED <<rows, ok>>
  /\ queue' = Tail(queue)
  /\ UNCHANGED <<night, step, awsRetry, outcome, summary, publication>>

\* Mutant: any failure makes the status of the fleet.
MutFleetStatus == IF failed = 0 THEN 0 ELSE 1

\* (( ok > 0 || failed == 0 ))
FleetStatus == IF ok > 0 \/ failed = 0 THEN 0 ELSE 1

FleetDone(s) == step = s /\ queue = <<>>

\* Mutant: the first fleet without "|| true".
MutGcpFleetEnds ==
  /\ FleetDone("gcp")
  /\ IF FleetStatus = 0
       THEN StartFleet("aws", AwsMachines, AwsDefault) /\ UNCHANGED outcome
       ELSE Stop("failure") /\ UNCHANGED fleet
  /\ UNCHANGED <<night, awsRetry, rows, log, attempts, summary, publication>>

\* "|| true": whatever the status of the first fleet, the second runs.
GcpFleetEnds ==
  /\ FleetDone("gcp")
  /\ StartFleet("aws", AwsMachines, AwsDefault)
  /\ UNCHANGED <<night, awsRetry, rows, log, attempts, outcome, summary,
                 publication>>

AwsFleetEnds ==
  /\ FleetDone("aws")
  /\ step' = "retry"
  /\ UNCHANGED <<night, fleet, awsRetry, rows, log, attempts, outcome, summary,
                 publication>>

\* Mutant: every line goes to both fleets.
MutLines(c) == log["gcp"] \o log["aws"]

\* The machines of the lines of a cloud.
Lines(c) == log[c]

\* retry-failed.sh 21-30: nothing failed, or everything did.
NoRetry ==
  /\ step = "retry"
  /\ log = NoLines \/ rows[night] = <<>>
  /\ step' = "net"
  /\ UNCHANGED <<night, fleet, awsRetry, rows, log, attempts, outcome, summary,
                 publication>>

\* Mutant: the fleet is called even when it has no line.
MutCallAwsRetry(ms) == StartFleet("retryAws", ms, AwsDefault)

\* A fleet is given the lines of its cloud, and not called when there is none:
\* without arguments it would run its default machines.
CallAwsRetry(ms) ==
  IF ms # <<>> THEN StartFleet("retryAws", ms, AwsDefault)
               ELSE step' = "net" /\ UNCHANGED fleet

\* Mutant: "${gcp[*]}": the machines are one argument.
MutCallRetry(gcp, aws) ==
  IF gcp # <<>> THEN StartFleet("retryGcp", <<gcp>>, GcpDefault)
                ELSE CallAwsRetry(aws)

CallRetry(gcp, aws) ==
  IF gcp # <<>> THEN StartFleet("retryGcp", gcp, GcpDefault)
                ELSE CallAwsRetry(aws)

\* Mutant: the log is copied, not moved.
MutTakeWorklistCopy ==
  /\ step = "retry"
  /\ log # NoLines /\ rows[night] # <<>>
  /\ awsRetry' = Lines("aws")
  /\ CallRetry(Lines("gcp"), Lines("aws"))
  /\ UNCHANGED <<night, rows, log, attempts, outcome, summary, publication>>

\* mv "$FAILED_LOG" "$WORKLIST": the fleets refill the log.
TakeWorklist ==
  /\ step = "retry"
  /\ log # NoLines /\ rows[night] # <<>>
  /\ awsRetry' = Lines("aws")
  /\ log' = NoLines
  /\ CallRetry(Lines("gcp"), Lines("aws"))
  /\ UNCHANGED <<night, rows, attempts, outcome, summary, publication>>

RetryGcpEnds ==
  /\ FleetDone("retryGcp")
  /\ CallAwsRetry(awsRetry)
  /\ UNCHANGED <<night, awsRetry, rows, log, attempts, outcome, summary,
                 publication>>

RetryAwsEnds ==
  /\ FleetDone("retryAws")
  /\ step' = "net"
  /\ UNCHANGED <<night, fleet, awsRetry, rows, log, attempts, outcome, summary,
                 publication>>

\* The network pairs: their failures are warnings, and they add no row of a
\* machine of the fleets (module NetProbe has what they do).
NetProbes ==
  /\ step = "net"
  /\ step' = "publish"
  /\ UNCHANGED <<night, fleet, awsRetry, rows, log, attempts, outcome, summary,
                 publication>>

\* Publishing needs rows.  They become the file of this date, whatever it had,
\* and publish.py merges the files of all dates into data.csv.
MergeFiles ==
  /\ step = "publish"
  /\ \/ /\ rows[night] # <<>>
        /\ \E d \in Dates :
             /\ d >= today
             /\ today' = d
             /\ LET dated == [data.dated EXCEPT ![d] = rows[night]]
                IN  data' = [dated |-> dated, merged |-> ReadDaily(dated)]
        /\ step' = "push"
        /\ UNCHANGED outcome
     \/ Stop("failure") /\ UNCHANGED <<today, data>>
  /\ UNCHANGED <<night, fleet, awsRetry, rows, log, attempts, summary, site,
                 pushed>>

\* The files go into the checkout of gh-pages, over those of the same name,
\* and are committed and pushed.  A push may fail, or take effect and the job
\* be cancelled, or told of a failure, before it knows.
Push ==
  /\ step = "push"
  /\ \/ /\ site' = [dated  |-> [d \in Dates |->
                                  IF data.dated[d] = <<>> THEN site.dated[d]
                                                          ELSE data.dated[d]],
                    merged |-> data.merged,
                    dead   |-> rows[night]]
        /\ pushed' = TRUE
        /\ \E result \in {"success", "failure", "cancelled"} : Stop(result)
     \/ Stop("failure") /\ UNCHANGED <<site, pushed>>
  /\ UNCHANGED <<night, fleet, awsRetry, rows, log, attempts, summary, today,
                 data>>

\* if: always()
Report ==
  /\ step = "report"
  /\ summary' = [kind    |-> IF log = NoLines THEN "allReported" ELSE "missing",
                 missing |-> log]
  /\ step' = "done"
  /\ UNCHANGED <<night, fleet, awsRetry, rows, log, attempts, outcome,
                 publication>>

\* timeout-minutes: 180, or a cancelled run.
Cancel ==
  /\ step \notin {"report", "done"}
  /\ Stop("cancelled")
  /\ UNCHANGED <<night, fleet, awsRetry, rows, log, attempts, summary,
                 publication>>

\* The schedule, or a dispatched run; the concurrency group makes it wait for
\* the one before.
NextNight ==
  /\ step = "done" /\ night < LastNight
  /\ night' = night + 1
  /\ step' = "setup"
  /\ queue' = <<>> /\ ok' = 0 /\ failed' = 0
  /\ awsRetry' = <<>>
  /\ log' = NoLines
  /\ outcome' = "running"
  /\ summary' = NoReport
  /\ data' = NoFiles
  /\ pushed' = FALSE
  /\ UNCHANGED <<rows, attempts, today, site>>

Proceed ==
  \/ Setup \/ StartNight \/ RunMachine \/ GcpFleetEnds \/ AwsFleetEnds
  \/ NoRetry \/ TakeWorklist \/ RetryGcpEnds \/ RetryAwsEnds
  \/ NetProbes \/ MergeFiles \/ Push \/ Report

Finished == step = "done" /\ night = LastNight /\ UNCHANGED vars

Next == Proceed \/ Cancel \/ NextNight \/ Finished

Spec == Init /\ [][Next]_vars

-----------------------------------------------------------------------------
(* Properties.                                                             *)

Steps == FleetSteps \cup
  {"setup", "truncate", "retry", "net", "publish", "push", "report", "done"}

Batches == [night : 0 .. LastNight, machine : Known]
Missing == Elems(log["gcp"]) \cup Elems(log["aws"])
HasRows(k, m) == Batch(k, m) \in Elems(rows[k])
Reporting == {m \in Known : HasRows(night, m)}

\* Every variable keeps its type.
TypeOK ==
  /\ night \in Nights
  /\ step \in Steps
  /\ queue \in Seq(Known)
  /\ ok \in Nat /\ failed \in Nat
  /\ awsRetry \in Seq(Known)
  /\ rows \in [Nights -> Seq(Batches)]
  /\ log \in [Clouds -> Seq(Known)]
  /\ attempts \in [Nights -> [Known -> Nat]]
  /\ outcome \in {"running", "success", "failure", "cancelled"}
  /\ summary \in [kind : {"none", "allReported", "missing"},
                  missing : [Clouds -> Seq(Known)]]
  /\ today \in Dates
  /\ data \in [dated : [Dates -> Seq(Batches)], merged : Seq(Batches)]
  /\ site \in [dated : [Dates -> Seq(Batches)], merged : Seq(Batches),
               dead : Seq(Batches)]
  /\ pushed \in BOOLEAN

\* "the night is bounded at two provisions per machine no matter how badly
\* things go" (retry-failed.sh:9-10), the second one only on a night on which
\* another machine gave results at its first ("If nothing at all succeeded, the
\* fault is systemic", 10-12); and machines outside the fleets of the workflow,
\* like the defaults of a fleet script, are never provisioned.
BoundedProvisions ==
  \A k \in Nights : \A m \in Known :
    /\ attempts[k][m] <= IF m \in Machines THEN 2 ELSE 0
    /\ attempts[k][m] > 1 =>
         \E other \in Machines : attempts[k][other] = 1 /\ HasRows(k, other)

\* What the fleets and the retry leave is a partition: every machine either
\* has rows, once, or has one line in the log.  The retry must neither lose a
\* line of the worklist nor run a machine again that has rows.
EveryMachineAccounted ==
  step \in {"retry", "net", "publish", "push"} \/ outcome = "success" =>
    /\ Distinct(rows[night]) /\ \A c \in Clouds : Distinct(log[c])
    /\ Elems(log["gcp"]) \cap Elems(log["aws"]) = {}
    /\ Reporting \cup Missing = Machines
    /\ Reporting \cap Missing = {}

\* "Exits non-zero only when every machine failed" (bench-gcp-fleet.sh:7 and
\* bench-aws-fleet.sh:7), told from the counters against the data.
FleetStatusTellsResults ==
  \A f \in {<<"gcp", Elems(GcpMachines)>>, <<"aws", Elems(AwsMachines)>>} :
    FleetDone(f[1]) => (FleetStatus = 1 <=> f[2] \cap Reporting = {})

\* "capture only this run's rows" (nightly.yml:140): the file of the date on
\* which a run publishes is of this night and of no other, and the report names
\* exactly the machines it lacks.
PublishedIsTonight ==
  pushed =>
    LET batches == Elems(site.dated[today])
    IN  /\ batches = {Batch(night, m) : m \in Reporting}
        /\ Reporting \subseteq Machines
        /\ step = "done" =>
             Reporting = Machines
               \ UNION {Elems(summary.missing[c]) : c \in Clouds}

\* "Merge per-date benchmark CSVs" (publish.py:2): the table the site shows is
\* that of all its per-date files, of whatever night, those before the first
\* included, and nothing is in it twice, also when a second run on one date
\* takes the place of the first, or a push is reported as failed and was not.
SiteIsWhole ==
  /\ site.merged = ReadDaily(site.dated)
  /\ \A d, e \in Dates :
       \A i \in DOMAIN site.dated[d], j \in DOMAIN site.dated[e] :
         site.dated[d][i] = site.dated[e][j] => d = e /\ i = j

\* A fleet that fails as a whole "shouldn't stop the other cloud from running"
\* (nightly.yml:142-143): once a machine was provisioned, a job that is not
\* cancelled fails only after every machine of both clouds was.
EveryMachineTried ==
  outcome = "failure" /\ (\E m \in Machines : attempts[night][m] > 0) =>
    \A m \in Machines : attempts[night][m] > 0

\* The two attempts of a machine in a night are two uses of the worker's
\* contract.
Uses == Nights \X Machines \X {1, 2}
LastUse(a) == a[3] = attempts[a[1]][a[2]] /\ HasRows(a[1], a[2])

Contract == INSTANCE WorkerContract WITH
  Workers <- Uses,
  result  <- [a \in Uses |-> IF attempts[a[1]][a[2]] < a[3] THEN "working"
                             ELSE IF LastUse(a) THEN "ok"
                             ELSE "failed"],
  merged  <- {a \in Uses : LastUse(a)}

UsesWorkerContract == Contract!Spec

-----------------------------------------------------------------------------
(* What the report says of a night, and the code does not keep.            *)

\* "All machines reported." (nightly.yml:182).
AllReportedIsTrue ==
  summary.kind = "allReported" => Machines \subseteq Reporting
=============================================================================
