# TLA+ models of napkin-math

napkin-math measures what common operations of a computer cost (a memory
access, a system call, a round trip over loopback, a compressed byte), every
night, on a list of cloud machines, and publishes the numbers. The Rust part
takes the measurements on one machine. The scripts of `machines/` and the
workflow `nightly.yml` make the machines, run the benchmarks on them, collect
the rows into `data/dead.csv`, and get rid of the machines again.

This directory holds TLA+ models of both parts, the TLC runs that check them,
and proofs, which TLAPS checks, about all the modules that model a component:
each safety and action property of a passing run is a theorem, for every value
of the constants. Paths below are those of the repository; `memory.rs:160` is a
line of `src/benchmarks/memory.rs`.

## 1. Inventory

### The measuring program

| Part | State it keeps | Operations | Hard about it |
|---|---|---|---|
| Threaded memory sweeps (`memory.rs:116-271`) | three barriers, the flag `done`, the slice of each worker, the pass count | spawn, allocate, warm-up passes, timed passes, stop | N workers and the main thread meet at barriers; the clock must be read between passes only; every thread must end |
| Choice of cores (`memory.rs:38-114`) | the sibling sets read so far | read `/sys/devices/system/cpu`, intersect with the affinity mask, fall back | entries without a topology, masks that hide a sibling, no core at all |
| Round trips (`network.rs`, `syscall.rs`, `TcpEchoProbe` of `bin/latency.rs`) | two threads, the bytes in the sockets, who has the stream open | write all, read exactly, echo, drop, join | short reads and writes, full sockets, the order of drop and join |
| Manifest (`manifest.rs`) | the files below `benchmarks/`, the registry | walk, validate, sort, resolve ids and keys, filter, run | one bad file stops everything; a key two rows share |
| `daily` (`bin/daily.rs`), `readme` (`bin/readme.rs`) and `memory` (`bin/memory.rs`) | the selected rows, the results, the CSV file | parse, select, measure, header, append | results are kept until all are measured; the header is decided before the file is opened; unbuffered appends |
| Random walks (`memory.rs:284-351`, `MemoryRandomProbe`) | the shuffled indices, the chain through them, the place | shuffle, link, load, pass | a chain that closes too early reads from a cache and looks like a fast memory |
| Latency sampler (`bin/latency.rs`) | options, the probe, overhead and samples, the CSV file | parse, build the probe, measure, percentiles, histogram, write | divisions by what the user gave, sizes that wrap, the ends of an index, a result that is told as a success |
| Bench loop (`mod.rs`) | the count, the deadline | warm-up, timed loop | a loop around a closure, without state of its own |
| SSD (`ssd.rs`) | file offset | random and sequential reads | the last page, the end of the file |
| Kernels (`sort.rs`, `hash.rs`, `compression.rs`, `serialization.rs`) | none | one library call | nothing for a model |

`daily` loads the manifest, calls the benchmarks one after the other by
function pointer, and owns the CSV file. Inside a benchmark, threads share
barriers, an atomic flag or a socket; between benchmarks nothing is shared.

### The fleet

| Part | State it keeps | Operations | Hard about it |
|---|---|---|---|
| Workers (`_bench-worker.sh`, `bench-aws.sh`) | the VM, the lock directory, `dead.csv`, the exit status | create (with and without auto-shutoff), SSH probes, upload, tune, run, pull, merge, EXIT trap | every command may fail or be interrupted, creation may succeed and report failure, two panes merge at once, the lock may be impossible to make |
| Fleets (`bench-{gcp,aws}-fleet.sh`) | counters `ok` and `failed`, the failure log | run a machine, log a failure, exit status | a machine's failure must not stop the rest |
| Retry pass (`retry-failed.sh`) | the worklist | take the log away, run each cloud's machines again | the fleets it calls write the log it reads |
| Nightly workflow (`nightly.yml`) | the job outcome, `data/`, `gh-pages` | set-up, fleets, retry, network, publish, report | cancellation between any two steps, `always()`, data left from an earlier night |
| Network pairs (`probe-net-pair-*.sh`, `bench-net-fleet-*.sh`) | server, client, firewall rule | create, wait, install, measure inside and outside, append, trap | the trap must know a VM from the moment it exists; it deletes the rule and the VMs one after the other and ignores what fails; the names of a GCP fleet are those of the night before; nothing shuts a VM off |
| Publication (`scripts/publish.py`, the seed and publish steps of `nightly.yml`) | the files of all dates on `gh-pages`, and a copy of them on the runner | seed, add the file of the date, merge, push | two runs on one date; a push that takes effect and is told as a failure; a merge that sees only the copy |
| One-time set-up, tuning, site | none kept | straight-line scripts, a page | nothing for a model |

A worker is one command to its fleet: it merges rows and exits 0, or exits with
something else. The fleet is one command to the workflow and to the retry pass.
They share `data/dead.csv` and `data/failed-machines.txt`.

### What makes each part correct

- Sweeps: all workers sweep in step, no sweep is under way when the clock
  is read, the slices cover the buffer once, no sweep after the stop, all
  threads end.
- Cores: an id that is handed out can be used; one thread per physical core;
  the lowest sibling.
- Round trips: the time is of whole round trips; neither side waits for the
  other for ever; the echo thread ends and never writes to a closed stream.
- Daily: exactly the requested rows run, once, in section order; nothing of a
  run that failed while measuring reaches the file; appends lose nothing; the
  file starts with its one header.
- Random walks: each pass visits every entry once, whatever the shuffle.
- Latency: how the command ends tells what it did; every printed number is about
  all the samples; the CSV file of an earlier run is not lost to a bad option.
- Workers: the exit status tells whether the rows are in; rows of a worker are
  contiguous; every VM is deleted in the end.
- Night: each machine either has rows once or one line in the log; at most two
  provisions of a machine; one cloud's failure does not stop the other; what is
  published is of tonight; the table of the site is the merge of its files,
  night after night.
- Network pairs: nothing is left behind, no port is open to an address that has
  no client, the fleet ends.

## 2. Modules

| Module | Models | State in the model | Actions in the code |
|---|---|---|---|
| `ParallelSweep` | the comment at `memory.rs:32-36`, as an abstract specification | stage, the workers still in the pass, passes | begin, scan, end, report |
| `ThreadedSweep` | `seq_read_threaded`, `seq_write_threaded` | `pc` per thread, who is blocked in which barrier, `done`, slices, `warm`, `iters`, and the history `swept` | one action per statement of the worker closure and of the main thread; a `wait()` is its arrival and its return |
| `PhysicalCores` | `physical_core_ids`, `physical_core_ids_linux`, `parse_thread_siblings` | topology, online cpus, affinity mask, unread entries, siblings read | read an entry and parse its sibling list, fail at one, choose |
| `Echo` | `tcp_echo`, `context_switch`, `TcpEchoProbe` | both threads' places, the bytes in each direction and in the echo thread's hands, `open` | each `read` and `write` of `read_exact` and `write_all`, accept and its failure, the clock, drop, join, the client's `unwrap` |
| `RandomWalk` | the shuffles, the chain of `MemoryRandomProbe`, the passes of `random_read` and `random_write` | the indices, the next swap, the chain, the place, and the history `trail` | new, one swap, one link, one load or access |
| `LatencySampler` | the command `latency`, with `RandomWalk` for its memory probe | options, probe, overhead, samples, the printed lines, the CSV file, how it ended | one option, the checks, the probe, one sample, a refused allocation, the summary, the histogram, the CSV file line by line |
| `Arrange` | `sort_by` and `filter` of a `Vec`, as `manifest.rs` uses them | none: operators | none |
| `DailyRun` | `daily run`, `daily list`, `readme`, `memory`, the manifest | `files`, command, rows, how many are measured, `header`, the CSV file write by write | parse, load, one benchmark, header test, open, one write |
| `WorkerContract` | what the fleets take a worker to be (`bench-gcp-fleet.sh:5-7`) | result and merge of each worker | succeed, fail |
| `BenchWorker` | both worker scripts | command, exit status, what the trap deletes, the VMs that exist, the lock, the CSV file | one per command; any command may fail into the trap; a turn of the lock's loop |
| `Nightly` | `nightly.yml` night after night, the fleets, the retry pass, the publication | night, step, queue and counters of the running fleet, worklist, rows, log, outcome, the runner's files, the site's files, report, and the histories `attempts` and `pushed` | one per workflow step, per machine of a fleet, per half of the retry; the next night |
| `NetProbe` | both pair scripts and their fleets | command, queue, the ids the trap has, what there is of each type (two VMs, a rule) and what an earlier night left of it, status | one per command or retry of one; the trap deletion by deletion; interruption and kill |

`ThreadedSweep` implements `ParallelSweep`. `BenchWorker` implements
`WorkerContract`, and `Nightly` is checked to use its machines only as
`WorkerContract` allows, each attempt being one worker of it: that is how the
two compose. `MC*` modules give the constants their values;
the modules named `..._proofs` hold the proofs, those about `RandomWalk` in
`LatencySampler_proofs`. `LatencySampler` uses the
actions of `RandomWalk` as the memory probe it builds and runs; `MCLatency` lets
the other users of a random walk, the two memory benchmarks, run in behaviours
of their own. A definition named
`Mut...` is a plausible bug in the definition after it. No specification uses
one; each shows that a property would notice that bug.

Choices worth knowing:

- Barriers and sockets belong to the standard library and the kernel. A barrier
  counts arrivals and releases all at the last one; a thread returns later, in
  a step of its own, which is where a fast thread can overtake a slow one.
  `done` is a `Relaxed` atomic, but its store and its load are on the two sides
  of a barrier, whose mutex orders them, so one shared variable is exact.
- A socket holds a bounded number of bytes and a read or write moves any number
  of them. Their values are not modelled: the order of a stream keeps whose
  they are, so counting them is enough to tell whole round trips.
- A VM is a record: id, creator, auto-shutoff. The auto-shutoff may fire at any
  moment, also while the worker still uses the VM. Time is not modelled.
- An unbuffered line of the CSV file is `Parts` writes. The header is one, since
  its format string has no arguments.
- `memory` and `readme` are runs of the manifest that write no file;
  `daily list` prints the rows of `ListRows` and measures nothing.
- A latency sample is a small number, and the word of the machine has few bits:
  what the properties look at are the ends of the ranges, divisions and wraps.
  The mean, the deviation and the wording of a report are left out.
- Rows of a machine are one batch, told apart by the night that measured them.
  That is enough to see rows of another night, rows that are missing and rows
  that are there twice. What lasts from night to night is the site only: each
  night has a new runner.
- A sort or a filter is stated by its result: a choice of places and their order,
  not a way to find it. `LatencySampler` does the same for `sort_unstable`, where
  there may be several results. The comparison of logarithms is one of powers of
  integers (`Power`), which is exact.
- `tail` copies one worker's rows in `Chunks` writes. With a file that fits in
  its buffer it makes one, and then nothing could be cut even without the lock.

## 3. Runs

Each passing run finishes in about a minute. All check deadlock. A worker
that spins on the lock takes steps (`WaitLock`), as in the code, and so it is for
liveness, not for the deadlock check, to notice one that does so for ever.

| Run | Properties | Bounds, and why they are enough |
|---|---|---|
| `threaded_sweep` | `QuiescentClock`: no worker is in a sweep when the clock is read. `SlicesPartition`. `AllReturn`. `ImplementsParallelSweep` | 3 cores: two workers apart while a third is elsewhere. 8 words: not divisible by 3. 3 passes: each loop of the main thread may make none, one or more |
| `physical_cores` | `Usable`: no id that is not available, and none only if none is. `NoSharedCore` | 4 cpus as 2 cores adjacent, 2 interleaved, 4 without siblings; every online set, mask and order of the directory, with any of two entries that are no cpu |
| `round_trips` | `WholeRoundTrips`: no byte under way when the clock is read. `NoMutualWait`. `BothEnd` | all three benchmarks, and an echo thread that fails before its first read. `tcp_echo` has 6 bytes against sockets of 3 and 2, the most its assumption allows, so both directions fill up; the probe has 7, one more; `context_switch` has its 1. 3 rounds: a first, a middle and a last |
| `daily` | `RunsRequested`. `HeaderFirst`. `RowsOnlyOfFullRuns`. `FinishedRunComplete` | two runs, in turn or overlapping; five manifests (a shared key, a misplaced file, an unregistered one, no nightly row); ten command lines of the four programs, one of them no command at all; two writes a line, so that lines can cut each other; an absent, an empty and a filled file; every fault at every step |
| `latency` | `EachPassOnce`: no entry is visited again before all the others were. `EndTellsResult`. `ReportTellsSamples` | 17 command lines: each option missing, malformed, zero, and good. Words of 16 bits, so that `64k` wraps to 0. Up to 4 samples, whose times give linear and logarithmic histograms and samples on the bounds of buckets. Walks of 1 to 4 entries, with every shuffle: 4 is the first size at which a permutation can fall into two cycles of two. A probe, an allocation or the CSV file failing at any point, in the middle of a line too |
| `workers` | `ExitTellsMerged`. `RowsContiguous`. `VmsAccounted`. `EveryWorkerEnds`. `AllVmsGo`. `ImplementsContract` | 2 workers, 2 SSH probes (none, one, both fail), 2 writes a merge, in six settings. Two with merges that go through, of two GCP panes and of one worker of each cloud: commands fail, creation answers are lost, VMs are not deleted. Of one worker of each cloud: merges cut off or interrupted, and `rmdir` and `rm` failing; killed workers; and creations interrupted before their answer is assigned. Of two panes: a lock that cannot be made, and workers killed in it. Panes that merge while others are killed are left to the theorem `RowsStayTogether` |
| `night` | `EveryMachineAccounted`. `EveryMachineTried`. `FleetStatusTellsResults`. `BoundedProvisions`. `PublishedIsTonight`. `SiteIsWhole`. `UsesWorkerContract` | 3 and 2 machines: a fleet fails wholly, in part, or not; the worklist has lines of no, one or both clouds. The default machines of a fleet are none of these. Failure and cancellation at every step. Two nights, on one date or on two, with and without a site before them; the second follows only a night on which every machine gave results at once and which was published (`SimplePast`), since the site as it was is all that another night leaves. The proofs need neither bound |
| `net_pairs` | `NothingLeftBehind`. `PortOpenOnlyForPair`. `FleetEnds` | both clouds, a lone probe and a fleet of two types, so that a fleet goes on and stops; 36 or 48 SSH tries and 5 apt tries, as in the scripts; every command failing and the script interrupted at any point before its trap, together with any of: AWS answers lost, deletions failing, the script killed, in its trap too; on GCP anything an earlier night may have left of each type |

Each run checks the `TypeOK` of its module as well.

Some properties of `BenchWorker` and `NetProbe` start from what can go wrong in
the setting, with `Free(...)`, and say what is excepted:

- A worker stopped in the middle of its merge has an exit status that does not
  tell whether its rows are in, and leaves the lock. A worker whose `rmdir` or
  `rm` fails after it has merged them exits with a failure all the same.
  `ExitTellsMerged`, `EveryWorkerEnds` and the refinement except both
  (`MergesWhole`); `orphan_lock` shows what a cut merge does. `EveryWorkerEnds`
  also excepts a lock that cannot be made, for which the worker spins.
- `VmsAccounted` excepts killed workers and failed deletions, and lost answers
  on AWS only: on GCP the trap has the name. `AllVmsGo` says that the
  auto-shutoff ends these VMs, that of a spinning worker included; it excepts
  clouds that refuse the auto-shutoff, and lost answers, since a creation
  whose answer is lost is made again without it.
- The VMs of network pairs have no auto-shutoff, and their traps throw errors
  away. What the code does guarantee is stated in `NothingLeftBehind` by
  what has to work: with deletions that work, VMs of one type at most are left,
  however the script ends; with traps that run to their end too, and no lost
  answer on AWS, none at all of a type whose probe is over, those of an earlier
  night under the same names included.
- `PortOpenOnlyForPair` needs deletions that work, and nothing else: since the
  trap closes the port before it deletes the pair, a script that is killed
  between the two does not leave a port open to an address the client has lost.

### Disagreements between the code and what is said of it

Four runs expect a violation. Each checks one property that a comment or a
message states.

| Run | Property | What happens |
|---|---|---|
| `one_per_core` | `OnePerPhysicalCore` | `.ok()?` at `memory.rs:72` gives up at the first entry without a topology, and `/sys/devices/system/cpu` of a Linux host has such entries (`online`, `possible`, `cpufreq`). Every logical cpu is then used, against "one pinned thread per physical core" (`memory.rs:33`) |
| `orphan_lock` | `FleetMovesOn` | `tail` fails between `mkdir` and `rmdir` of the lock: the trap does not remove it, and the next worker spins at `_bench-worker.sh:121`, against "the fleet moves on" (`bench-gcp-fleet.sh:5`) |
| `all_reported` | `AllReportedIsTrue` | a job that fails before its fleets, or is cancelled with no log in place, reports "All machines reported." (`nightly.yml:182`) |
| `net_fleet` | `FleetDeliversRows` | both pair scripts source `scripts/net-probe-csv.sh`, which is not in the repository, so a fleet ends before its first row (`probe-net-pair-gcp.sh:123`) |

As long as `net_fleet` stands, `AppendRows` of `NetProbe` always fails in a
fleet, and the repository has no code from which its success could be modelled.

Two smaller ones were met and have no run. With no core id at all,
`memory.rs:119` makes barriers for one worker and none is spawned, so the main
thread waits for ever; it takes a platform on which `get_core_ids()` gives
nothing (`AllReturn` does not hold for `NumCores = 0`). And after a night without
rows the retry is skipped, while the report says "failed twice" of machines
tried once (`nightly.yml:188`).

### Fairness

- `ThreadedSweep`, `Echo`: weak fairness of each thread. The operating system
  runs a thread that can run; the worker of a barrier that is released can
  return. The clock loops end because of the bounds `MaxPasses` and
  `MaxRounds`, for the time limit in the code.
- `BenchWorker`: weak fairness of each script, whose commands all return, and of
  the auto-shutoff: an armed `shutdown` happens. The turns of a worker that spins on
  the lock are no progress and have no fairness: it is owed the lock only while
  the lock is free.
- `NetProbe`: weak fairness of the next command, each of which returns.
- `DailyRun`, `PhysicalCores` and `Nightly` have only safety properties, and no
  fairness. A night ends if its workers do (`EveryWorkerEnds`, and
  `orphan_lock` for the exception), or by its `timeout-minutes`.

## 4. Proofs

`tlapm` checks all eight modules to the last leaf.

**`ThreadedSweep_proofs`**, from `NumCores`, `BufferWords`, `MaxPasses` in `Nat`.
These are safety properties, and hold for `NumCores = 0` too.

- `TypeCorrect`: `TypeOK` is inductive.
- `Staged`: none of the other properties is inductive. A state in which one
  worker is at the start barrier and another in the end barrier of the same
  pass satisfies them and leads to a violation. `InOneStage` excludes it: it
  says the threads are together in one of four stages (allocating, between two
  passes, sweeping, stopping), and for each stage which labels are possible,
  who is in which barrier, and how the counts of sweeps relate to the passes.
  The main lemma is `LastArrival`: with `NumCores` workers and the main thread,
  a barrier empties exactly when all the others are in it, which is a fact about
  cardinalities. Three lemmas treat the arrivals at the three barriers, one the
  other steps of a worker, one those of the main thread.
- From it `ClockIsQuiescent`, `PassesInLockstep` (no worker is a full pass
  ahead of another), `NoSweepAfterStopHolds`, and `Refinement`: each step is one step of `ParallelSweep` or a stutter.
- `SlicesCoverBuffer`: the slices are disjoint and cover the buffer, whether or
  not the number of cores divides the number of words; `SlicesPartitionBuffer`
  is the same of the slices the workers really have. The proof needs a little
  integer arithmetic (`TimesMonotone`, `DivBounds`) and finds the word's slice
  by division.

**`Echo_proofs`**, from `EchoAssumption`.

- `EveryByteAccounted`: `TypeOK /\ InFlight` is inductive. `WholeRoundTrips`
  alone is not: that no byte is left when a reply is complete follows only from
  the balance of bytes written, on the way, in hand, and read.
- `ClockSeesWholeTrips`, `EchoOnlyWhileOpenHolds` follow from it.
- `NoMutualWaitHolds`: if both waited, the two sockets would be full, the echo
  thread would hold a byte, and the client have one to write: at least
  `RequestCap + ReplyCap + 2` bytes, more than the assumption allows. For
  `read_exact` the echo thread writes only when the client has written it all,
  so that the assumption is about `tcp_echo` alone, whose thread sends what has
  come so far. With the 32 KiB of `network.rs`, the sockets of every supported system
  hold more than the payload.

**`PhysicalCores_proofs`**, from `CpusAssumption`: any numbering of the cpus, any
partition into cores, any cpus offline or masked, any order of the directory.

- `IInv` is inductive: each sibling set is what is online of a core (`Siblings`),
  and until an entry fails, no core one of whose cpus was read is missing
  (`CoresRead`). The properties speak of the result only, and say nothing of a
  directory that is half read.
- `TypeCorrect`, `ChoiceIsUsable`, `CoresNotShared`. The lemma `RangesParsed`
  says that what `parse_thread_siblings` makes of the ids and ranges the kernel
  writes is the set the kernel meant.
- `OnePerCoreOnceRead` is the other side of the finding `one_per_core`: where the
  directory could be read and every cpu may be used, the comment at
  `memory.rs:33` is right. The property fails on no other account than an entry
  without a topology.

**`LatencySampler_proofs`**, from `SamplerAssumption` and `OptionsAssumption` (what
is given are arguments, and the defaults are options): every command line, any
times, any number of samples, buckets and entries.

- The walk, with sizes that are positive: `WalkTypeCorrect`,
  `EachPassTouchesAll`. `EachPassOnce` speaks of the entries
  visited and nothing else, so it says nothing of the next step. What is
  inductive: the shuffle keeps the indices a permutation (`Permuted`), the links
  made so far join neighbours of it (`Linked`), and the trail follows the
  permutation from where it started (`Followed`). That the chain is one cycle
  for every size and every shuffle comes out of these without any induction on
  the size: the place in the permutation does the counting.
- `ChainIsOneCycle` is `EachPassOnce` of the walk that the command really drives:
  each of its steps is a step of `RandomWalk` or leaves the walk alone
  (`WalkSteps`).
- `EndAlwaysTells` is `EndTellsResult`, strengthened to `EInv`: the property alone
  does not say why nothing is divided by zero (options and default batches that
  are not), why there is a sample for the histogram (samples are not zero and
  all taken by then), and which prefix of the table the file has in between. A
  write that fails may leave a part of a line, and then the command ends.
- `SamplerTyped` and `ReportTellsAll`, by `SInv`, which adds the types and that
  nothing is reported before all samples are there. Four lemmas carry it. The
  place that `percentile` computes has the rank it claims (`PercentileRanked`):
  how many samples are below the k-th of a sorted sequence is at most k - 1, and
  how many are up to it at least k, by counting the places. `BucketsTell`: if
  each sample is dealt to a bucket that holds it, the lines that are left when
  the empty buckets are dropped account for every sample once. `LinearBuckets`: the
  buckets of the linear scale hold what is dealt to them, the last one
  included, because the width is rounded up. `LogBucketsHold`: so do those of the
  logarithmic scale, whose rounded bounds are on the right side of every
  sample that is between the exact ones (`BoundSides`), since powers are monotone.
- `Power` is a recursive function, and that it has the values its recursion says
  is proved, not assumed (`PowerDefined`, `PowerRec`). There is no induction rule
  to use for it; `AllNaturals` says the same of a set, by its least element.

**`Nightly_proofs`**, from `FleetAssumption`: any two disjoint fleets, any number
of nights, any dates, and the full `Spec` (the run looks at second nights after
a good one only).

- `Invariance`: `IInv` is inductive, a conjunction of six parts. `Shared`: each
  machine of the fleets that were started is in exactly one of three places, the
  rows, the log, or what the passes still have to run, the worklist of the
  second cloud included. `Counted`: how often a machine was provisioned follows
  from where it is. `Dated`: no two files of the site have rows of one night, and
  none of this night before the push. `Seeded`: the runner's files are the
  site's but for the one of this date. `Pushed`: what was pushed and reported is
  what the night has. And `BoundedProvisions`. Its one lemma per action follows
  the workflow.
- From it `ProvisionsBounded`, `MachinesAccounted`, `SiteStaysWhole`,
  `NightPublished`. The bound on provisions needs `Shared`: the machine that
  justifies the retry has rows, so no later turn can be its own.
- `AllTried` and `StatusTellsResults` need two facts more (`Tried`, `Tallied`),
  inductive on top of `IInv`.
- `NightsUseContract`: each turn of a machine is one step of `WorkerContract`, of
  the worker that is its next attempt, and every other step of the workflow,
  the truncation of the data included, is none.
- `TypeCorrect`. The proofs above use `Types`, which is `TypeOK` without the report
  and the merged rows, and treat the merge as an operator they know nothing
  of. `Files` is the rest. Its lemma `FlattenTyped` opens the recursive function
  in `FlattenSeq`: it has a solution (`FlattenDefined`), and there is no least
  place at which that is not a sequence of batches.

**`BenchWorker_proofs`**, from `WorkersAssumption`: any workers with VM names of
their own, any cloud for each, any faults.

- `Invariance`: `IInv` is inductive. `Locked`: whoever is between `mkdir` and
  `rmdir` is the only one, and the directory is there; it may be there with
  nobody, for a worker that died. `Behind`: while a GCP worker is at its merge,
  no row of another one of GCP comes after its own. `RowsContiguous` alone does
  not know who may append next. `OneVmEach`: a worker has no VM before it makes
  one, so that a second VM cannot take the place of the first in its trap.
  `Tallied`: how many rows a worker has written, and its exit status, follow
  from where it is.
- From it `WorkersTyped`, `RowsStayTogether`, `StatusTellsMerge`,
  `VmsHaveOwners`, and `WorkersKeepContract`: status and count of a worker
  together are a state of `WorkerContract`, and the last write of a merge is its
  `Succeed`, the first failing command its `Fail`. `NightsUseContract` is the
  other side of it, so what the fleets assume of a worker is what one does.

**`DailyRun_proofs`**, from `RunsAssumption` (any number of runs),
`ManifestAssumption` (a manifest is finite, the ids are in order, a registered
section is in `SECTION_ORDER`) and `CommandsAssumption` (what `parse_command`
gives).

- `SelectionIsRight`, that is `RunsRequested`. `Enumeration` says that a finite
  set with a strict total order has exactly one listing by it, which is found by
  counting, for each member, those before it. So a filter keeps the order
  (`FilteredRows`), and a sort has every row once and in order: ties in the order
  of `load_rows` are broken by place, as a stable sort breaks them
  (`LoadedRows`). `SelectedRows` compares each way to select rows with what was
  asked for.
- `HeaderIsFirst`. The header test and the writes of several runs interleave, so
  the property says nothing of what a run that is between the two will write.
  `Headed` does: while the file is empty, whoever opens it has `header` set.
  `Alone` is the case of runs that follow each other, where the one that is to
  write the header has the file to itself.
- `OnlyFullRunsWrite`, from `Measured`.
- `NothingLost` is `FinishedRunComplete`: `Sized` relates what a run has selected,
  measured and written, and `Delivered` says that each write it made is in the
  file, wherever the other runs wrote theirs.
- `TypeCorrect`.

**`NetProbe_proofs`**, from `ProbeAssumption`: `ProbeTyped`, `NothingStays`,
`PortOnlyForPair`, for any list of different machine types, any limits of the loops,
any faults, and anything an earlier night left. `IInv` adds to the types, for
each command, which VMs there are and which ids the trap has (`Placed`); that,
while deletions work, only the type being probed has something of this run
(`Serial`); and what a trap that runs to its end has deleted so far, and what it
still knows of (`Swept`). The properties speak of the time between two probes, and of all types
at once, so they do not say what a trap that is half done still has to delete.

Only model-checked:

- Liveness: `AllReturn`, `BothEnd`, `EveryWorkerEnds`, `AllVmsGo`, `FleetEnds`.
  They need the fairness of the specification and what is `ENABLED`, which
  TLAPS does not reach.
- Deadlock freedom, where a run checks it.
- The four properties that the code violates; their counterexamples are TLC's.

What the proofs assume of a constant is what its module states with `ASSUME`, and
TLC evaluates these for the constants of each run. They take the library's theorems about
finite sets, cardinalities and well-founded orders as given.

## 5. Limits

- What is measured, formatted, logged, and the meaning of numbers are left out.
- Two workers are taken to have different VM names. `NAME` drops everything
  from `-standard` on, so two sizes of one family would share one, and the file
  in `/tmp`, and the trap of the second would delete the VM of the first. Nothing
  in the repository starts two at once.
- `bench-aws.sh:146` appends without the lock, so `RowsContiguous` speaks of GCP
  panes.
- On AWS, a creation whose answer is lost leaves an instance whose id no trap
  has. A worker's is ended by the auto-shutoff, if it was accepted; one of a network
  pair by nothing in the repository. The same holds of whatever a failed
  deletion or a killed script leaves of a pair.
- A creation is done or not done by the time the trap deletes: one that takes
  effect later is not modelled. Deleting two GCP instances of which one does not
  exist is taken to delete the other.
- A network fleet with one machine type in it twice, which would reuse the names,
  is outside `ProbeAssumption`.
- The kernel writes sibling lists that are well formed. `IdsOf` says what the code
  makes of other ones, and no run has any.
- Lines of overlapping `daily` runs may be cut into each other, and a killed run
  leaves an unterminated line. No one claims otherwise; the runs of the
  repository do not overlap on one file.
- A usable core whose lowest sibling is outside the mask is not used
  (`memory.rs:49`). No property says it must be.
- The set of online cpus does not change while it is read: a hotplug during
  start-up is outside what the benchmark is run with.
- Nothing truncates the file of `daily` while it runs; a header lost that way is
  not modelled.
- The seed step hides its errors with `|| true`; the model copies all the files
  of the site or fails, and never half of them.
- For a sample that is a bound of the logarithmic histogram, floating point
  decides on which side it is: `ReportTellsSamples` lets it be on either.
- `bench` of `mod.rs`, the SSD benchmarks and the kernels are not modelled: a
  loop around a closure, constants of two files, and calls into libraries. They
  keep no state that two steps could disagree about. The comment at `ssd.rs:93`
  says that the offsets of `random_read` stop one page before the end, and they
  stop two before it; no read meets the end either way.
- The job that builds the binaries, the one-time set-up, the VM tuning and the
  site are not modelled; `PROJECT.json` lists every part with its reason.

## 6. Plan

Done: the models of all parts that keep state, a run for each, and a theorem for
each safety and action property of a run. What is left, in order of
importance:

1. What the percentiles and the histogram say of one another: both are proved to
   be about the samples, by themselves.
2. The steps of the liveness arguments that are safety, as theorems: what a worker
   has left to do shrinks with each step, so that fairness is all that is missing.
3. Two workers of one VM name, with the file in `/tmp` they would share, if ever
   a fleet runs its machines at the same time.
