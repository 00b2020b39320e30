--------------------------- MODULE LatencySampler ---------------------------
(***************************************************************************)
(* The command latency (src/bin/latency.rs): it parses its options, makes  *)
(* the probe, times an empty loop and then the probe batch by batch,       *)
(* subtracts the first from the second, prints percentiles and a histogram *)
(* of what is left, and writes both columns to a CSV file.                 *)
(*                                                                         *)
(* The chain of memory_random is module RandomWalk.  What tcp_echo does in *)
(* one exchange is module Echo; here it works or fails.                    *)
(***************************************************************************)
EXTENDS Integers, Sequences, FiniteSets, SequencesExt

CONSTANTS
  CommandLines,  \* what the command may be given
  Defaults,      \* Config::default()
  DefaultBatch,  \* default_batch() of each probe
  DefaultSize,   \* what a probe takes for its --size when none is given
  WordModulus,   \* 2^w for a usize of w bits
  UsizeBytes,    \* size_of::<usize>()
  OverheadCap,   \* the samples of the empty loop are at most so many
  Elapsed,       \* what the clock may say a batch took
  Sizes,         \* the entries memory_random may come to have
  CanFail        \* the probe, the file or an allocation may fail

None == -1        \* an option that is not set; a word that is no number

\* An argument is a flag, with its value after a "=" or in the next argument,
\* or a word that is no flag.
Word == [text : STRING, number : Nat \cup {None}, unit : {"", "k", "m", "g"}]
Argument == [flag : STRING, inline : BOOLEAN, word : Word]

Config == [probe : STRING, samples : Nat, warmup : Nat,
           batch : Nat \cup {None}, buckets : Nat, csv : BOOLEAN,
           size : Nat \cup {None}]

ASSUME OptionsAssumption ==
  /\ CommandLines \subseteq Seq(Argument)
  /\ Defaults \in Config

ASSUME SamplerAssumption ==
  /\ WordModulus \in Nat \ {0} /\ UsizeBytes \in Nat \ {0}
  /\ OverheadCap \in Nat \ {0}
  /\ DefaultBatch \in [{"getpid", "stat", "memory", "tcp"} -> Nat \ {0}]
  /\ Elapsed \subseteq Nat
  /\ Sizes \subseteq Nat \ {0}
  /\ CanFail \in BOOLEAN

VARIABLES
  args,      \* the arguments not parsed yet
  config,    \* the options
  pc,        \* where the command is, and how it ended
  probe,     \* the probe it runs
  batch,     \* operations a sample
  overhead,  \* the median time of the empty loop
  warm,      \* warm-up batches to go
  ops,       \* operations run in the current batch
  raw,       \* the samples
  summary,   \* the percentiles printed
  histogram, \* the lines of the histogram printed
  csv,       \* the CSV file
  stage, n, pages, left, linked, next, index, trail   \* of RandomWalk

Walk == INSTANCE RandomWalk

sampler == <<args, config, pc, probe, batch, overhead, warm, ops, raw,
             summary, histogram, csv>>
walk == <<stage, n, pages, left, linked, next, index, trail>>
vars == <<sampler, walk>>

Line(kind, r, a) == [kind |-> kind, raw |-> r, adj |-> a]
OldCsv == <<Line("old", 0, 0)>>
CutLine == Line("cut", 0, 0)

Init ==
  /\ args \in CommandLines
  /\ config = Defaults
  /\ pc = "parse"
  /\ probe = ""
  /\ batch = 0 /\ overhead = 0 /\ warm = 0 /\ ops = 0
  /\ raw = <<>> /\ summary = <<>> /\ histogram = <<>>
  /\ csv = OldCsv
  /\ Walk!Init

Goto(label) == pc' = label

-----------------------------------------------------------------------------
(* The options.                                                            *)

Field == [probe |-> "probe", samples |-> "samples",
          warmup_samples |-> "warmup", batch |-> "batch",
          buckets |-> "buckets", csv |-> "csv", size |-> "size"]

\* An argument taken for the value of the one before it.
WordOf(arg) ==
  IF arg.flag = "" THEN arg.word
  ELSE [text |-> arg.flag, number |-> None, unit |-> ""]

\* k, kb and kib are one unit.
Multiplier(unit) ==
  CASE unit = "k" -> 1024
    [] unit = "m" -> 1024 * 1024
    [] unit = "g" -> 1024 * 1024 * 1024
    [] OTHER -> 1

\* overflow-checks = false: the product wraps.
ParseSize(w) == (w.number * Multiplier(w.unit)) % WordModulus

IsUsize(w) == w.number # None /\ w.number < WordModulus

Accepted(flag, w) ==
  CASE flag \in {"probe", "csv"} -> TRUE
    [] flag = "size" -> IsUsize(w)
    [] OTHER -> IsUsize(w) /\ w.unit = ""

Value(flag, w) ==
  CASE flag = "probe" -> w.text
    [] flag = "csv" -> TRUE      \* paths are not told apart
    [] flag = "size" -> ParseSize(w)
    [] OTHER -> w.number

\* One turn of the loop of parse_args.  A flag without "=" takes the next
\* argument, whatever it looks like; --help and --list end the command well.
ParseArg ==
  /\ pc = "parse" /\ args # <<>>
  /\ LET arg  == Head(args)
         rest == IF arg.inline THEN Tail(args) ELSE Tail(Tail(args))
         w    == IF arg.inline THEN arg.word ELSE WordOf(args[2])
     IN  IF arg.flag \in {"help", "list"} /\ ~arg.inline
           THEN Goto("help") /\ UNCHANGED <<args, config>>
         ELSE IF \/ arg.flag \notin DOMAIN Field
                 \/ ~arg.inline /\ Len(args) = 1
           THEN Goto("error") /\ UNCHANGED <<args, config>>
         ELSE IF ~Accepted(arg.flag, w)
           THEN Goto("error") /\ UNCHANGED <<args, config>>
         ELSE /\ config' = [config EXCEPT ![Field[arg.flag]] =
                                            Value(arg.flag, w)]
              /\ args' = rest
              /\ UNCHANGED pc
  /\ UNCHANGED <<probe, batch, overhead, warm, ops, raw, summary, histogram,
                 csv, walk>>

\* Mutant: a batch of zero is let through.
MutOptionsHold == config.samples # 0 /\ config.buckets # 0

OptionsHold ==
  config.samples # 0 /\ config.buckets # 0 /\ config.batch # 0

CheckOptions ==
  /\ pc = "parse" /\ args = <<>>
  /\ Goto(IF OptionsHold THEN "make" ELSE "error")
  /\ UNCHANGED <<args, config, probe, batch, overhead, warm, ops, raw,
                 summary, histogram, csv, walk>>

-----------------------------------------------------------------------------
(* The probe.                                                              *)

ProbeNamed ==
  [syscall_getpid |-> "getpid", getpid |-> "getpid",
   stat_tmp |-> "stat", stat |-> "stat",
   memory_random |-> "memory", random_memory |-> "memory",
   tcp_echo |-> "tcp"]

SizeFor(p) == IF config.size = None THEN DefaultSize[p] ELSE config.size

\* MemoryRandomProbe::new and TcpEchoProbe::new refuse a size too small; the
\* second may also fail to bind, to connect or to set its option.
MakeProbe ==
  /\ pc = "make"
  /\ IF config.probe \notin DOMAIN ProbeNamed
       THEN Goto("error") /\ UNCHANGED <<probe, batch, walk>>
     ELSE LET p == ProbeNamed[config.probe]
              entries == SizeFor(p) \div UsizeBytes
          IN  \/ /\ \/ p \in {"getpid", "stat"}
                    \/ p = "tcp" /\ SizeFor(p) > 0
                 /\ Goto("overhead")
                 /\ probe' = p
                 /\ batch' = IF config.batch = None THEN DefaultBatch[p]
                                                    ELSE config.batch
                 /\ UNCHANGED walk
              \/ /\ p = "memory" /\ entries >= 2
                 /\ Goto("build")
                 /\ probe' = p
                 /\ batch' = IF config.batch = None THEN DefaultBatch[p]
                                                    ELSE config.batch
                 /\ Walk!New(entries)
              \/ /\ \/ p = "tcp" /\ (CanFail \/ SizeFor(p) = 0)
                    \/ p = "memory" /\ entries < 2
                 /\ Goto("error")
                 /\ UNCHANGED <<probe, batch, walk>>
  /\ UNCHANGED <<args, config, overhead, warm, ops, raw, summary, histogram,
                 csv>>

\* The rest of MemoryRandomProbe::new.
BuildChain ==
  /\ pc = "build"
  /\ Walk!Build
  /\ Goto(IF stage' = "chase" THEN "overhead" ELSE "build")
  /\ UNCHANGED <<args, config, probe, batch, overhead, warm, ops, raw,
                 summary, histogram, csv>>

-----------------------------------------------------------------------------
(* The samples.                                                            *)

\* What sort_unstable may make of s.
Sortings(s) ==
  {[k \in DOMAIN p |-> s[p[k]]] :
     p \in {p \in SetToSeqs(DOMAIN s) :
              \A i, j \in DOMAIN p : i < j => s[p[i]] <= s[p[j]]}}

\* The sample at ((len - 1) * p).round(), p in thousandths.
Percentile(sorted, p) ==
  IF sorted = <<>> THEN 0
  ELSE sorted[((2 * (Len(sorted) - 1) * p + 1000) \div 2000) + 1]

PerOp(elapsed) == elapsed \div batch

\* measure_samples with NoopProbe.  A batch of zero divides by zero.
MeasureOverhead ==
  /\ pc = "overhead"
  /\ LET samples == IF config.samples < OverheadCap THEN config.samples
                                                    ELSE OverheadCap
     IN  IF samples > 0 /\ batch = 0
           THEN Goto("dividePanic") /\ UNCHANGED <<overhead, warm>>
         ELSE /\ \E t \in [1 .. samples -> Elapsed] :
                   \E sorted \in Sortings([k \in 1 .. samples |-> PerOp(t[k])]) :
                     overhead' = Percentile(sorted, 500)
              /\ warm' = config.warmup
              /\ Goto("sample")
  /\ UNCHANGED <<args, config, probe, batch, ops, raw, summary, histogram,
                 csv, walk>>

\* One operation.  The last of a batch of the warm-up just ends it, that of a
\* later batch is followed by reading the clock.
RunOnce ==
  /\ pc = "sample" /\ Len(raw) < config.samples
  /\ IF probe = "memory" THEN Walk!Chase ELSE UNCHANGED walk
  /\ IF ops + 1 < batch
       THEN ops' = ops + 1 /\ UNCHANGED <<warm, raw>>
     ELSE IF warm > 0
       THEN ops' = 0 /\ warm' = warm - 1 /\ UNCHANGED raw
     ELSE /\ \E t \in Elapsed : raw' = Append(raw, PerOp(t))
          /\ ops' = 0
          /\ UNCHANGED warm
  /\ UNCHANGED <<args, config, pc, probe, batch, overhead, summary, histogram,
                 csv>>

\* expect() of stat and of the two halves of an exchange.
ProbeFails ==
  /\ pc = "sample" /\ Len(raw) < config.samples
  /\ CanFail /\ probe \in {"stat", "tcp"}
  /\ Goto("probePanic")
  /\ UNCHANGED <<args, config, probe, batch, overhead, warm, ops, raw,
                 summary, histogram, csv, walk>>

\* Vec::with_capacity and vec! of a size that is more than a Vec may have or
\* than there is memory: panic or abort (lines 231, 306-309, 371-372, 482).
AllocFails ==
  /\ pc \in {"make", "build", "overhead", "sample", "histogram"}
  /\ CanFail
  /\ Goto("allocPanic")
  /\ UNCHANGED <<args, config, probe, batch, overhead, warm, ops, raw,
                 summary, histogram, csv, walk>>

Adjusted ==
  [k \in DOMAIN raw |-> IF raw[k] > overhead THEN raw[k] - overhead ELSE 0]

-----------------------------------------------------------------------------
(* The report.                                                             *)

Points == <<0, 500, 900, 950, 990, 999, 1000>>

PrintSummary ==
  /\ pc = "sample" /\ Len(raw) = config.samples
  /\ \E sorted \in Sortings(Adjusted) :
       summary' = [k \in DOMAIN Points |-> Percentile(sorted, Points[k])]
  /\ Goto("histogram")
  /\ UNCHANGED <<args, config, probe, batch, overhead, warm, ops, raw,
                 histogram, csv, walk>>

Lesser(a, b) == IF a < b THEN a ELSE b

\* Mutant: a bucket that got no sample is printed too.
MutPrintBuckets(count, range) ==
  histogram' = [k \in DOMAIN count |->
                  [low   |-> range[k][1],
                   high  |-> range[k][2],
                   count |-> count[k]]]

\* The buckets that got a sample, in order.
PrintBuckets(count, range) ==
  \E used \in SetToSeqs({k \in DOMAIN count : count[k] > 0}) :
    /\ \A i, j \in DOMAIN used : i < j => used[i] < used[j]
    /\ histogram' = [l \in DOMAIN used |->
                       [low   |-> range[used[l]][1],
                        high  |-> range[used[l]][2],
                        count |-> count[used[l]]]]

CountIn(samples, bucket, k) ==
  Cardinality({j \in DOMAIN samples : bucket[samples[j]] = k})

\* Mutant: the width of a bucket is not that of both its ends.
MutWidth(min, max) == (max - min + config.buckets - 1) \div config.buckets

\* (max - min + 1) / buckets, rounded up.
Width(min, max) == (max - min + config.buckets) \div config.buckets

\* Buckets are numbered from 1 here.
LinearHistogram(samples, min, max) ==
  LET width  == Width(min, max)
      bucket == [s \in min .. max |->
                   Lesser((s - min) \div width, config.buckets - 1) + 1]
  IN  PrintBuckets(
        [k \in 1 .. config.buckets |-> CountIn(samples, bucket, k)],
        [k \in 1 .. config.buckets |->
           LET low == min + width * (k - 1)
           IN  <<low, Lesser(low + width - 1, max)>>])

\* A recursive function, about which there are proofs; of ^ there are none.
Power(x, e) ==
  LET power[i \in Nat] == IF i = 0 THEN 1 ELSE x * power[i - 1] IN power[e]

\* The k-th bound of a logarithmic scale is min * (max / min)^(k / buckets);
\* this is its power to the number of buckets.
BoundPower(min, max, k) == Power(min, config.buckets - k) * Power(max, k)

\* The bound itself, rounded half up: a half more than it is above the bound,
\* and it is the first of which this holds.
Bound(min, max, k) ==
  LET p    == Power(2, config.buckets) * BoundPower(min, max, k)
      upTo == {r \in min .. max : r = max \/ Power(2 * r + 1, config.buckets) > p}
  IN  CHOOSE r \in upTo : \A o \in upTo : r <= o

\* The buckets the logarithms may put a sample in: for one that is a bound,
\* rounding decides.
LogBuckets(s, min, max) ==
  {Lesser(k, config.buckets - 1) + 1 :
     k \in {k \in 0 .. config.buckets :
              /\ BoundPower(min, max, k) <= Power(s, config.buckets)
              /\ k < config.buckets =>
                   Power(s, config.buckets) <= BoundPower(min, max, k + 1)}}

LogHistogram(samples, min, max, bucket) ==
  PrintBuckets(
    [k \in 1 .. config.buckets |-> CountIn(samples, bucket, k)],
    [k \in 1 .. config.buckets |->
       <<Bound(min, max, k - 1), Bound(min, max, k)>>])

UseLogScale(min, max) == min > 0 /\ max \div min > 100

\* print_histogram.  Without a sample, or without a bucket, an index would be
\* out of bounds.
PrintHistogram ==
  /\ pc = "histogram"
  /\ LET samples == Adjusted
         values  == {samples[k] : k \in DOMAIN samples}
         min     == CHOOSE v \in values : \A u \in values : v <= u
         max     == CHOOSE v \in values : \A u \in values : u <= v
     IN  IF values = {} \/ (min # max /\ config.buckets = 0)
           THEN Goto("indexPanic") /\ UNCHANGED histogram
         ELSE /\ IF min = max
                   THEN histogram' = <<[low |-> min, high |-> max,
                                        count |-> Len(samples)]>>
                 ELSE IF ~UseLogScale(min, max)
                   THEN LinearHistogram(samples, min, max)
                 ELSE \E bucket \in [values -> 1 .. config.buckets] :
                        /\ \A v \in values :
                             bucket[v] \in LogBuckets(v, min, max)
                        /\ LogHistogram(samples, min, max, bucket)
              /\ Goto(IF config.csv THEN "create" ELSE "ok")
  /\ UNCHANGED <<args, config, probe, batch, overhead, warm, ops, raw,
                 summary, csv, walk>>

\* What write_csv writes: the header, and a line a sample.
Table ==
  <<Line("header", 0, 0)>>
    \o [k \in DOMAIN raw |-> Line("sample", raw[k], Adjusted[k])]

\* create_dir_all and File::create, which empties the file.
CreateCsv ==
  /\ pc = "create"
  /\ \/ csv' = <<>> /\ Goto("write")
     \/ CanFail /\ Goto("error") /\ UNCHANGED csv
  /\ UNCHANGED <<args, config, probe, batch, overhead, warm, ops, raw,
                 summary, histogram, walk>>

\* A line is several writes; when one of them fails a part of it may be there.
WriteCsv ==
  /\ pc = "write"
  /\ \/ /\ csv' = Append(csv, Table[Len(csv) + 1])
        /\ Goto(IF Len(csv) + 1 = Len(Table) THEN "ok" ELSE "write")
     \/ /\ CanFail /\ Goto("error")
        /\ csv' \in {csv, Append(csv, CutLine)}
  /\ UNCHANGED <<args, config, probe, batch, overhead, warm, ops, raw,
                 summary, histogram, walk>>

Panics == {"probePanic", "allocPanic", "dividePanic", "indexPanic"}
Ended == {"ok", "help", "error"} \cup Panics

Finished == pc \in Ended /\ UNCHANGED vars

Next ==
  \/ ParseArg \/ CheckOptions \/ MakeProbe \/ BuildChain \/ MeasureOverhead
  \/ RunOnce \/ ProbeFails \/ AllocFails \/ PrintSummary \/ PrintHistogram
  \/ CreateCsv \/ WriteCsv \/ Finished

Spec == Init /\ [][Next]_vars

-----------------------------------------------------------------------------
(* Properties.                                                             *)

\* "absent" is for a behaviour of another program that uses RandomWalk.
Labels == Ended \cup {"absent", "parse", "make", "build", "overhead", "sample",
                     "histogram", "create", "write"}

\* Every variable keeps its type.
TypeOK ==
  /\ \E line \in CommandLines : \E k \in 0 .. Len(line) :
       args = SubSeq(line, k + 1, Len(line))
  /\ config \in Config
  /\ pc \in Labels
  /\ probe \in {"", "getpid", "stat", "memory", "tcp"}
  /\ batch \in Nat /\ overhead \in Nat /\ warm \in Nat /\ ops \in Nat
  /\ raw \in Seq(Nat) /\ Len(raw) <= config.samples
  /\ summary \in Seq(Nat)
  /\ histogram \in Seq([low : Nat, high : Nat, count : Nat \ {0}])
  /\ csv \in Seq([kind : {"old", "header", "sample", "cut"},
                raw : Nat, adj : Nat])
  /\ Walk!TypeOK

\* How the command ends tells what it has done.  Options that get past
\* parse_args and the constructors never end it in a division by zero or an
\* index out of bounds; exit status 0 with --csv means that the file has a line
\* for every sample, in the order they were taken; a probe or an allocation
\* that fails costs no file, the one of an earlier run is still whole; and a
\* file that was begun has the first lines of the table, the last of them cut
\* only if writing it failed.
EndTellsResult ==
  /\ pc \notin {"dividePanic", "indexPanic"}
  /\ pc = "ok" /\ config.csv => csv = Table
  /\ csv # OldCsv =>
       /\ Len(raw) = config.samples
       /\ \/ csv = SubSeq(Table, 1, Len(csv))
          \/ /\ pc = "error"
             /\ csv = Append(SubSeq(Table, 1, Len(csv) - 1), CutLine)

Below(samples, v) == Cardinality({k \in DOMAIN samples : samples[k] < v})
UpTo(samples, v) == Cardinality({k \in DOMAIN samples : samples[k] <= v})

\* v has at most the share of p thousandths of the samples below it, and at
\* least that share up to it, to half a sample.
IsPercentile(samples, p, v) ==
  LET share == 2 * (Len(samples) - 1) * p + 1000
  IN  2000 * Below(samples, v) <= share /\ 2000 * UpTo(samples, v) >= share

\* What is printed as a percentile is one: the first is the least of the
\* samples, the last the greatest.
SummaryTellsSamples ==
  \A k \in DOMAIN summary : IsPercentile(Adjusted, Points[k], summary[k])

\* The samples can be dealt out to the lines of the histogram so that each is
\* within the range of its line, and each line counts those it has.
HistogramTellsSamples ==
  histogram # <<>> =>
    \E line \in [DOMAIN raw -> DOMAIN histogram] :
      /\ \A k \in DOMAIN raw :
           /\ histogram[line[k]].low <= Adjusted[k]
           /\ Adjusted[k] <= histogram[line[k]].high
      /\ \A l \in DOMAIN histogram :
           histogram[l].count = Cardinality({k \in DOMAIN raw : line[k] = l})

\* What is printed is about all samples and only about them.
ReportTellsSamples == SummaryTellsSamples /\ HistogramTellsSamples

\* The walk of memory_random, as the command builds and drives it.
EachPassOnce == Walk!EachPassOnce
=============================================================================
