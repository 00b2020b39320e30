----------------------------- MODULE MCLatency -----------------------------
(***************************************************************************)
(* LatencySampler for TLC: words of 16 bits, so that 64k wraps to 0; few   *)
(* samples; times that give a linear and a logarithmic histogram.  A       *)
(* behaviour is one of the command, or one of random_read and random_write *)
(* of memory.rs, which walk by the shuffled order.                         *)
(***************************************************************************)
EXTENDS LatencySampler

Text(text) == [text |-> text, number |-> None, unit |-> ""]
Number(k, unit) == [text |-> "", number |-> k, unit |-> unit]
Flag(flag) == [flag |-> flag, inline |-> FALSE, word |-> Text("")]
FlagIs(flag, word) == [flag |-> flag, inline |-> TRUE, word |-> word]
Bare(word) == [flag |-> "", inline |-> FALSE, word |-> word]

MCDefaults ==
  [probe |-> "syscall_getpid", samples |-> 4, warmup |-> 1, batch |-> None,
   buckets |-> 3, csv |-> FALSE, size |-> None]
MCDefaultBatch == [getpid |-> 2, stat |-> 1, memory |-> 2, tcp |-> 1]
MCDefaultSize == [memory |-> 24, tcp |-> 1]

MCCommandLines ==
  {<<>>,
   <<FlagIs("probe", Text("stat")), Flag("csv"), Bare(Text("out")),
     FlagIs("samples", Number(3, ""))>>,
   <<Flag("probe"), Bare(Text("memory_random")), FlagIs("size", Number(32, "")),
     FlagIs("samples", Number(2, "")), FlagIs("batch", Number(3, ""))>>,
   <<FlagIs("probe", Text("random_memory")), FlagIs("samples", Number(1, "")),
     FlagIs("warmup_samples", Number(2, ""))>>,
   <<FlagIs("probe", Text("random_memory")), FlagIs("size", Number(8, ""))>>,
   <<FlagIs("probe", Text("tcp_echo")), Flag("size"), Bare(Number(64, "k"))>>,
   <<FlagIs("probe", Text("tcp_echo")), FlagIs("buckets", Number(2, "")),
     FlagIs("csv", Text("out")), FlagIs("samples", Number(3, ""))>>,
   <<FlagIs("probe", Text("disk"))>>,
   <<Flag("csv"), Flag("list"), FlagIs("samples", Number(2, ""))>>,
   <<FlagIs("samples", Number(9, "")), Flag("samples"), Flag("list")>>,
   <<FlagIs("batch", Number(2, "")), Flag("help"), Flag("bogus")>>,
   <<FlagIs("samples", Number(3, "k"))>>,
   <<FlagIs("samples", Number(0, ""))>>,
   <<FlagIs("batch", Number(0, ""))>>,
   <<FlagIs("buckets", Number(0, ""))>>,
   <<Flag("samples")>>,
   <<Bare(Text("getpid"))>>}

Absent ==
  /\ args = <<>>
  /\ config = Defaults
  /\ pc = "absent"
  /\ probe = ""
  /\ batch = 0 /\ overhead = 0 /\ warm = 0 /\ ops = 0
  /\ raw = <<>> /\ summary = <<>> /\ histogram = <<>>
  /\ csv = OldCsv
  /\ Walk!Init

BenchmarkStep ==
  /\ pc = "absent"
  /\ (\E entries \in Sizes : Walk!New(entries)) \/ Walk!Benchmark
  /\ UNCHANGED sampler

MCInit == Init \/ Absent
MCNext == Next \/ BenchmarkStep
MCSpec == MCInit /\ [][MCNext]_vars
=============================================================================
