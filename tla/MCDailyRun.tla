----------------------------- MODULE MCDailyRun -----------------------------
(***************************************************************************)
(* DailyRun for TLC, on a part of the manifest: two rows share the key     *)
(* random_read, as in benchmarks/memory and benchmarks/ssd.                *)
(***************************************************************************)
EXTENDS DailyRun

File(dir, name, section, nightly) ==
  [dir |-> dir, name |-> name, key |-> name, section |-> section,
   nightly |-> nightly]

memRandom == File("memory", "random_read", "memory", TRUE)
ssdRandom == File("ssd", "random_read", "ssd", FALSE)
ssdSeq    == File("ssd", "seq_read", "ssd", TRUE)
getpid    == File("syscall", "getpid", "syscall", FALSE)
misplaced == File("hash", "crypto", "memory", FALSE)
unknown   == File("hash", "md5", "hash", FALSE)
template  == File("", "_template", "<section>", FALSE)

MCManifests ==
  {{memRandom, ssdRandom, ssdSeq, template},
   {memRandom, getpid, ssdSeq},
   {ssdRandom, getpid},
   {memRandom, misplaced},
   {memRandom, unknown}}

MCRegistered ==
  {Id(f) : f \in {memRandom, ssdRandom, ssdSeq, getpid, misplaced}}
MCSectionOrder ==
  <<"memory", "syscall", "hash", "cpu", "serialization", "ssd", "network">>
MCIdOrder ==
  <<Id(misplaced), Id(unknown), Id(memRandom), Id(ssdRandom), Id(ssdSeq),
    Id(getpid)>>

ById(dir, name) == [full |-> TRUE, id |-> <<dir, name>>]
ByKey(key) == [full |-> FALSE, id |-> <<"", key>>]

Daily(ids, section, write) ==
  [tool |-> "daily", ids |-> ids, section |-> section, csv |-> write]

MCCommands ==
  {Daily(<<>>, NoSection, TRUE),
   Daily(<<>>, NoSection, FALSE),
   Daily(<<>>, "ssd", TRUE),
   Daily(<<ByKey("random_read")>>, NoSection, FALSE),
   Daily(<<ByKey("seq_read"), ById("memory", "random_read"),
           ByKey("seq_read")>>, "ssd", TRUE),
   [tool |-> "readme", ids |-> <<>>, section |-> NoSection, csv |-> FALSE],
   [tool |-> "readme", ids |-> <<>>, section |-> "ssd", csv |-> FALSE],
   [NoCommand EXCEPT !.tool = "memory"],
   [NoCommand EXCEPT !.tool = "list"],
   [NoCommand EXCEPT !.tool = "unknown"]}
=============================================================================
