--------------------------- MODULE PhysicalCores ---------------------------
(***************************************************************************)
(* How the threaded memory benchmarks choose the cores they pin to:        *)
(* physical_core_ids and, on Linux, physical_core_ids_linux and            *)
(* parse_thread_siblings (src/benchmarks/memory.rs:38-114).  The directory *)
(* /sys/devices/system/cpu is read entry by entry, in the order read_dir   *)
(* gives; every cpu has one, and so have things that are not cpus.         *)
(***************************************************************************)
EXTENDS Naturals, Sequences, FiniteSets, FiniteSetsExt

CONSTANTS
  Cpus,        \* the ids of the machine's logical cpus
  Cores,       \* the physical cores a machine may have: partitions of Cpus
  OtherEntries \* the entries of the directory that are not a cpu

ASSUME CpusAssumption ==
  /\ Cpus \subseteq Nat /\ IsFiniteSet(Cpus)
  /\ \A cores \in Cores :
       /\ UNION cores = Cpus /\ {} \notin cores
       /\ \A c, d \in cores : c # d => c \cap d = {}

VARIABLES
  cores,      \* the physical cores of this machine, as sets of cpu ids
  online,     \* the cpus that are online: only they have a topology
  available,  \* core_affinity::get_core_ids(), empty when it gives None
  unread,     \* the entries of cpu_dir still to come
  siblings,   \* sibling_sets
  phase,      \* reading the directory, choosing, or returned
  result      \* the ids returned, once each

vars == <<cores, online, available, unread, siblings, phase, result>>

Init ==
  /\ cores \in Cores
  /\ online \in SUBSET Cpus \ {{}}
  /\ available \in SUBSET online
  /\ \E others \in SUBSET OtherEntries : unread = Cpus \cup others
  /\ siblings = {}
  /\ phase = "reading"
  /\ result = {}

\* topology/thread_siblings_list of a cpu: the online cpus of its core, written
\* as ids and as ranges of more than one.
Parts(s) ==
  LET ranges == {r \in s \X s :
                   /\ r[1] <= r[2] /\ r[1] .. r[2] \subseteq s
                   /\ r[1] = 0 \/ r[1] - 1 \notin s
                   /\ r[2] + 1 \notin s}
  IN  {IF r[1] = r[2] THEN <<r[1]>> ELSE <<r[1], r[2]>> : r \in ranges}

\* parse().unwrap_or(other): a word that is no number is no member of Nat.  The
\* kernel writes none.
NumberOr(word, other) == IF word \in Nat THEN word ELSE other

\* Mutant: a range runs one id too far.
MutIdsOf(part) ==
  IF Len(part) = 1 THEN {part[1]} \cap Nat
  ELSE LET lo == NumberOr(part[1], 0) IN lo .. NumberOr(part[2], lo) + 1

\* The ids of a part: none for a single word that is no number.
IdsOf(part) ==
  IF Len(part) = 1 THEN {part[1]} \cap Nat
  ELSE LET lo == NumberOr(part[1], 0) IN lo .. NumberOr(part[2], lo)

\* What the sort and the dedup leave of the ids.
ParseThreadSiblings(parts) == UNION {IdsOf(part) : part \in parts}

SiblingsOf(cpu) ==
  ParseThreadSiblings(
    Parts((CHOOSE c \in cores : cpu \in c) \cap online))

HasTopology(entry) == entry \in online

\* An entry with a topology adds the sibling set of its core.
ReadEntry(entry) ==
  /\ phase = "reading"
  /\ entry \in unread
  /\ HasTopology(entry)
  /\ siblings' = siblings \cup ({SiblingsOf(entry)} \ {{}})
  /\ unread' = unread \ {entry}
  /\ UNCHANGED <<cores, online, available, phase, result>>

\* .ok()? on an entry without one (line 72): the whole function is None, and
\* unwrap_or_default makes that no core at all.
ReadFails(entry) ==
  /\ phase = "reading"
  /\ entry \in unread
  /\ ~HasTopology(entry)
  /\ siblings' = {}
  /\ unread' = {}
  /\ phase' = "choosing"
  /\ UNCHANGED <<cores, online, available, result>>

ReadAll ==
  /\ phase = "reading"
  /\ unread = {}
  /\ phase' = "choosing"
  /\ UNCHANGED <<cores, online, available, unread, siblings, result>>

\* Mutant: what the directory says is not filtered by what is available.
MutChooseAny ==
  /\ phase = "choosing"
  /\ LET physical == {Min(s) : s \in siblings}
     IN  result' = IF physical = {} THEN available ELSE physical
  /\ phase' = "returned"
  /\ UNCHANGED <<cores, online, available, unread, siblings>>

\* Mutant: every sibling is taken, not the first of each set.
MutChooseAll ==
  /\ phase = "choosing"
  /\ LET physical == UNION siblings \cap available
     IN  result' = IF physical = {} THEN available ELSE physical
  /\ phase' = "returned"
  /\ UNCHANGED <<cores, online, available, unread, siblings>>

\* The lowest of each sibling set that is available; if there is none, every
\* available cpu (lines 49-57).
Choose ==
  /\ phase = "choosing"
  /\ LET physical == {Min(s) : s \in siblings} \cap available
     IN  result' = IF physical = {} THEN available ELSE physical
  /\ phase' = "returned"
  /\ UNCHANGED <<cores, online, available, unread, siblings>>

Returned == phase = "returned" /\ UNCHANGED vars

Next ==
  \/ \E entry \in unread : ReadEntry(entry) \/ ReadFails(entry)
  \/ ReadAll \/ Choose \/ Returned

Spec == Init /\ [][Next]_vars

-----------------------------------------------------------------------------
(* Properties.                                                             *)

\* Every variable keeps its type.
TypeOK ==
  /\ cores \in Cores
  /\ online \subseteq Cpus /\ available \subseteq online
  /\ unread \subseteq Cpus \cup OtherEntries
  /\ siblings \subseteq SUBSET Cpus
  /\ phase \in {"reading", "choosing", "returned"}
  /\ result \subseteq Cpus

\* No worker is pinned to a cpu the process may not use, and as long as it may
\* use any the benchmarks get at least one core: with none they would build
\* barriers for a worker that is never spawned (memory.rs:119).
Usable ==
  phase = "returned" =>
    result \subseteq available /\ (result = {} => available = {})

\* Once the topology is known and leaves anything to use, no two workers are
\* on the same physical core; only the fall-back to every available cpu
\* (line 55) may double up.
NoSharedCore ==
  phase = "returned" /\ (\E s \in siblings : Min(s) \in available) =>
    \A c \in cores : Cardinality(result \cap c) <= 1

\* "one pinned thread per physical core (lowest sibling in each HT set)"
\* (memory.rs:33), for a process that may use every cpu of the machine.
OnePerPhysicalCore ==
  phase = "returned" /\ available = Cpus => result = {Min(c) : c \in cores}
=============================================================================
