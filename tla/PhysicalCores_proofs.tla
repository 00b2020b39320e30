------------------------ MODULE PhysicalCores_proofs ------------------------
(***************************************************************************)
(* Proofs about PhysicalCores, for every machine: any numbering of its     *)
(* cpus, any partition of them into cores, any of them offline or closed   *)
(* to the process, and any order of the directory.                         *)
(*                                                                         *)
(* None of the properties is inductive: they say nothing of a run that has *)
(* not returned.  What is: the sibling sets read so far are what is online *)
(* of a core, and no core whose cpus were read is missing.                 *)
(***************************************************************************)
EXTENDS PhysicalCores, FiniteSetTheorems, WellFoundedInduction, TLAPS

\* Each sibling set is what is online of a core.
Siblings ==
  \A s \in siblings : s # {} /\ \E c \in cores : s = c \cap online

\* As long as no entry has failed, a core one of whose cpus was read is there.
CoresRead ==
  /\ phase = "reading" =>
       \A c \in cores : c \subseteq unread \/ c \cap online \in siblings
  /\ phase # "reading" /\ siblings # {} =>
       \A c \in cores : c \cap online \in siblings

Physical == {Min(s) : s \in siblings} \cap available

Chosen ==
  phase = "returned" =>
    result = IF Physical = {} THEN available ELSE Physical

IInv == TypeOK /\ Siblings /\ CoresRead /\ Chosen

-----------------------------------------------------------------------------
(* Sets of natural numbers.                                                *)

\* A set of natural numbers has a least one.
LEMMA LeastNatural ==
  ASSUME NEW T \in SUBSET Nat, T # {}
  PROVE  \E m \in T : \A k \in T : m <= k
<1>1. PICK m \in T : \A k \in T : ~(<<k, m>> \in OpToRel(<, Nat))
  <2>1. \E x \in T : \A y \in T : ~(<<y, x>> \in OpToRel(<, Nat))
    BY WFMin, NatLessThanWellFounded
  <2> QED
    BY <2>1
<1>2. \A k \in T : ~(k < m)
  BY <1>1 DEF OpToRel
<1> QED
  BY <1>2

\* Min is the least.
LEMMA MinIsLeast ==
  ASSUME NEW T \in SUBSET Nat, T # {}
  PROVE  Min(T) \in T /\ \A k \in T : Min(T) <= k
  BY LeastNatural DEF Min

\* Beyond any number there is one that a finite set does not have.
LEMMA Escapes ==
  ASSUME NEW s \in SUBSET Nat, IsFiniteSet(s), NEW x \in Nat
  PROVE  \E h \in Nat : x <= h /\ h \notin s
<1> SUFFICES ASSUME \A h \in Nat : x <= h => h \in s PROVE FALSE
  OBVIOUS
<1> DEFINE k == Cardinality(s)
<1>1. k \in Nat
  BY FS_CardinalityType
<1>2. x .. x + k \in SUBSET s
  BY <1>1
<1>3. Cardinality(x .. x + k) = k + 1
  BY <1>1, FS_Interval
<1>4. Cardinality(x .. x + k) <= k
  BY <1>2, FS_Subset
<1> QED
  BY <1>1, <1>3, <1>4

\* Written as ids and ranges and parsed, a finite set is what it was.
LEMMA RangesParsed ==
  ASSUME NEW s \in SUBSET Nat, IsFiniteSet(s)
  PROVE  ParseThreadSiblings(Parts(s)) = s
<1>1. ParseThreadSiblings(Parts(s)) \subseteq s
  <2> SUFFICES ASSUME NEW part \in Parts(s) PROVE IdsOf(part) \subseteq s
    BY DEF ParseThreadSiblings
  <2>1. PICK lo \in s, hi \in s :
          /\ lo <= hi /\ lo .. hi \subseteq s
          /\ part = IF lo = hi THEN <<lo>> ELSE <<lo, hi>>
    <3>1. PICK r \in s \X s :
            /\ r[1] <= r[2] /\ r[1] .. r[2] \subseteq s
            /\ part = IF r[1] = r[2] THEN <<r[1]>> ELSE <<r[1], r[2]>>
      BY DEF Parts
    <3>2. r[1] \in s /\ r[2] \in s
      OBVIOUS
    <3> QED
      BY <3>1, <3>2
  <2>2. lo \in Nat /\ hi \in Nat
    OBVIOUS
  <2>3. CASE lo = hi
    <3>1. Len(part) = 1 /\ part[1] \in s
      BY <2>1, <2>3
    <3> QED
      BY <3>1 DEF IdsOf
  <2>4. CASE lo # hi
    <3>1. Len(part) = 2 /\ part[1] = lo /\ part[2] = hi
      BY <2>1, <2>2, <2>4
    <3> QED
      BY <2>1, <2>2, <3>1 DEF IdsOf, NumberOr
  <2> QED
    BY <2>3, <2>4
<1>2. ASSUME NEW x \in s PROVE x \in ParseThreadSiblings(Parts(s))
  <2> DEFINE Below == {l \in Nat : l <= x /\ l .. x \subseteq s}
             Beyond == {h \in Nat : x <= h /\ h \notin s}
  <2>1. x \in Nat
    OBVIOUS
  <2>2. PICK lo \in Below : \A l \in Below : lo <= l
    <3>1. x .. x = {x}
      BY <2>1
    <3>2. x \in Below
      BY <2>1, <3>1
    <3> QED
      BY <3>2, LeastNatural
  <2>3. PICK out \in Beyond : \A h \in Beyond : out <= h
    BY <2>1, Escapes, LeastNatural
  <2>4. lo \in Nat /\ lo <= x /\ lo \in s /\ \A j \in lo .. x : j \in s
    BY <2>1, <2>2
  <2>5. out \in Nat /\ x < out /\ out \notin s
    BY <2>1, <2>3
  <2>6. \A j \in x .. out - 1 : j \in s
    <3> SUFFICES ASSUME NEW j \in x .. out - 1, j \notin s PROVE FALSE
      OBVIOUS
    <3>1. j \in Beyond
      BY <2>1, <2>5
    <3> QED
      BY <2>3, <2>5, <3>1
  <2>7. lo .. out - 1 \subseteq s
    <3> SUFFICES ASSUME NEW j \in lo .. out - 1 PROVE j \in s
      OBVIOUS
    <3>1. j \in lo .. x \/ j \in x .. out - 1
      BY <2>1, <2>4, <2>5
    <3> QED
      BY <2>4, <2>6, <3>1
  <2>8. lo = 0 \/ lo - 1 \notin s
    <3> SUFFICES ASSUME lo # 0, lo - 1 \in s PROVE FALSE
      OBVIOUS
    <3>1. \A j \in lo - 1 .. x : j \in s
      BY <2>1, <2>4
    <3>2. lo - 1 \in Below
      BY <2>1, <2>4, <3>1
    <3> QED
      BY <2>2, <2>4, <3>2
  <2>9. /\ out - 1 \in s /\ lo <= out - 1 /\ (out - 1) + 1 \notin s
        /\ x \in lo .. out - 1
    BY <2>1, <2>4, <2>5, <2>6
  <2> DEFINE part == IF lo = out - 1 THEN <<lo>> ELSE <<lo, out - 1>>
  <2>10. part \in Parts(s)
    <3> DEFINE r == <<lo, out - 1>>
    <3>1. /\ r \in s \X s
          /\ r[1] <= r[2] /\ r[1] .. r[2] \subseteq s
          /\ r[1] = 0 \/ r[1] - 1 \notin s
          /\ r[2] + 1 \notin s
      BY <2>4, <2>7, <2>8, <2>9
    <3>2. part = IF r[1] = r[2] THEN <<r[1]>> ELSE <<r[1], r[2]>>
      OBVIOUS
    <3> HIDE DEF r, part
    <3> QED
      BY <3>1, <3>2 DEF Parts
  <2>11. x \in IdsOf(part)
    <3>1. CASE lo = out - 1
      BY <2>1, <2>9, <3>1 DEF IdsOf
    <3>2. CASE lo # out - 1
      <4>1. Len(part) = 2 /\ part[1] = lo /\ part[2] = out - 1
        BY <3>2
      <4>2. lo \in Nat /\ out - 1 \in Nat
        BY <2>4, <2>5, <2>9
      <4> HIDE DEF part
      <4> QED
        BY <2>9, <4>1, <4>2 DEF IdsOf, NumberOr
    <3> QED
      BY <3>1, <3>2
  <2> QED
    BY <2>10, <2>11 DEF ParseThreadSiblings
<1> QED
  BY <1>1, <1>2

-----------------------------------------------------------------------------
(* The sibling sets.                                                       *)

\* What is known of the machine.
LEMMA Machine ==
  ASSUME TypeOK
  PROVE  /\ cores \in Cores /\ UNION cores = Cpus /\ {} \notin cores
         /\ \A c, d \in cores : c # d => c \cap d = {}
         /\ online \in SUBSET Nat /\ IsFiniteSet(online)
<1>1. online \in SUBSET Cpus /\ IsFiniteSet(Cpus)
  BY CpusAssumption DEF TypeOK
<1>2. IsFiniteSet(online)
  BY <1>1, FS_Subset
<1> QED
  BY <1>1, <1>2, CpusAssumption DEF TypeOK

\* The topology of a cpu gives what is online of its core.
LEMMA SiblingsAreOnline ==
  ASSUME TypeOK, NEW cpu \in Cpus
  PROVE  \E c \in cores : cpu \in c /\ SiblingsOf(cpu) = c \cap online
<1> DEFINE c == CHOOSE d \in cores : cpu \in d
<1>1. c \in cores /\ cpu \in c
  <2>1. \E d \in cores : cpu \in d
    BY Machine
  <2> QED
    BY <2>1
<1>2. c \cap online \in SUBSET Nat /\ IsFiniteSet(c \cap online)
  BY Machine, FS_Intersection
<1>3. SiblingsOf(cpu) = c \cap online
  BY <1>2, RangesParsed DEF SiblingsOf
<1> QED
  BY <1>1, <1>3

\* The sibling sets are sets of numbers, and have a least one each.
LEMMA LowestSibling ==
  ASSUME TypeOK, Siblings, NEW s \in siblings
  PROVE  Min(s) \in s
<1>1. s \in SUBSET Nat /\ s # {}
  BY Machine DEF Siblings
<1> QED
  BY <1>1, MinIsLeast

-----------------------------------------------------------------------------
(* The invariant.                                                          *)

LEMMA InitInv == Init => IInv
<1> SUFFICES ASSUME Init PROVE IInv
  OBVIOUS
<1>1. TypeOK
  BY DEF Init, TypeOK
<1>2. \A c \in cores : c \subseteq unread
  BY <1>1, Machine DEF Init
<1> QED
  BY <1>1, <1>2 DEF Init, IInv, Siblings, CoresRead, Chosen

LEMMA ReadEntryInv ==
  ASSUME IInv, NEW entry \in unread, ReadEntry(entry)
  PROVE  IInv'
<1>1. /\ phase = "reading" /\ entry \in online
      /\ siblings' = siblings \cup ({SiblingsOf(entry)} \ {{}})
      /\ unread' = unread \ {entry}
      /\ UNCHANGED <<cores, online, available, phase, result>>
  BY DEF ReadEntry, HasTopology
<1>2. entry \in Cpus
  BY <1>1 DEF IInv, TypeOK
<1>3. PICK c \in cores : entry \in c /\ SiblingsOf(entry) = c \cap online
  BY <1>2, SiblingsAreOnline DEF IInv
<1>4. siblings' = siblings \cup {c \cap online} /\ c \cap online # {}
  BY <1>1, <1>3
<1>5. TypeOK'
  BY <1>1, <1>4 DEF IInv, TypeOK
<1>6. Siblings'
  BY <1>1, <1>4 DEF IInv, Siblings
<1>7. CoresRead'
  <2>1. ASSUME NEW d \in cores PROVE d \subseteq unread' \/ d \cap online \in siblings'
    <3>1. CASE d = c
      BY <1>4, <3>1
    <3>2. CASE d # c
      <4>1. entry \notin d
        BY <1>3, <3>2, Machine DEF IInv
      <4> QED
        BY <1>1, <4>1 DEF IInv, CoresRead
    <3> QED
      BY <3>1, <3>2
  <2> QED
    BY <1>1, <2>1 DEF CoresRead
<1>8. Chosen'
  BY <1>1 DEF Chosen
<1> QED
  BY <1>5, <1>6, <1>7, <1>8 DEF IInv

LEMMA ReadFailsInv ==
  ASSUME IInv, NEW entry \in unread, ReadFails(entry)
  PROVE  IInv'
<1>1. /\ siblings' = {} /\ unread' = {} /\ phase' = "choosing"
      /\ UNCHANGED <<cores, online, available, result>>
  BY DEF ReadFails
<1>2. TypeOK'
  BY <1>1 DEF IInv, TypeOK
<1>3. Siblings' /\ CoresRead' /\ Chosen'
  BY <1>1 DEF Siblings, CoresRead, Chosen
<1> QED
  BY <1>2, <1>3 DEF IInv

LEMMA ReadAllInv == IInv /\ ReadAll => IInv'
<1> SUFFICES ASSUME IInv, ReadAll PROVE IInv'
  OBVIOUS
<1>1. /\ phase = "reading" /\ phase' = "choosing" /\ unread = {}
      /\ UNCHANGED <<cores, online, available, unread, siblings, result>>
  BY DEF ReadAll
<1>2. ASSUME NEW c \in cores PROVE c # {}
  <2>1. {} \notin cores
    BY Machine DEF IInv
  <2> QED
    BY <2>1
<1>3. \A c \in cores : c \cap online \in siblings
  BY <1>1, <1>2 DEF IInv, CoresRead
<1> QED
  BY <1>1, <1>3 DEF IInv, TypeOK, Siblings, CoresRead, Chosen

LEMMA ChooseInv == IInv /\ Choose => IInv'
<1> SUFFICES ASSUME IInv, Choose PROVE IInv'
  OBVIOUS
<1>1. /\ phase = "choosing" /\ phase' = "returned"
      /\ result' = IF Physical = {} THEN available ELSE Physical
      /\ UNCHANGED <<cores, online, available, unread, siblings>>
  BY DEF Choose, Physical
<1>2. Physical' = Physical
  BY <1>1 DEF Physical
<1>3. result' \subseteq available
  BY <1>1 DEF Physical
<1>4. TypeOK'
  BY <1>1, <1>3 DEF IInv, TypeOK
<1>5. Siblings' /\ CoresRead'
  BY <1>1 DEF IInv, Siblings, CoresRead
<1>6. Chosen'
  BY <1>1, <1>2 DEF Chosen
<1> QED
  BY <1>4, <1>5, <1>6 DEF IInv

LEMMA NextInv == IInv /\ [Next]_vars => IInv'
<1>1. IInv /\ UNCHANGED vars => IInv'
  BY DEF vars, IInv, TypeOK, Siblings, CoresRead, Chosen, Physical
<1> QED
  BY <1>1, ReadEntryInv, ReadFailsInv, ReadAllInv, ChooseInv DEF Next, Returned

-----------------------------------------------------------------------------
(* The theorems.                                                           *)

\* Every variable keeps its type: whatever is read, only cpus of the machine
\* are ever siblings or chosen (memory.rs 59-114).
THEOREM TypeCorrect == Spec => []TypeOK
<1>1. IInv => TypeOK
  BY DEF IInv
<1> QED
  BY <1>1, InitInv, NextInv, PTL DEF Spec

\* On every machine the benchmarks get cpus they may use, and at least one if
\* there is one, whatever of the directory can be read (memory.rs 49-57).
THEOREM ChoiceIsUsable == Spec => []Usable
<1>1. IInv => Usable
  BY DEF IInv, Chosen, Physical, Usable
<1> QED
  BY <1>1, InitInv, NextInv, PTL DEF Spec

\* On every machine, if the lowest sibling of some core that was read may be
\* used, no two of the chosen cpus are of one core (memory.rs 52-57).
THEOREM CoresNotShared == Spec => []NoSharedCore
<1>1. IInv => NoSharedCore
  <2> SUFFICES ASSUME IInv, phase = "returned",
                      NEW t \in siblings, Min(t) \in available,
                      NEW c \in cores
               PROVE  Cardinality(result \cap c) <= 1
    BY DEF NoSharedCore
  <2>1. result = Physical
    BY DEF IInv, Chosen, Physical
  <2>2. ASSUME NEW s \in siblings, Min(s) \in c
        PROVE  s = c \cap online
    <3>1. PICK d \in cores : s = d \cap online
      BY DEF IInv, Siblings
    <3>2. Min(s) \in d
      BY <3>1, LowestSibling DEF IInv
    <3>3. d = c
      BY <2>2, <3>2, Machine DEF IInv
    <3> QED
      BY <3>1, <3>3
  <2>3. result \cap c \subseteq {Min(c \cap online)}
    BY <2>1, <2>2 DEF Physical
  <2>4. result \cap c = {} \/ result \cap c = {Min(c \cap online)}
    BY <2>3
  <2>5. Cardinality({}) = 0 /\ Cardinality({Min(c \cap online)}) = 1
    BY FS_EmptySet, FS_Singleton
  <2> QED
    BY <2>4, <2>5
<1> QED
  BY <1>1, InitInv, NextInv, PTL DEF Spec

\* What the comment promises (memory.rs:33) holds on every machine where the
\* topology could be read and every cpu may be used: the cpus chosen are the
\* lowest sibling of each core.  OnePerPhysicalCore fails on no other account
\* than an entry of the directory that has no topology.
THEOREM OnePerCoreOnceRead ==
  Spec => [](siblings # {} => OnePerPhysicalCore)
<1>1. IInv => (siblings # {} => OnePerPhysicalCore)
  <2> SUFFICES ASSUME IInv, siblings # {}, phase = "returned", available = Cpus
               PROVE  result = {Min(c) : c \in cores}
    BY DEF OnePerPhysicalCore
  <2>1. \A c \in cores : c \cap online = c
    BY Machine DEF IInv, TypeOK
  <2>2. siblings = cores
    <3>1. cores \subseteq siblings
      BY <2>1 DEF IInv, CoresRead
    <3>2. ASSUME NEW s \in siblings PROVE s \in cores
      <4>1. PICK c \in cores : s = c \cap online
        BY DEF IInv, Siblings
      <4> QED
        BY <2>1, <4>1
    <3> QED
      BY <3>1, <3>2
  <2>3. ASSUME NEW c \in cores PROVE Min(c) \in available
    BY <2>2, LowestSibling, Machine DEF IInv
  <2>4. Physical = {Min(c) : c \in cores}
    BY <2>2, <2>3 DEF Physical
  <2>5. Physical # {}
    BY <2>2, <2>4
  <2> QED
    BY <2>4, <2>5 DEF IInv, Chosen
<1> QED
  BY <1>1, InitInv, NextInv, PTL DEF Spec
=============================================================================
