-------------------------- MODULE DailyRun_proofs --------------------------
(***************************************************************************)
(* Proofs about DailyRun, for any number of runs in one checkout, any      *)
(* manifest and any faults: which rows a run measures, how the CSV file    *)
(* starts, whose rows it has, and that a run that ended well has all of    *)
(* its own in it.                                                          *)
(***************************************************************************)
EXTENDS DailyRun, FiniteSetTheorems, TLAPS

Lines == [run : Runs \cup {"header", "old"}, write : Nat]

Active(r) == pc[r] \notin Ended \cup {"idle"}
Opening(r) == pc[r] \in {"open", "write"}

Typed ==
  /\ files \in Manifests
  /\ pc \in [Runs -> Labels]
  /\ cmd \in [Runs -> Commands \cup {NoCommand}]
  /\ DOMAIN rows = Runs /\ DOMAIN measured = Runs
  /\ header \in [Runs -> BOOLEAN]
  /\ written \in [Runs -> Nat]
  /\ exists \in BOOLEAN /\ (csv # <<>> => exists)
  /\ \A r \in Runs : pc[r] = "write" => exists
  /\ csv \in Seq(Lines)
  /\ overlapped \in BOOLEAN

\* A run that comes to the file has measured all its rows, and has some.
Full(r) == rows[r] # <<>> /\ measured[r] = Len(rows[r])

Measured ==
  \A r \in Runs :
    /\ pc[r] = "run" /\ cmd[r].tool = "daily" => rows[r] # <<>>
    /\ pc[r] \in {"check", "open", "write"} => Full(r)
    /\ \A i \in DOMAIN csv : csv[i].run = r =>
         Full(r) /\ pc[r] \notin {"idle", "load", "run"}

\* As long as the file is empty, whoever opens it will write the header first.
Headed ==
  /\ csv # <<>> => csv[1] = Header
  /\ \A r \in Runs :
       pc[r] \in {"idle", "load", "run", "check", "open"} => written[r] = 0
  /\ \A r \in Runs : csv = <<>> => written[r] = 0 /\ (Opening(r) => header[r])

\* Runs that have not overlapped are one at a time, and the one that is to
\* write the header has the file to itself.
Alone ==
  ~overlapped =>
    /\ \A q, r \in Runs : Active(q) /\ Active(r) => q = r
    /\ \A i \in 2 .. Len(csv) : csv[i] # Header
    /\ \A r \in Runs : Opening(r) /\ header[r] /\ written[r] = 0 => csv = <<>>

\* What a run has selected, measured and written, and that what the shell
\* does not know is never loaded.
Sized ==
  \A r \in Runs :
    /\ rows[r] \in Seq(files)
    /\ measured[r] \in 0 .. Len(rows[r])
    /\ written[r] \in 0 .. Writes(r)
    /\ pc[r] \in {"idle", "load"} => rows[r] = <<>> /\ measured[r] = 0
    /\ pc[r] = "write" => written[r] < Writes(r)
    /\ pc[r] # "idle" => cmd[r] \in Commands
    /\ pc[r] = "load" => cmd[r].tool # "unknown"

\* The writes of rows among those a run has made.
Sent(r) == IF header[r] /\ written[r] > 0 THEN written[r] - 1 ELSE written[r]

\* They are in the file, one after the other, and no others of this run.
Delivered ==
  \A r \in Runs :
    /\ \A k \in 1 .. Sent(r) : \E i \in DOMAIN csv : csv[i] = RowWrite(r, k)
    /\ \A i \in DOMAIN csv : csv[i].run = r => csv[i].write <= Sent(r)
    /\ \A i, j \in DOMAIN csv : i < j /\ csv[i].run = r /\ csv[j].run = r =>
         csv[i].write < csv[j].write
    /\ pc[r] = "ok" /\ cmd[r].csv => written[r] = Writes(r)

IInv ==
  /\ Typed /\ Measured /\ Headed /\ Alone
  /\ Sized /\ RunsRequested /\ Delivered

-----------------------------------------------------------------------------
(* Sorting and filtering.                                                  *)

\* R is a strict order of S, and a total one.
StrictlyOrders(R, S) ==
  /\ \A x, y \in S : <<x, y>> \in R => <<y, x>> \notin R
  /\ \A x, y \in S : x = y \/ <<x, y>> \in R \/ <<y, x>> \in R
  /\ \A x, y, z \in S : <<x, y>> \in R /\ <<y, z>> \in R => <<x, z>> \in R

\* A finite set can be listed in such an order: an element's place is the
\* number of those below it, and one.
LEMMA Enumeration ==
  ASSUME NEW S, IsFiniteSet(S), NEW R, StrictlyOrders(R, S)
  PROVE  \E s \in SetToSeqs(S) :
           \A i, j \in DOMAIN s : i < j => <<s[i], s[j]>> \in R
<1> DEFINE n == Cardinality(S)
           Below(x) == {y \in S : <<y, x>> \in R}
           rank == [x \in S |-> Cardinality(Below(x)) + 1]
<1>1. n \in Nat /\ IsFiniteSet(1 .. n) /\ Cardinality(1 .. n) = n
  BY FS_CardinalityType, FS_Interval
<1>2. ASSUME NEW x \in S
      PROVE  IsFiniteSet(Below(x)) /\ Cardinality(Below(x)) \in Nat
  BY FS_Subset, FS_CardinalityType
<1>3. ASSUME NEW x \in S PROVE rank[x] \in 1 .. n
  <2>1. x \notin Below(x) /\ Below(x) \in SUBSET (S \ {x})
    BY DEF StrictlyOrders
  <2>2. IsFiniteSet(S \ {x}) /\ Cardinality(S \ {x}) = n - 1
    BY FS_RemoveElement
  <2>3. Cardinality(Below(x)) <= Cardinality(S \ {x})
    <3> HIDE DEF Below
    <3> QED
      BY <2>1, <2>2, FS_Subset
  <2>4. Cardinality(Below(x)) + 1 \in 1 .. n
    <3> HIDE DEF n, Below
    <3> QED
      BY <1>1, <1>2, <2>2, <2>3
  <2> QED
    BY <2>4
<1>4. ASSUME NEW x \in S, NEW y \in S, <<x, y>> \in R
      PROVE  rank[x] < rank[y]
  <2>1. x \notin Below(x) /\ Below(x) \cup {x} \in SUBSET Below(y)
    BY <1>4 DEF StrictlyOrders
  <2>2. Cardinality(Below(x) \cup {x}) = Cardinality(Below(x)) + 1
    BY <1>2, <2>1, FS_AddElement
  <2>3. Cardinality(Below(x) \cup {x}) <= Cardinality(Below(y))
    BY <1>2, <2>1, FS_Subset
  <2> QED
    BY <1>2, <2>2, <2>3
<1>5. ASSUME NEW x \in S, NEW y \in S, rank[x] = rank[y]
      PROVE  x = y
  <2>1. rank[x] \in Nat /\ ~(rank[x] < rank[x])
    BY <1>1, <1>3
  <2> HIDE DEF rank
  <2> QED
    BY <1>4, <1>5, <2>1 DEF StrictlyOrders
<1>6. rank \in Injection(S, 1 .. n)
  <2>1. rank \in [S -> 1 .. n]
    BY <1>3
  <2> HIDE DEF rank
  <2> QED
    BY <1>5, <2>1 DEF Injection, IsInjective
<1>7. rank \in Surjection(S, 1 .. n)
  BY <1>1, <1>6, FS_Injection
<1> DEFINE s == [k \in 1 .. n |-> CHOOSE x \in S : rank[x] = k]
<1> HIDE DEF n, rank
<1>8. ASSUME NEW k \in 1 .. n PROVE s[k] \in S /\ rank[s[k]] = k
  <2>1. \E x \in S : rank[x] = k
    BY <1>7 DEF Surjection
  <2> QED
    BY <2>1
<1> HIDE DEF s
<1>9. s \in SetToSeqs(S)
  <2>1. s \in [1 .. n -> S]
    BY <1>8 DEF s
  <2> QED
    BY <1>8, <2>1 DEF SetToSeqs, n
<1>10. ASSUME NEW i \in DOMAIN s, NEW j \in DOMAIN s, i < j
       PROVE  <<s[i], s[j]>> \in R
  <2>1. i \in 1 .. n /\ j \in 1 .. n
    BY DEF s
  <2>2. rank[s[i]] = i /\ rank[s[j]] = j /\ s[i] \in S /\ s[j] \in S
    BY <1>8, <2>1
  <2>3. <<s[j], s[i]>> \notin R /\ s[i] # s[j]
    BY <1>1, <1>4, <1>10, <2>1, <2>2
  <2> QED
    BY <2>2, <2>3 DEF StrictlyOrders
<1> QED
  BY <1>9, <1>10

\* A listing of a finite set has each element, and once.
LEMMA Listing ==
  ASSUME NEW D, IsFiniteSet(D), NEW p \in SetToSeqs(D)
  PROVE  /\ Cardinality(D) \in Nat /\ DOMAIN p = 1 .. Cardinality(D)
         /\ p \in Seq(D)
         /\ \A i, j \in DOMAIN p : i # j => p[i] # p[j]
         /\ \A x \in D : \E i \in DOMAIN p : p[i] = x
<1> DEFINE n == Cardinality(D)
<1>1. n \in Nat /\ IsFiniteSet(1 .. n) /\ Cardinality(1 .. n) = n
  BY FS_CardinalityType, FS_Interval
<1>2. p \in [1 .. n -> D] /\ \A i, j \in 1 .. n : i # j => p[i] # p[j]
  BY DEF SetToSeqs
<1> HIDE DEF n
<1>3. p \in Injection(1 .. n, D)
  BY <1>2 DEF Injection, IsInjective
<1>4. Cardinality(1 .. n) = Cardinality(D)
  BY <1>1 DEF n
<1>5. p \in Surjection(1 .. n, D)
  BY <1>3, <1>4, FS_Injection
<1>6. p \in Seq(D)
  BY <1>1, <1>2
<1> QED
  BY <1>1, <1>2, <1>5, <1>6 DEF Surjection, n

\* Places of a sequence, put in another order.
LEMMA Picked ==
  ASSUME NEW S, NEW s \in Seq(S), NEW D \in SUBSET DOMAIN s,
         NEW p \in SetToSeqs(D), NEW t, t = [k \in DOMAIN p |-> s[p[k]]]
  PROVE  /\ t \in Seq(S) /\ DOMAIN t = DOMAIN p
         /\ ToSet(t) = {s[i] : i \in D}
         /\ \A k \in DOMAIN t : p[k] \in D /\ t[k] = s[p[k]]
<1>1. IsFiniteSet(D)
  <2>1. Len(s) \in Nat /\ DOMAIN s = 1 .. Len(s)
    OBVIOUS
  <2>2. IsFiniteSet(1 .. Len(s))
    BY <2>1, FS_Interval
  <2> QED
    BY <2>1, <2>2, FS_Subset
<1>2. /\ Cardinality(D) \in Nat /\ DOMAIN p = 1 .. Cardinality(D)
      /\ p \in Seq(D)
      /\ \A x \in D : \E i \in DOMAIN p : p[i] = x
  BY <1>1, Listing
<1>3. \A k \in DOMAIN p : p[k] \in D /\ s[p[k]] \in S
  BY <1>2
<1>4. t \in [1 .. Cardinality(D) -> S]
  BY <1>2, <1>3
<1>5. t \in Seq(S)
  <2> DEFINE n == Cardinality(D)
  <2>1. n \in Nat /\ t \in [1 .. n -> S]
    BY <1>2, <1>4
  <2> HIDE DEF n
  <2> QED
    BY <2>1
<1>6. ToSet(t) = {s[i] : i \in D}
  BY <1>2, <1>3 DEF ToSet
<1> QED
  BY <1>2, <1>3, <1>5, <1>6

\* filter keeps what it is told to, in the order it was in.
LEMMA FilteredRows ==
  ASSUME NEW S, NEW all \in Seq(S), NEW D \in SUBSET DOMAIN all
  PROVE  /\ Filtered(all, D) \in Seq(S)
         /\ ToSet(Filtered(all, D)) = {all[i] : i \in D}
         /\ \A k, l \in DOMAIN Filtered(all, D) : k < l =>
              \E i, j \in DOMAIN all :
                /\ i < j /\ Filtered(all, D)[k] = all[i]
                /\ Filtered(all, D)[l] = all[j]
<1> DEFINE R == {x \in Nat \X Nat : x[1] < x[2]}
<1>1. DOMAIN all \subseteq Nat /\ IsFiniteSet(D)
  <2>1. Len(all) \in Nat /\ DOMAIN all = 1 .. Len(all)
    OBVIOUS
  <2>2. IsFiniteSet(1 .. Len(all))
    BY <2>1, FS_Interval
  <2> QED
    BY <2>1, <2>2, FS_Subset
<1>2. StrictlyOrders(R, D)
  BY <1>1 DEF StrictlyOrders
<1>3. PICK q \in SetToSeqs(D) : \A i, j \in DOMAIN q : i < j => <<q[i], q[j]>> \in R
  BY <1>1, <1>2, Enumeration
<1>4. PICK p \in SetToSeqs(D) :
        /\ \A i, j \in DOMAIN p : i < j => p[i] < p[j]
        /\ Filtered(all, D) = [k \in DOMAIN p |-> all[p[k]]]
  <2>1. \A i, j \in DOMAIN q : i < j => q[i] < q[j]
    BY <1>3
  <2> QED
    BY <2>1 DEF Filtered, Arranged
<1> DEFINE t == Filtered(all, D)
<1> HIDE DEF t
<1>5. /\ t \in Seq(S) /\ DOMAIN t = DOMAIN p
      /\ ToSet(t) = {all[i] : i \in D}
      /\ \A k \in DOMAIN t : p[k] \in D /\ t[k] = all[p[k]]
  <2>1. t = [k \in DOMAIN p |-> all[p[k]]]
    BY <1>4 DEF t
  <2> QED
    BY <2>1, Picked
<1>6. ASSUME NEW k \in DOMAIN t, NEW l \in DOMAIN t, k < l
      PROVE  \E i, j \in DOMAIN all : i < j /\ t[k] = all[i] /\ t[l] = all[j]
  <2>1. p[k] < p[l] /\ p[k] \in DOMAIN all /\ p[l] \in DOMAIN all
    BY <1>4, <1>5, <1>6
  <2> QED
    BY <1>5, <2>1
<1> QED
  BY <1>5, <1>6 DEF t

-----------------------------------------------------------------------------
(* The manifest.                                                           *)

Place(f) == Position(IdOrder, Id(f))

\* Every row has its place in the order.
LEMMA Places ==
  ASSUME files \in Manifests, NEW f \in RowFiles
  PROVE  SectionRank(f.section) \in Nat /\ Place(f) \in Nat
<1>1. \E i \in DOMAIN IdOrder : IdOrder[i] = Id(f)
  BY ManifestAssumption DEF RowFiles, ToSet
<1>2. DOMAIN IdOrder \subseteq Nat /\ DOMAIN SectionOrder \subseteq Nat
      /\ Len(SectionOrder) \in Nat
  BY ManifestAssumption
<1>3. Place(f) \in DOMAIN IdOrder
  BY <1>1 DEF Place, Position
<1>4. SectionRank(f.section) \in DOMAIN SectionOrder \cup {Len(SectionOrder) + 1}
  BY DEF SectionRank, Position
<1> QED
  BY <1>2, <1>3, <1>4

\* What load_rows returns: every row file once, section by section.
LEMMA LoadedRows ==
  ASSUME files \in Manifests, NEW walk \in Walks
  PROVE  /\ LoadRows(walk) \in Seq(RowFiles)
         /\ ToSet(walk) = RowFiles
         /\ ToSet(LoadRows(walk)) = RowFiles
         /\ \A i, j \in DOMAIN LoadRows(walk) : i < j =>
              /\ LoadRows(walk)[i] # LoadRows(walk)[j]
              /\ SectionRank(LoadRows(walk)[i].section)
                   <= SectionRank(LoadRows(walk)[j].section)
<1> DEFINE D == DOMAIN walk
           sr(i) == SectionRank(walk[i].section)
           pl(i) == Place(walk[i])
           Less(i, j) == \/ sr(i) < sr(j)
                         \/ sr(i) = sr(j) /\ pl(i) < pl(j)
                         \/ sr(i) = sr(j) /\ pl(i) = pl(j) /\ i < j
           R == {x \in D \X D : Less(x[1], x[2])}
<1>1. IsFiniteSet(RowFiles)
  BY ManifestAssumption, FS_Subset DEF RowFiles
<1>2. walk \in SetToSeqs(RowFiles)
  BY DEF Walks, RowFiles
<1>3. /\ walk \in Seq(RowFiles) /\ ToSet(walk) = RowFiles
      /\ \A i, j \in D : i # j => walk[i] # walk[j]
      /\ D \subseteq Nat /\ IsFiniteSet(D)
  <2>1. /\ Cardinality(RowFiles) \in Nat /\ D = 1 .. Cardinality(RowFiles)
        /\ walk \in Seq(RowFiles)
        /\ \A i, j \in D : i # j => walk[i] # walk[j]
        /\ \A x \in RowFiles : \E i \in D : walk[i] = x
    BY <1>1, <1>2, Listing
  <2>2. ToSet(walk) = RowFiles
    BY <2>1 DEF ToSet
  <2>3. IsFiniteSet(1 .. Cardinality(RowFiles))
    BY <2>1, FS_Interval
  <2>4. 1 .. Cardinality(RowFiles) \subseteq Nat
    BY <2>1
  <2> QED
    BY <2>1, <2>2, <2>3, <2>4
<1>4. \A i \in D : sr(i) \in Nat /\ pl(i) \in Nat
  BY <1>3, Places
<1>5. StrictlyOrders(R, D)
  <2> HIDE DEF sr, pl
  <2> QED
    BY <1>3, <1>4 DEF StrictlyOrders
<1>6. PICK q \in SetToSeqs(D) : \A i, j \in DOMAIN q : i < j => <<q[i], q[j]>> \in R
  BY <1>3, <1>5, Enumeration
<1>7. \A a, b \in D :
        Less(a, b) <=> \/ Before(walk[a], walk[b])
                       \/ ~Before(walk[b], walk[a]) /\ a < b
  BY <1>3, <1>4 DEF Before, Place
<1> HIDE DEF Less
<1>8. PICK p \in SetToSeqs(D) :
        /\ \A i, j \in DOMAIN p : i < j =>
             \/ Before(walk[p[i]], walk[p[j]])
             \/ ~Before(walk[p[j]], walk[p[i]]) /\ p[i] < p[j]
        /\ LoadRows(walk) = [k \in DOMAIN p |-> walk[p[k]]]
  <2>1. \A i, j \in DOMAIN q : i < j =>
          \/ Before(walk[q[i]], walk[q[j]])
          \/ ~Before(walk[q[j]], walk[q[i]]) /\ q[i] < q[j]
    BY <1>6, <1>7
  <2> HIDE DEF D
  <2>2. \E p \in SetToSeqs(D) : \A i, j \in DOMAIN p : i < j =>
          \/ Before(walk[p[i]], walk[p[j]])
          \/ ~Before(walk[p[j]], walk[p[i]]) /\ p[i] < p[j]
    BY <2>1
  <2> QED
    BY <2>2 DEF LoadRows, SortedBy, Arranged, D
<1> DEFINE all == LoadRows(walk)
<1> HIDE DEF all
<1>9. all = [k \in DOMAIN p |-> walk[p[k]]]
  BY <1>8 DEF all
<1>10. /\ all \in Seq(RowFiles) /\ DOMAIN all = DOMAIN p
       /\ ToSet(all) = {walk[i] : i \in D}
       /\ \A k \in DOMAIN all : p[k] \in D /\ all[k] = walk[p[k]]
  BY <1>3, <1>9, Picked
<1>11. \A i, j \in DOMAIN p : i # j => p[i] # p[j]
  BY <1>3, Listing
<1>12. ASSUME NEW i \in DOMAIN all, NEW j \in DOMAIN all, i < j
       PROVE  /\ all[i] # all[j]
              /\ SectionRank(all[i].section) <= SectionRank(all[j].section)
  <2>1. i # j /\ p[i] \in D /\ p[j] \in D
    BY <1>10, <1>12
  <2>2. Less(p[i], p[j])
    BY <1>7, <1>8, <1>10, <1>12, <2>1
  <2>3. sr(p[i]) <= sr(p[j])
    <3> HIDE DEF sr, pl
    <3> QED
      BY <1>4, <2>1, <2>2 DEF Less
  <2> QED
    BY <1>3, <1>10, <1>11, <2>1, <2>3
<1>13. ToSet(all) = RowFiles
  BY <1>3, <1>10 DEF ToSet
<1> QED
  BY <1>3, <1>10, <1>12, <1>13 DEF all

\* What is selected of a manifest in which nothing is wrong is what was asked
\* for.
LEMMA SelectedRows ==
  ASSUME files \in Manifests, NEW walk \in Walks, NEW c \in Commands,
         c.tool \in {"daily", "readme", "memory"},
         \A f \in ToSet(walk) : WellFormed(f),
         \A i \in DOMAIN c.ids : Resolvable(c.ids[i], LoadRows(walk))
  PROVE  /\ Selected(c, LoadRows(walk)) \in Seq(RowFiles)
         /\ Answers(c, Selected(c, LoadRows(walk)))
<1> DEFINE all == LoadRows(walk)
           ByIds == {i \in DOMAIN all :
                       \E k \in DOMAIN c.ids : all[i] \in Matches(c.ids[k], all)}
           Kept(nightlyOnly, section) ==
             {i \in DOMAIN all : /\ nightlyOnly => all[i].nightly
                                 /\ section = NoSection \/ all[i].section = section}
<1> HIDE DEF all
<1>1. /\ all \in Seq(RowFiles) /\ ToSet(all) = RowFiles /\ ToSet(walk) = RowFiles
      /\ \A i, j \in DOMAIN all : i < j =>
           /\ all[i] # all[j]
           /\ SectionRank(all[i].section) <= SectionRank(all[j].section)
  BY LoadedRows DEF all
<1>2. \A i \in DOMAIN all : all[i] \in RowFiles
  BY <1>1
<1>3. \A f \in RowFiles : \E i \in DOMAIN all : all[i] = f
  BY <1>1 DEF ToSet
<1>4. \A f \in RowFiles : SectionRank(f.section) = Position(SectionOrder, f.section)
  <2>1. \A f \in RowFiles : f.section \in ToSet(SectionOrder)
    BY <1>1, ManifestAssumption DEF WellFormed, Id
  <2> QED
    BY <2>1 DEF ToSet, SectionRank
<1>5. \E D \in SUBSET DOMAIN all :
        /\ Selected(c, all) = Filtered(all, D)
        /\ \A i \in DOMAIN all : i \in D <=> Asked(c, all[i])
  <2>1. CASE c.tool = "readme"
    <3>1. Selected(c, all) = Filtered(all, Kept(TRUE, c.section))
      BY <2>1 DEF Selected, ListRows
    <3>2. \A i \in DOMAIN all : i \in Kept(TRUE, c.section) <=> Asked(c, all[i])
      BY <2>1 DEF Asked
    <3> QED
      BY <3>1, <3>2
  <2>2. CASE c.tool = "memory"
    <3>1. Selected(c, all) = Filtered(all, Kept(FALSE, "memory"))
      BY <2>2 DEF Selected, ListRows
    <3>2. \A i \in DOMAIN all : i \in Kept(FALSE, "memory") <=> Asked(c, all[i])
      BY <2>2 DEF Asked, NoSection
    <3> QED
      BY <3>1, <3>2
  <2>3. CASE c.tool = "daily" /\ c.ids # <<>>
    <3>1. Selected(c, all) = Filtered(all, ByIds)
      BY <2>3 DEF Selected
    <3>2. ASSUME NEW i \in DOMAIN all, NEW k \in DOMAIN c.ids
          PROVE  all[i] \in Matches(c.ids[k], all) <=>
                   IF c.ids[k].full THEN c.ids[k].id = Id(all[i])
                   ELSE {g \in RowFiles : g.key = c.ids[k].id[2]} = {all[i]}
      <4> DEFINE M == Matches(c.ids[k], all)
      <4>1. M = {f \in RowFiles : IF c.ids[k].full THEN Id(f) = c.ids[k].id
                                  ELSE f.key = c.ids[k].id[2]}
        BY <1>1 DEF Matches
      <4>2. Cardinality(M) = 1 /\ IsFiniteSet(M)
        <5>1. IsFiniteSet(RowFiles)
          BY ManifestAssumption, FS_Subset DEF RowFiles
        <5>2. M \in SUBSET RowFiles
          BY <4>1
        <5>3. IsFiniteSet(M)
          BY <5>1, <5>2, FS_Subset
        <5> QED
          BY <5>3 DEF Resolvable, all
      <4>3. \E x : M = {x}
        BY <4>2, FS_Singleton
      <4>4. all[i] \in RowFiles
        BY <1>2
      <4>5. CASE c.ids[k].full
        BY <4>1, <4>4, <4>5
      <4>6. CASE ~c.ids[k].full
        <5>1. M = {g \in RowFiles : g.key = c.ids[k].id[2]}
          BY <4>1, <4>6
        <5> QED
          BY <4>3, <4>6, <5>1
      <4> QED
        BY <4>5, <4>6
    <3>3. \A i \in DOMAIN all : i \in ByIds <=> Asked(c, all[i])
      BY <2>3, <3>2 DEF Asked
    <3> QED
      BY <3>1, <3>3
  <2>4. CASE c.tool = "daily" /\ c.ids = <<>> /\ c.section # NoSection
    <3>1. Selected(c, all) = Filtered(all, Kept(FALSE, c.section))
      BY <2>4 DEF Selected, ListRows
    <3>2. \A i \in DOMAIN all : i \in Kept(FALSE, c.section) <=> Asked(c, all[i])
      BY <2>4 DEF Asked
    <3> QED
      BY <3>1, <3>2
  <2>5. CASE c.tool = "daily" /\ c.ids = <<>> /\ c.section = NoSection
    <3>1. Selected(c, all) = Filtered(all, Kept(TRUE, NoSection))
      BY <2>5 DEF Selected, ListRows
    <3>2. \A i \in DOMAIN all : i \in Kept(TRUE, NoSection) <=> Asked(c, all[i])
      BY <2>5 DEF Asked
    <3> QED
      BY <3>1, <3>2
  <2> QED
    BY <2>1, <2>2, <2>3, <2>4, <2>5
<1>6. PICK D \in SUBSET DOMAIN all :
        /\ Selected(c, all) = Filtered(all, D)
        /\ \A i \in DOMAIN all : i \in D <=> Asked(c, all[i])
  BY <1>5
<1> DEFINE sel == Selected(c, all)
<1> HIDE DEF sel
<1>7. /\ sel \in Seq(RowFiles)
      /\ ToSet(sel) = {all[i] : i \in D}
      /\ \A k, l \in DOMAIN sel : k < l =>
           \E i, j \in DOMAIN all : i < j /\ sel[k] = all[i] /\ sel[l] = all[j]
  <2>1. sel = Filtered(all, D)
    BY <1>6 DEF sel
  <2> QED
    BY <1>1, <2>1, FilteredRows
<1>8. ToSet(sel) = {f \in RowFiles : Asked(c, f)}
  <2>1. {all[i] : i \in D} = {f \in RowFiles : Asked(c, f)}
    BY <1>2, <1>3, <1>6
  <2> QED
    BY <1>7, <2>1
<1>9. ASSUME NEW k \in DOMAIN sel, NEW l \in DOMAIN sel, k < l
      PROVE  /\ sel[k] # sel[l]
             /\ Position(SectionOrder, sel[k].section)
                  <= Position(SectionOrder, sel[l].section)
  <2>1. PICK i \in DOMAIN all, j \in DOMAIN all :
          i < j /\ sel[k] = all[i] /\ sel[l] = all[j]
    BY <1>7, <1>9
  <2> QED
    BY <1>1, <1>2, <1>4, <2>1
<1>10. Answers(c, sel)
  BY <1>8, <1>9 DEF Answers
<1> QED
  BY <1>7, <1>10 DEF sel, all

-----------------------------------------------------------------------------
(* What a step of one run does.                                            *)

\* It leaves the others as they are.
LEMMA OthersWait ==
  ASSUME Typed, NEW r \in Runs, Step(r), NEW q \in Runs \ {r}
  PROVE  /\ pc'[q] = pc[q] /\ cmd'[q] = cmd[q] /\ rows'[q] = rows[q]
         /\ measured'[q] = measured[q] /\ header'[q] = header[q]
         /\ written'[q] = written[q]
  BY DEF Step, Start, Load, Measure, MeasuredAll, CheckHeader, OpenCsv, Write,
         Kill, Goto, Typed

\* The writes of a run are lines of the file.
LEMMA OutputType ==
  ASSUME Typed, NEW r \in Runs
  PROVE  Output(r, written[r] + 1) \in Lines
<1>1. header[r] \in BOOLEAN /\ written[r] \in Nat
  BY DEF Typed
<1> QED
  BY <1>1 DEF Output, Header, RowWrite, Lines

\* Typed is kept.
LEMMA TypedKept ==
  ASSUME Typed, NEW r \in Runs, Step(r)
  PROVE  Typed'
<1> USE DEF Typed, Labels, Ended, Goto
<1>1. CASE Start(r)
  <2>1. PICK c \in Commands :
          /\ cmd' = [cmd EXCEPT ![r] = c]
          /\ \E l \in {"usage", "load"} : pc' = [pc EXCEPT ![r] = l]
    BY <1>1 DEF Start
  <2>2. /\ UNCHANGED <<files, rows, measured, header, written, exists, csv>>
        /\ overlapped' \in BOOLEAN
    BY <1>1 DEF Start
  <2> QED
    BY <2>1, <2>2
<1>2. CASE Load(r)
  <2>1. \E l \in {"panicked", "ok", "usage", "run"} : pc' = [pc EXCEPT ![r] = l]
    BY <1>2 DEF Load
  <2>2. DOMAIN rows' = DOMAIN rows
    BY <1>2 DEF Load
  <2>3. UNCHANGED <<files, cmd, measured, header, written, exists, csv, overlapped>>
    BY <1>2 DEF Load
  <2> QED
    BY <2>1, <2>2, <2>3
<1>3. CASE Measure(r)
  BY <1>3 DEF Measure
<1>4. CASE MeasuredAll(r)
  BY <1>4 DEF MeasuredAll
<1>5. CASE CheckHeader(r)
  BY <1>5 DEF CheckHeader
<1>6. CASE OpenCsv(r)
  BY <1>6 DEF OpenCsv
<1>7. CASE Write(r)
  <2>1. Append(csv, Output(r, written[r] + 1)) \in Seq(Lines)
    BY OutputType
  <2>2. csv' \in Seq(Lines)
    BY <1>7, <2>1 DEF Write
  <2>3. /\ \E l \in {"ok", "write", "panicked"} : pc' = [pc EXCEPT ![r] = l]
        /\ exists /\ exists'
        /\ UNCHANGED <<files, cmd, rows, measured, header, overlapped>>
    BY <1>7 DEF Write
  <2>4. written' \in [Runs -> Nat]
    BY <1>7 DEF Write
  <2> QED
    BY <2>2, <2>3, <2>4
<1>8. CASE Kill(r)
  BY <1>8 DEF Kill
<1> QED
  BY <1>1, <1>2, <1>3, <1>4, <1>5, <1>6, <1>7, <1>8 DEF Step

\* The file is appended to, by a run that writes.
LEMMA FileGrows ==
  ASSUME Typed, NEW r \in Runs, Step(r)
  PROVE  \/ csv' = csv /\ written' = written
         \/ /\ pc[r] = "write" /\ Write(r)
            /\ csv' = Append(csv, Output(r, written[r] + 1))
            /\ written' = [written EXCEPT ![r] = @ + 1]
  BY DEF Step, Start, Load, Measure, MeasuredAll, CheckHeader, OpenCsv, Write,
         Kill

\* A line more is at the end.
LEMMA OneMore ==
  ASSUME Typed, NEW x \in Lines, csv' = Append(csv, x)
  PROVE  /\ Len(csv) \in Nat /\ Len(csv') = Len(csv) + 1
         /\ DOMAIN csv = 1 .. Len(csv) /\ DOMAIN csv' = 1 .. Len(csv) + 1
         /\ csv'[Len(csv) + 1] = x /\ csv' # <<>>
         /\ \A i \in 1 .. Len(csv) : csv'[i] = csv[i]
  BY DEF Typed

-----------------------------------------------------------------------------
(* The rows a run has selected, and how far it is with them.               *)

\* A run that goes on from load has what its command asks for.
LEMMA LoadSelects ==
  ASSUME Typed, Sized, NEW r \in Runs, Load(r)
  PROVE  \/ /\ rows' = rows
            /\ \E l \in {"panicked", "ok", "usage"} :
                 /\ pc' = [pc EXCEPT ![r] = l]
                 /\ l = "ok" => cmd[r].tool = "list"
         \/ /\ pc' = [pc EXCEPT ![r] = "run"]
            /\ \E sel \in Seq(files) :
                 rows' = [rows EXCEPT ![r] = sel] /\ Answers(cmd[r], sel)
<1> DEFINE c == cmd[r]
<1>1. c \in Commands /\ c.tool \in {"daily", "list", "readme", "memory"}
  BY CommandsAssumption DEF Load, Sized
<1>2. PICK walk \in Walks :
        LET all == LoadRows(walk)
            sel == Selected(c, all)
        IN  IF \/ \E f \in ToSet(walk) : ~WellFormed(f)
               \/ \E i \in DOMAIN c.ids : ~Resolvable(c.ids[i], all)
              THEN Goto(r, "panicked") /\ UNCHANGED rows
            ELSE IF c.tool = "list" THEN Goto(r, "ok") /\ UNCHANGED rows
            ELSE IF sel = <<>> /\ c.tool = "daily"
              THEN Goto(r, "usage") /\ UNCHANGED rows
            ELSE rows' = [rows EXCEPT ![r] = sel] /\ Goto(r, "run")
  BY DEF Load
<1> DEFINE sel == Selected(c, LoadRows(walk))
           Wrong == \/ \E f \in ToSet(walk) : ~WellFormed(f)
                    \/ \E i \in DOMAIN c.ids : ~Resolvable(c.ids[i], LoadRows(walk))
<1>3. CASE Wrong \/ c.tool = "list"
  BY <1>2, <1>3 DEF Goto
<1>4. CASE ~Wrong /\ c.tool # "list"
  <2>1. sel \in Seq(RowFiles) /\ Answers(c, sel)
    BY <1>1, <1>4, SelectedRows DEF Typed
  <2>2. sel \in Seq(files)
    BY <2>1 DEF RowFiles
  <2>3. \/ Goto(r, "usage") /\ UNCHANGED rows
        \/ rows' = [rows EXCEPT ![r] = sel] /\ Goto(r, "run")
    BY <1>2, <1>4
  <2> HIDE DEF sel, c
  <2> QED
    BY <2>1, <2>2, <2>3 DEF Goto, c
<1> QED
  BY <1>3, <1>4

\* The rows make at least one write each.
LEMMA SomeWrites ==
  ASSUME Typed, Sized, NEW r \in Runs
  PROVE  /\ RowWrites(r) \in Nat /\ Writes(r) \in Nat
         /\ rows[r] # <<>> => Writes(r) # 0
<1>1. Len(rows[r]) \in Nat /\ (rows[r] # <<>> => Len(rows[r]) # 0)
  BY DEF Sized
<1>2. \A n, m \in Nat : n * m \in Nat /\ (n # 0 /\ m # 0 => n * m # 0)
  OBVIOUS
<1>3. RowWrites(r) \in Nat /\ (rows[r] # <<>> => RowWrites(r) # 0)
  BY <1>1, <1>2, RunsAssumption DEF RowWrites
<1> QED
  BY <1>3 DEF Writes

LEMMA SizedKept ==
  ASSUME Typed, Measured, Headed, Sized, NEW r \in Runs, Step(r)
  PROVE  Sized'
<1>1. files' = files
  BY DEF Step, Start, Load, Measure, MeasuredAll, CheckHeader, OpenCsv, Write,
         Kill
<1> DEFINE Own(q) ==
      /\ rows[q] \in Seq(files)
      /\ measured[q] \in 0 .. Len(rows[q])
      /\ written[q] \in 0 .. Writes(q)
      /\ pc[q] \in {"idle", "load"} => rows[q] = <<>> /\ measured[q] = 0
      /\ pc[q] = "write" => written[q] < Writes(q)
      /\ pc[q] # "idle" => cmd[q] \in Commands
      /\ pc[q] = "load" => cmd[q].tool # "unknown"
<1>2. ASSUME NEW q \in Runs \ {r} PROVE Own(q)'
  <2>1. Own(q)
    BY DEF Sized
  <2> QED
    BY <1>1, <2>1, OthersWait DEF Writes, RowWrites
<1>3. /\ Own(r) /\ RowWrites(r) \in Nat /\ Writes(r) \in Nat
      /\ rows[r] # <<>> => Writes(r) # 0
  BY SomeWrites DEF Sized
<1>4. pc \in [Runs -> Labels] /\ DOMAIN rows = Runs /\ DOMAIN measured = Runs
      /\ cmd \in [Runs -> Commands \cup {NoCommand}]
      /\ header \in [Runs -> BOOLEAN] /\ written \in [Runs -> Nat]
  BY DEF Typed
<1>5. Own(r)'
  <2>1. CASE Start(r)
    <3>1. PICK c \in Commands :
            /\ cmd' = [cmd EXCEPT ![r] = c]
            /\ Goto(r, IF c \in {[NoCommand EXCEPT !.tool = t] :
                                  t \in {"daily", "unknown"}}
                         THEN "usage" ELSE "load")
      BY <2>1 DEF Start
    <3>2. /\ pc[r] = "idle" /\ UNCHANGED <<rows, measured, written, header>>
          /\ pc'[r] \in {"usage", "load"} /\ cmd'[r] = c
          /\ pc'[r] = "load" => c.tool # "unknown"
      BY <1>4, <2>1, <3>1, CommandsAssumption DEF Start, Goto
    <3> QED
      BY <1>1, <1>3, <3>2 DEF Writes, RowWrites
  <2>2. CASE Load(r)
    <3>1. /\ pc[r] = "load" /\ UNCHANGED <<cmd, measured, written, header>>
          /\ pc'[r] \in {"panicked", "ok", "usage", "run"}
          /\ rows'[r] \in Seq(files)
      BY <1>3, <1>4, <2>2, LoadSelects DEF Load
    <3>2. measured[r] = 0 /\ written[r] = 0 /\ Len(rows'[r]) \in Nat
      BY <1>3, <3>1 DEF Headed
    <3>3. Writes(r)' \in Nat
      <4>1. \A n, m \in Nat : n * m \in Nat
        OBVIOUS
      <4> QED
        BY <3>2, <4>1, RunsAssumption DEF Writes, RowWrites
    <3> QED
      BY <1>1, <1>3, <3>1, <3>2, <3>3
  <2>3. CASE Measure(r)
    <3>1. /\ pc[r] = "run" /\ UNCHANGED <<cmd, rows, written, header>>
          /\ pc'[r] \in {"run", "panicked"}
          /\ measured[r] < Len(rows[r])
          /\ measured'[r] \in {measured[r], measured[r] + 1}
      BY <1>4, <2>3 DEF Measure, Goto
    <3> QED
      BY <1>1, <1>3, <3>1 DEF Writes, RowWrites
  <2>4. CASE MeasuredAll(r) \/ Kill(r)
    <3>1. /\ UNCHANGED <<cmd, rows, measured, written, header>>
          /\ pc'[r] \in {"check", "ok", "killed"} /\ pc[r] # "idle"
      BY <1>4, <2>4 DEF MeasuredAll, Kill, Goto
    <3> QED
      BY <1>1, <1>3, <3>1 DEF Writes, RowWrites
  <2>5. CASE CheckHeader(r)
    <3>1. /\ pc[r] = "check" /\ UNCHANGED <<cmd, rows, measured, written>>
          /\ pc'[r] = "open"
      BY <1>4, <2>5 DEF CheckHeader, Goto
    <3>2. written[r] = 0
      BY <3>1 DEF Headed
    <3>3. RowWrites(r)' = RowWrites(r)
      BY <3>1 DEF RowWrites
    <3>4. Writes(r)' \in Nat
      BY <1>3, <3>3 DEF Writes
    <3> QED
      BY <1>1, <1>3, <3>1, <3>2, <3>4
  <2>6. CASE OpenCsv(r)
    <3>1. /\ pc[r] = "open" /\ UNCHANGED <<cmd, rows, measured, written, header>>
          /\ pc'[r] \in {"write", "panicked"}
      BY <1>4, <2>6 DEF OpenCsv, Goto
    <3>2. rows[r] # <<>>
      BY <3>1 DEF Measured, Full
    <3>3. pc'[r] = "write" => written[r] < Writes(r)
      BY <1>3, <3>1, <3>2 DEF Headed
    <3> QED
      BY <1>1, <1>3, <3>1, <3>3 DEF Writes, RowWrites
  <2>7. CASE Write(r)
    <3>1. /\ pc[r] = "write" /\ UNCHANGED <<cmd, rows, measured, header>>
          /\ \/ pc'[r] = "panicked" /\ written' = written
             \/ /\ written'[r] = written[r] + 1
                /\ pc'[r] = IF written[r] + 1 = Writes(r) THEN "ok" ELSE "write"
      BY <1>4, <2>7 DEF Write, Goto
    <3>2. Writes(r)' = Writes(r)
      BY <3>1 DEF Writes, RowWrites
    <3> QED
      BY <1>1, <1>3, <3>1, <3>2
  <2> QED
    BY <2>1, <2>2, <2>3, <2>4, <2>5, <2>6, <2>7 DEF Step
<1> HIDE DEF Own
<1>6. \A q \in Runs : Own(q)'
  BY <1>2, <1>5
<1> QED
  BY <1>6 DEF Sized, Own

-----------------------------------------------------------------------------
(* The rows in the file.                                                   *)

LEMMA MeasuredKept ==
  ASSUME Typed, Measured, NEW r \in Runs, Step(r)
  PROVE  Measured'
<1> DEFINE Own == /\ pc'[r] = "run" /\ cmd'[r].tool = "daily" => rows'[r] # <<>>
                  /\ pc'[r] \in {"check", "open", "write"} => Full(r)'
           Past == pc[r] \notin {"idle", "load", "run"} =>
                     /\ pc'[r] \notin {"idle", "load", "run"}
                     /\ rows' = rows /\ measured' = measured
<1>1. Own /\ Past
  <2> USE DEF Typed, Goto, Full, Measured
  <2>1. CASE Start(r)
    <3>1. pc[r] = "idle" /\ \E l \in {"usage", "load"} :
                              pc' = [pc EXCEPT ![r] = l]
      BY <2>1 DEF Start
    <3> QED
      BY <3>1
  <2>2. CASE Load(r)
    <3>1. /\ pc[r] = "load" /\ cmd' = cmd
          /\ \/ \E l \in {"panicked", "ok", "usage"} : pc' = [pc EXCEPT ![r] = l]
             \/ /\ pc' = [pc EXCEPT ![r] = "run"]
                /\ \E sel : /\ rows' = [rows EXCEPT ![r] = sel]
                            /\ cmd[r].tool = "daily" => sel # <<>>
      BY <2>2 DEF Load
    <3>2. CASE pc' = [pc EXCEPT ![r] = "run"]
      BY <3>1, <3>2
    <3>3. CASE \E l \in {"panicked", "ok", "usage"} : pc' = [pc EXCEPT ![r] = l]
      BY <3>1, <3>3
    <3> QED
      BY <3>1, <3>2, <3>3
  <2>3. CASE Measure(r)
    BY <2>3 DEF Measure
  <2>4. CASE MeasuredAll(r)
    <3>1. cmd[r].csv => cmd[r].tool = "daily"
      BY CommandsAssumption DEF NoCommand
    <3> QED
      BY <2>4, <3>1 DEF MeasuredAll
  <2>5. CASE CheckHeader(r)
    BY <2>5 DEF CheckHeader
  <2>6. CASE OpenCsv(r)
    BY <2>6 DEF OpenCsv
  <2>7. CASE Write(r)
    <3>1. /\ pc[r] = "write" /\ rows' = rows /\ measured' = measured
          /\ \E l \in {"ok", "write", "panicked"} : pc' = [pc EXCEPT ![r] = l]
      BY <2>7 DEF Write
    <3> QED
      BY <3>1
  <2>8. CASE Kill(r)
    BY <2>8 DEF Kill, Ended
  <2> QED
    BY <2>1, <2>2, <2>3, <2>4, <2>5, <2>6, <2>7, <2>8 DEF Step
<1> HIDE DEF Own
<1>2. ASSUME NEW i \in DOMAIN csv', csv'[i].run = r
      PROVE  Full(r)' /\ pc'[r] \notin {"idle", "load", "run"}
  <2>1. Full(r) /\ pc[r] \notin {"idle", "load", "run"}
    <3>1. CASE csv' = csv
      BY <1>2, <3>1 DEF Measured
    <3>2. CASE pc[r] = "write"
      BY <3>2 DEF Measured
    <3> QED
      BY <3>1, <3>2, FileGrows
  <2> QED
    BY <1>1, <2>1 DEF Full
<1>3. ASSUME NEW q \in Runs \ {r}, NEW i \in DOMAIN csv', csv'[i].run = q
      PROVE  i \in DOMAIN csv /\ csv[i].run = q
  <2>1. CASE csv' = csv
    BY <1>3, <2>1
  <2>2. CASE csv' = Append(csv, Output(r, written[r] + 1))
    <3>1. Output(r, written[r] + 1).run # q
      BY RunsAssumption DEF Output, Header, RowWrite
    <3> QED
      BY <1>3, <2>2, <3>1, OneMore, OutputType
  <2> QED
    BY <2>1, <2>2, FileGrows
<1>4. ASSUME NEW q \in Runs \ {r}
      PROVE  /\ pc'[q] = "run" /\ cmd'[q].tool = "daily" => rows'[q] # <<>>
             /\ pc'[q] \in {"check", "open", "write"} => Full(q)'
             /\ \A i \in DOMAIN csv' : csv'[i].run = q =>
                  Full(q)' /\ pc'[q] \notin {"idle", "load", "run"}
  BY <1>3, <1>4, OthersWait DEF Measured, Full
<1> QED
  BY <1>1, <1>2, <1>4 DEF Measured, Own

\* What a command asks for depends on the manifest alone.
LEMMA SameAnswers ==
  ASSUME files' = files, NEW r \in Runs, Answers(cmd'[r], rows'[r])
  PROVE  Answers(cmd[r], rows[r])'
<1>1. RowFiles' = RowFiles
  BY DEF RowFiles
<1>2. \A f \in RowFiles : Asked(cmd[r], f)' <=> Asked(cmd'[r], f)
  BY <1>1 DEF Asked
<1> QED
  BY <1>1, <1>2 DEF Answers

LEMMA RequestedKept ==
  ASSUME Typed, Sized, RunsRequested, NEW r \in Runs, Step(r)
  PROVE  RunsRequested'
<1>1. files' = files
  BY DEF Step, Start, Load, Measure, MeasuredAll, CheckHeader, OpenCsv, Write,
         Kill
<1>3. ASSUME NEW q \in Runs \ {r}, rows'[q] # <<>>
      PROVE  Answers(cmd'[q], rows'[q])
  BY <1>3, OthersWait DEF RunsRequested
<1>4. ASSUME rows'[r] # <<>>
      PROVE  Answers(cmd'[r], rows'[r])
  <2>1. CASE Start(r)
    BY <1>4, <2>1 DEF Start, Sized
  <2>2. CASE Load(r)
    <3>1. cmd' = cmd /\ DOMAIN rows = Runs
      BY <2>2 DEF Load, Typed
    <3>2. CASE rows' = rows
      BY <1>4, <3>1, <3>2 DEF RunsRequested
    <3>3. CASE \E sel \in Seq(files) :
                 rows' = [rows EXCEPT ![r] = sel] /\ Answers(cmd[r], sel)
      BY <3>1, <3>3
    <3> QED
      BY <2>2, <3>2, <3>3, LoadSelects
  <2>3. CASE rows' = rows /\ cmd' = cmd
    BY <1>4, <2>3 DEF RunsRequested
  <2> QED
    BY <2>1, <2>2, <2>3
    DEF Step, Measure, MeasuredAll, CheckHeader, OpenCsv, Write, Kill
<1>5. \A q \in Runs : rows'[q] # <<>> => Answers(cmd'[q], rows'[q])
  BY <1>3, <1>4
<1> QED
  BY <1>1, <1>5, SameAnswers DEF RunsRequested

-----------------------------------------------------------------------------
(* The header.                                                             *)

LEMMA HeadedKept ==
  ASSUME Typed, Headed, NEW r \in Runs, Step(r)
  PROVE  Headed'
<1> USE DEF Typed, Goto, Opening
<1>1. CASE Start(r) \/ Load(r) \/ Measure(r) \/ MeasuredAll(r) \/ Kill(r)
  <2>1. /\ UNCHANGED <<csv, written, header>>
        /\ pc'[r] \in {"idle", "load", "run", "check", "open"} =>
             pc[r] \in {"idle", "load", "run", "check", "open"}
        /\ pc'[r] \notin {"open", "write"}
    <3>1. CASE Start(r)
      BY <3>1 DEF Start
    <3>2. CASE Load(r)
      BY <3>2 DEF Load
    <3>3. CASE Measure(r) \/ MeasuredAll(r) \/ Kill(r)
      BY <3>3 DEF Measure, MeasuredAll, Kill
    <3> QED
      BY <1>1, <3>1, <3>2, <3>3
  <2> QED
    BY <2>1, OthersWait DEF Headed
<1>2. CASE CheckHeader(r)
  BY <1>2, OthersWait DEF CheckHeader, Headed
<1>3. CASE OpenCsv(r)
  BY <1>3, OthersWait DEF OpenCsv, Headed
<1>4. CASE Write(r)
  <2>1. CASE csv' = csv /\ written' = written
    <3>1. pc'[r] \notin {"idle", "load", "run", "check", "open"} /\ pc[r] = "write"
      BY <1>4 DEF Write
    <3>2. header' = header
      BY <1>4 DEF Write
    <3> QED
      BY <2>1, <3>1, <3>2, OthersWait DEF Headed
  <2>2. CASE /\ csv' = Append(csv, Output(r, written[r] + 1))
             /\ pc[r] = "write"
    <3>1. csv' # <<>>
      BY <2>2, OneMore, OutputType
    <3>2. csv'[1] = Header
      <4>1. CASE csv = <<>>
        <5>1. Output(r, written[r] + 1) = Header
          BY <2>2, <4>1 DEF Headed, Output
        <5> QED
          BY <2>2, <4>1, <5>1
      <4>2. CASE csv # <<>>
        <5>1. Len(csv) # 0
          BY <4>2
        <5> QED
          BY <2>2, <4>2, <5>1, OneMore, OutputType DEF Headed
      <4> QED
        BY <4>1, <4>2
    <3>3. pc'[r] \notin {"idle", "load", "run", "check", "open"}
      BY <1>4 DEF Write
    <3> QED
      BY <3>1, <3>2, <3>3, OthersWait DEF Headed
  <2> QED
    BY <2>1, <2>2, FileGrows
<1> QED
  BY <1>1, <1>2, <1>3, <1>4 DEF Step

\* With one run at a time, whoever is to write the header finds the file empty.
LEMMA AloneKept ==
  ASSUME Typed, Headed, Alone, NEW r \in Runs, Step(r)
  PROVE  Alone'
<1> SUFFICES ASSUME ~overlapped'
             PROVE  /\ \A q, p \in Runs : Active(q)' /\ Active(p)' => q = p
                    /\ \A i \in 2 .. Len(csv') : csv'[i] # Header
                    /\ \A q \in Runs :
                         Opening(q)' /\ header'[q] /\ written'[q] = 0
                           => csv' = <<>>
  BY DEF Alone
<1> USE DEF Typed, Goto, Opening, Active, Ended
<1>1. /\ ~overlapped
      /\ \A q \in Runs : Active(q) => q = r
  <2>1. CASE Start(r)
    BY <2>1 DEF Start
  <2>2. CASE ~Start(r)
    <3>1. overlapped' = overlapped /\ Active(r)
      BY <2>2
      DEF Step, Load, Measure, MeasuredAll, CheckHeader, OpenCsv, Write, Kill
    <3> QED
      BY <3>1 DEF Alone
  <2> QED
    BY <2>1, <2>2
<1>2. \A q, p \in Runs : Active(q)' /\ Active(p)' => q = p
  BY <1>1, OthersWait
<1>3. \A q \in Runs \ {r} : ~Opening(q)'
  BY <1>1, OthersWait
<1>4. /\ \A i \in 2 .. Len(csv) : csv[i] # Header
      /\ Opening(r) /\ header[r] /\ written[r] = 0 => csv = <<>>
  BY <1>1 DEF Alone
<1>5. \A i \in 2 .. Len(csv') : csv'[i] # Header
  <2>1. CASE csv' = Append(csv, Output(r, written[r] + 1)) /\ pc[r] = "write"
    <3>1. CASE csv = <<>>
      BY <2>1, <3>1
    <3>2. CASE csv # <<>>
      <4>1. ~(header[r] /\ written[r] = 0)
        BY <1>4, <2>1, <3>2
      <4>2. Output(r, written[r] + 1) # Header
        BY <4>1, RunsAssumption DEF Output, Header, RowWrite
      <4> QED
        BY <1>4, <2>1, <4>2, OneMore, OutputType
    <3> QED
      BY <3>1, <3>2
  <2> QED
    BY <1>4, <2>1, FileGrows
<1>6. ASSUME Opening(r)', header'[r], written'[r] = 0
      PROVE  csv' = <<>>
  <2>1. CASE CheckHeader(r)
    <3>1. csv = <<>> /\ csv' = csv
      BY <1>6, <2>1 DEF CheckHeader
    <3> QED
      BY <3>1
  <2>2. CASE OpenCsv(r)
    BY <1>4, <1>6, <2>2 DEF OpenCsv
  <2>3. CASE Write(r)
    <3>1. csv' = csv /\ written' = written /\ header' = header
      BY <1>6, <2>3 DEF Write
    <3> QED
      BY <1>4, <1>6, <2>3, <3>1 DEF Write
  <2>4. ~Start(r) /\ ~Load(r) /\ ~Measure(r) /\ ~MeasuredAll(r) /\ ~Kill(r)
    <3>1. ~Start(r)
      BY <1>6 DEF Start
    <3>2. ~Load(r)
      BY <1>6 DEF Load
    <3> QED
      BY <1>6, <3>1, <3>2 DEF Measure, MeasuredAll, Kill
  <2> QED
    BY <2>1, <2>2, <2>3, <2>4 DEF Step
<1> QED
  BY <1>2, <1>3, <1>5, <1>6

-----------------------------------------------------------------------------
(* What a run has written is in the file.                                  *)

\* What a step does to the writes of rows: there is one more, or none.
LEMMA SentGrows ==
  ASSUME Typed, Headed, Sized, NEW r \in Runs, Step(r)
  PROVE  /\ Sent(r) \in Nat
         /\ \/ Sent(r)' = Sent(r) /\ csv' = csv
            \/ Sent(r)' = Sent(r) /\ csv' = Append(csv, Header)
            \/ /\ Sent(r)' = Sent(r) + 1
               /\ csv' = Append(csv, RowWrite(r, Sent(r) + 1))
<1>1. header[r] \in BOOLEAN /\ written[r] \in Nat
  BY DEF Typed
<1>2. CASE Write(r) /\ csv' = Append(csv, Output(r, written[r] + 1))
           /\ written' = [written EXCEPT ![r] = @ + 1]
  <2>1. header'[r] = header[r] /\ written'[r] = written[r] + 1
    BY <1>2 DEF Write, Typed
  <2> QED
    BY <1>1, <1>2, <2>1 DEF Output, Sent
<1>3. CASE csv' = csv /\ written' = written
  <2>1. header'[r] = header[r] \/ written[r] = 0
    BY DEF Step, Start, Load, Measure, MeasuredAll, CheckHeader, OpenCsv, Write,
           Kill, Headed
  <2> QED
    BY <1>1, <1>3, <2>1 DEF Sent
<1> QED
  BY <1>1, <1>2, <1>3, FileGrows DEF Sent

LEMMA DeliveredKept ==
  ASSUME Typed, Headed, Sized, Delivered, NEW r \in Runs, Step(r)
  PROVE  Delivered'
<1> DEFINE New == RowWrite(r, Sent(r) + 1)
<1>1. /\ csv \in Seq(Lines) /\ Len(csv) \in Nat /\ DOMAIN csv = 1 .. Len(csv)
      /\ \A q \in Runs : Sent(q) \in Nat
      /\ Header \in Lines /\ New \in Lines
  BY SentGrows DEF Typed, Sent, Lines, Header, RowWrite
<1>2. ASSUME NEW x \in Lines, csv' = Append(csv, x)
      PROVE  /\ DOMAIN csv' = 1 .. Len(csv) + 1
             /\ csv'[Len(csv) + 1] = x
             /\ \A i \in 1 .. Len(csv) : csv'[i] = csv[i]
  BY <1>2, OneMore
<1>3. Header.run \notin Runs /\ New.run = r /\ New.write = Sent(r) + 1
  BY RunsAssumption DEF Header, RowWrite
<1>4. /\ Sent(r) \in Nat
      /\ \/ Sent(r)' = Sent(r) /\ csv' = csv
         \/ Sent(r)' = Sent(r) /\ csv' = Append(csv, Header)
         \/ Sent(r)' = Sent(r) + 1 /\ csv' = Append(csv, New)
  BY SentGrows
<1>5. \A q \in Runs \ {r} : Sent(q)' = Sent(q)
  BY OthersWait DEF Sent
<1>6. ASSUME NEW q \in Runs
      PROVE  /\ \A k \in 1 .. Sent(q) :
                  \E i \in DOMAIN csv : csv[i] = RowWrite(q, k)
             /\ \A i \in DOMAIN csv : csv[i].run = q => csv[i].write <= Sent(q)
             /\ \A i, j \in DOMAIN csv :
                  i < j /\ csv[i].run = q /\ csv[j].run = q =>
                    csv[i].write < csv[j].write
  BY DEF Delivered
<1> DEFINE Past(q) ==
      /\ \A k \in 1 .. Sent(q)' :
           \E i \in DOMAIN csv' : csv'[i] = RowWrite(q, k)
      /\ \A i \in DOMAIN csv' : csv'[i].run = q => csv'[i].write <= Sent(q)'
      /\ \A i, j \in DOMAIN csv' :
           i < j /\ csv'[i].run = q /\ csv'[j].run = q =>
             csv'[i].write < csv'[j].write
<1>7. ASSUME NEW q \in Runs PROVE Past(q)
  <2> HIDE DEF New
  <2>0. Sent(q) \in Nat /\ \A i \in DOMAIN csv : csv[i].write \in Nat
    <3>1. \A x \in Lines : x.write \in Nat
      BY DEF Lines
    <3>2. \A i \in DOMAIN csv : csv[i] \in Lines
      BY <1>1
    <3> QED
      BY <1>1, <3>1, <3>2
  <2>1. CASE Sent(q)' = Sent(q) /\ csv' = csv
    BY <1>6, <2>1
  <2>2. ASSUME NEW x \in Lines, csv' = Append(csv, x), x.run # q,
               Sent(q)' = Sent(q)
        PROVE  Past(q)
    <3>1. \A i \in DOMAIN csv' : csv'[i].run = q =>
            i \in DOMAIN csv /\ csv'[i] = csv[i]
      BY <1>1, <1>2, <2>2
    <3>2. \A i \in DOMAIN csv : i \in DOMAIN csv' /\ csv'[i] = csv[i]
      BY <1>1, <1>2, <2>2
    <3> QED
      BY <1>6, <2>2, <3>1, <3>2
  <2>3. CASE q = r /\ Sent(q)' = Sent(q) + 1 /\ csv' = Append(csv, New)
    <3>1. /\ DOMAIN csv' = 1 .. Len(csv) + 1
          /\ csv'[Len(csv) + 1] = New
          /\ \A i \in 1 .. Len(csv) : csv'[i] = csv[i]
      BY <1>1, <1>2, <2>3
    <3>2. ASSUME NEW k \in 1 .. Sent(q)'
          PROVE  \E i \in DOMAIN csv' : csv'[i] = RowWrite(q, k)
      <4>1. CASE k = Sent(q) + 1
        BY <1>1, <2>3, <3>1, <4>1 DEF New
      <4>2. CASE k \in 1 .. Sent(q)
        BY <1>1, <1>6, <3>1, <4>2
      <4> QED
        BY <2>0, <2>3, <4>1, <4>2
    <3>3. ASSUME NEW i \in DOMAIN csv', csv'[i].run = q
          PROVE  csv'[i].write <= Sent(q)'
      <4>1. CASE i = Len(csv) + 1
        BY <1>3, <2>0, <2>3, <3>1, <4>1
      <4>2. CASE i \in DOMAIN csv
        <5>1. csv[i].write <= Sent(q) /\ csv'[i] = csv[i]
          BY <1>1, <1>6, <3>1, <3>3, <4>2
        <5> QED
          BY <2>0, <2>3, <4>2, <5>1
      <4> QED
        BY <1>1, <3>1, <4>1, <4>2
    <3>4. ASSUME NEW i \in DOMAIN csv', NEW j \in DOMAIN csv', i < j,
                 csv'[i].run = q, csv'[j].run = q
          PROVE  csv'[i].write < csv'[j].write
      <4>1. i \in DOMAIN csv /\ csv'[i] = csv[i]
        BY <1>1, <3>1, <3>4
      <4>2. CASE j = Len(csv) + 1
        <5>1. csv[i].write <= Sent(q)
          BY <1>6, <3>4, <4>1
        <5>2. csv'[j].write = Sent(q) + 1
          BY <1>3, <2>3, <3>1, <4>2
        <5> QED
          BY <2>0, <4>1, <5>1, <5>2
      <4>3. CASE j \in DOMAIN csv
        <5>1. csv'[j] = csv[j]
          BY <1>1, <3>1, <4>3
        <5> QED
          BY <1>6, <3>4, <4>1, <4>3, <5>1
      <4> QED
        BY <1>1, <3>1, <4>2, <4>3
    <3> QED
      BY <3>2, <3>3, <3>4
  <2> QED
    BY <1>1, <1>3, <1>4, <1>5, <2>1, <2>2, <2>3
<1>8. ASSUME NEW q \in Runs, pc'[q] = "ok", cmd'[q].csv
      PROVE  written'[q] = Writes(q)'
  <2> USE DEF Typed, Goto
  <2>1. CASE q # r
    <3>1. Writes(q)' = Writes(q)
      BY <2>1, OthersWait DEF Writes, RowWrites
    <3> QED
      BY <1>8, <2>1, <3>1, OthersWait DEF Delivered
  <2>2. CASE q = r /\ Write(r)
    <3>1. Writes(q)' = Writes(q)
      BY <2>2 DEF Write, Writes, RowWrites
    <3> QED
      BY <1>8, <2>2, <3>1 DEF Write
  <2>3. \/ /\ ~Start(r) /\ ~Measure(r) /\ ~CheckHeader(r)
           /\ ~OpenCsv(r) /\ ~Kill(r)
        \/ q # r
    <3>1. ~Start(r) \/ q # r
      BY <1>8 DEF Start
    <3> QED
      BY <1>8, <3>1 DEF Measure, CheckHeader, OpenCsv, Kill
  <2>4. ~MeasuredAll(r) \/ q # r
    BY <1>8 DEF MeasuredAll
  <2>5. ~Load(r) \/ q # r
    <3> SUFFICES ASSUME Load(r), q = r PROVE FALSE
      OBVIOUS
    <3>1. cmd[r] \in Commands /\ cmd' = cmd
      BY DEF Load, Sized
    <3>2. cmd[r].tool = "list"
      BY <1>8, LoadSelects
    <3> QED
      BY <1>8, <3>1, <3>2, CommandsAssumption
  <2> QED
    BY <2>1, <2>2, <2>3, <2>4, <2>5 DEF Step
<1> QED
  BY <1>7, <1>8 DEF Delivered, RowWrite

-----------------------------------------------------------------------------
(* The theorems.                                                           *)

LEMMA InitInv == Init => IInv
<1> SUFFICES ASSUME Init PROVE IInv
  OBVIOUS
<1>1. csv \in Seq(Lines)
  <2>1. Header \in Lines /\ OldLine \in Lines
    BY DEF Header, OldLine, Lines
  <2>2. <<>> \in Seq(Lines) /\ <<Header, OldLine>> \in Seq(Lines)
    BY <2>1
  <2>3. csv = <<>> \/ csv = <<Header, OldLine>>
    BY DEF Init
  <2> QED
    BY <2>2, <2>3
<1>2. Typed
  BY <1>1 DEF Init, Typed, Labels
<1>3. \A i \in DOMAIN csv : csv[i] \in {Header, OldLine}
  BY DEF Init
<1>4. Measured
  BY <1>3, RunsAssumption DEF Init, Measured, Header, OldLine
<1>5. Headed
  BY DEF Init, Headed, Opening
<1>6. \A i \in 2 .. Len(csv) : csv[i] # Header
  BY DEF Init, Header, OldLine
<1>7. Alone
  BY <1>6 DEF Init, Alone, Active, Opening
<1>8. Sized /\ RunsRequested
  <2>1. \A r \in Runs : rows[r] = <<>> /\ measured[r] = 0 /\ written[r] = 0
                         /\ pc[r] = "idle" /\ Writes(r) = 0
    BY RunsAssumption DEF Init, Writes, RowWrites
  <2>2. <<>> \in Seq(files) /\ Len(<<>>) = 0
    OBVIOUS
  <2>3. ASSUME NEW r \in Runs
        PROVE  /\ rows[r] \in Seq(files) /\ measured[r] \in 0 .. Len(rows[r])
               /\ written[r] \in 0 .. Writes(r)
    <3>1. rows[r] \in Seq(files) /\ Len(rows[r]) = 0
      BY <2>1, <2>2
    <3>2. 0 \in 0 .. 0
      OBVIOUS
    <3> QED
      BY <2>1, <3>1, <3>2
  <2>4. Sized
    BY <2>1, <2>3 DEF Sized
  <2>5. RunsRequested
    BY <2>1 DEF RunsRequested
  <2> QED
    BY <2>4, <2>5
<1>9. Delivered
  <2>1. \A r \in Runs : Sent(r) = 0 /\ pc[r] = "idle"
    BY DEF Init, Sent
  <2>2. \A i \in DOMAIN csv : csv[i].run \notin Runs
    BY <1>3, RunsAssumption DEF Header, OldLine
  <2> QED
    BY <2>1, <2>2 DEF Delivered
<1> QED
  BY <1>2, <1>4, <1>5, <1>7, <1>8, <1>9 DEF IInv

LEMMA NextInv == IInv /\ [Next]_vars => IInv'
<1> SUFFICES ASSUME IInv, [Next]_vars PROVE IInv'
  OBVIOUS
<1>1. ASSUME NEW r \in Runs, Step(r) PROVE IInv'
  BY <1>1, TypedKept, MeasuredKept, HeadedKept, AloneKept, SizedKept,
     RequestedKept, DeliveredKept
  DEF IInv
<1>2. CASE UNCHANGED vars
  <2>1. (Typed /\ Measured /\ Headed /\ Alone)'
    BY <1>2 DEF vars, IInv, Typed, Measured, Full, Headed, Alone, Active, Opening
  <2>2. Sized'
    BY <1>2 DEF vars, IInv, Sized, Writes, RowWrites
  <2>3. RunsRequested'
    BY <1>2, SameAnswers DEF vars, IInv, RunsRequested
  <2>4. Delivered'
    BY <1>2 DEF vars, IInv, Delivered, Sent, Writes, RowWrites
  <2> QED
    BY <2>1, <2>2, <2>3, <2>4 DEF IInv
<1> QED
  BY <1>1, <1>2 DEF Next, Finished

\* Every variable keeps its type, and no run measures or writes more than it
\* has (daily.rs).
THEOREM TypeCorrect == Spec => []TypeOK
<1>1. IInv => TypeOK
  BY DEF IInv, Typed, Sized, TypeOK
<1> QED
  BY <1>1, InitInv, NextInv, PTL DEF Spec

\* Whatever the manifest holds, in whatever order the directories are read, a
\* run measures just the rows its command line asks for, once each and section
\* by section, or none (manifest.rs load_rows, list_rows, resolve_ids; cmd_run
\* of daily.rs, readme.rs and memory.rs).
THEOREM SelectionIsRight == Spec => []RunsRequested
<1>1. IInv => RunsRequested
  BY DEF IInv
<1> QED
  BY <1>1, InitInv, NextInv, PTL DEF Spec

\* All lines of a run that ended well are in the CSV file, in their order, no
\* matter what other runs wrote in between (daily.rs 222-258).
THEOREM NothingLost == Spec => []FinishedRunComplete
<1>1. ASSUME IInv PROVE FinishedRunComplete
  <2> SUFFICES ASSUME NEW r \in Runs, pc[r] = "ok", cmd[r].csv
               PROVE  Sent(r) = RowWrites(r)
    BY <1>1 DEF IInv, Delivered, FinishedRunComplete
  <2>1. written[r] = Writes(r) /\ header[r] \in BOOLEAN /\ RowWrites(r) \in Nat
    BY <1>1, SomeWrites DEF IInv, Delivered, Typed
  <2> QED
    BY <2>1 DEF Writes, Sent
<1> QED
  BY <1>1, InitInv, NextInv, PTL DEF Spec

\* Whatever runs overlap, fail or are killed, and wherever: a file that is not
\* empty starts with the header, and when runs follow each other it is the only
\* one (daily.rs 222-245).
THEOREM HeaderIsFirst == Spec => []HeaderFirst
<1>1. IInv => HeaderFirst
  BY DEF IInv, Typed, Headed, Alone, HeaderFirst
<1> QED
  BY <1>1, InitInv, NextInv, PTL DEF Spec

\* No row is in the file of a run that has not measured all it selected
\* (daily.rs 170-175 and 247-258).
THEOREM OnlyFullRunsWrite == Spec => []RowsOnlyOfFullRuns
<1>1. IInv => RowsOnlyOfFullRuns
  BY DEF IInv, Measured, Full, RowsOnlyOfFullRuns
<1> QED
  BY <1>1, InitInv, NextInv, PTL DEF Spec
=============================================================================
