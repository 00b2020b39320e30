------------------------ MODULE LatencySampler_proofs ------------------------
(***************************************************************************)
(* Proofs about RandomWalk and LatencySampler, for every number of entries *)
(* and every shuffle, every command line, any times and any number of      *)
(* samples and buckets: the walk visits every entry once a pass, the one   *)
(* of the memory probe is such a walk, how the command ends tells what it  *)
(* did, and the percentiles and the histogram tell of all samples.         *)
(***************************************************************************)
EXTENDS LatencySampler, FiniteSetTheorems, WellFoundedInduction, TLAPS

-----------------------------------------------------------------------------
(* The walk.  EachPassOnce says nothing of the chain, and is not inductive.*)
(* What is: the shuffle keeps pages a permutation, the links made so far   *)
(* join neighbours of it, and the trail follows it from where it started.  *)

\* The shuffled indices are a permutation of the entries.
Permuted ==
  /\ \A i, j \in Walk!Entries : pages[i] = pages[j] => i = j
  /\ \A e \in Walk!Entries : \E i \in Walk!Entries : pages[i] = e

\* The place in the shuffled order that follows place j.
After(j) == IF j = n - 1 THEN 0 ELSE j + 1

\* The chain leads from each place of the order to the one after it, as far
\* as it is built.
Linked ==
  /\ stage \in {"none", "shuffle", "scan"} => linked = 0
  /\ stage = "link" =>
       /\ n >= 2 /\ linked <= n - 1
       /\ \A j \in 0 .. linked - 1 : next[pages[j]] = pages[j + 1]
  /\ stage = "chase" =>
       n >= 2 /\ \A j \in Walk!Entries : next[pages[j]] = pages[After(j)]

\* The trail is the order: a scan takes it from place 0, a chase from place 1,
\* for it starts on place 0.
Followed ==
  /\ stage \in {"none", "shuffle", "link"} => trail = <<>>
  /\ stage \in {"scan", "chase"} => n >= 1
  /\ stage = "scan" => \A k \in 1 .. Len(trail) : trail[k] = pages[k - 1]
  /\ stage = "chase" =>
       /\ index = pages[IF Len(trail) = n THEN 0 ELSE Len(trail)]
       /\ \A k \in 1 .. Len(trail) : trail[k] = pages[IF k = n THEN 0 ELSE k]

\* A walk that is being shuffled has entries.
Filled == stage \in {"shuffle", "link"} => n >= 1 /\ left <= n - 1

WalkInv == Walk!TypeOK /\ Permuted /\ Linked /\ Followed /\ Filled

\* Before there is a walk nothing is to be visited.
LEMMA WalkInitInv == Walk!Init => WalkInv
  BY DEF Walk!Init, WalkInv, Walk!TypeOK, Permuted, Linked, Followed, Filled,
         Walk!Entries

\* A new walk is the identity, which is a permutation.
LEMMA WalkNewInv ==
  ASSUME WalkInv, NEW entries \in Sizes, Walk!New(entries)
  PROVE  WalkInv'
<1>1. /\ entries \in Nat /\ entries >= 1
      /\ stage = "none" /\ stage' = "shuffle" /\ n' = entries
      /\ pages' = [e \in 0 .. entries - 1 |-> e] /\ left' = entries - 1
      /\ UNCHANGED <<linked, next, index, trail>>
  BY SamplerAssumption DEF Walk!New
<1>2. Walk!Entries' = 0 .. entries - 1
  BY <1>1 DEF Walk!Entries
<1>3. linked = 0 /\ trail = <<>> /\ next = <<>> /\ index \in Nat
  BY <1>1 DEF WalkInv, Walk!TypeOK, Linked, Followed
<1>4. Walk!TypeOK'
  BY <1>1, <1>2, <1>3 DEF Walk!TypeOK
<1>5. Permuted'
  BY <1>1, <1>2 DEF Permuted
<1> QED
  BY <1>1, <1>3, <1>4, <1>5 DEF WalkInv, Linked, Followed, Filled

\* The exchange of two places of a permutation makes another one.
LEMMA WalkSwapInv == WalkInv /\ Walk!Swap => WalkInv'
<1> SUFFICES ASSUME WalkInv, Walk!Swap PROVE WalkInv'
  OBVIOUS
<1>1. /\ stage = "shuffle" /\ left > 0 /\ left' = left - 1
      /\ UNCHANGED <<stage, n, linked, next, index, trail>>
  BY DEF Walk!Swap
<1>2. PICK p \in 0 .. left :
        pages' = [pages EXCEPT ![left] = pages[p], ![p] = pages[left]]
  BY DEF Walk!Swap
<1>3. /\ n \in Nat /\ left \in Walk!Entries /\ p \in Walk!Entries
      /\ Walk!Entries' = Walk!Entries
      /\ pages \in [Walk!Entries -> Walk!Entries]
  <2>1. n \in Nat /\ left \in 0 .. n - 1
    BY <1>1 DEF WalkInv, Walk!TypeOK, Filled
  <2>2. p \in 0 .. n - 1
    BY <1>2, <2>1
  <2> QED
    BY <1>1, <2>1, <2>2 DEF WalkInv, Walk!TypeOK, Walk!Entries
<1>4. \A i \in Walk!Entries :
        pages'[i] = pages[IF i = p THEN left ELSE IF i = left THEN p ELSE i]
  BY <1>2, <1>3
<1>5. pages' \in [Walk!Entries -> Walk!Entries]
  BY <1>2, <1>3
<1>6. Permuted'
  <2>1. ASSUME NEW i \in Walk!Entries, NEW j \in Walk!Entries,
               pages'[i] = pages'[j]
        PROVE  i = j
    BY <1>3, <1>4, <2>1 DEF WalkInv, Permuted
  <2>2. ASSUME NEW e \in Walk!Entries
        PROVE  \E i \in Walk!Entries : pages'[i] = e
    <3>1. PICK i \in Walk!Entries : pages[i] = e
      BY <2>2 DEF WalkInv, Permuted
    <3>2. pages'[IF i = p THEN left ELSE IF i = left THEN p ELSE i] = e
      BY <1>3, <1>4, <3>1
    <3> QED
      BY <1>3, <3>1, <3>2
  <2> QED
    BY <1>3, <2>1, <2>2 DEF Permuted
<1>7. Walk!TypeOK'
  BY <1>1, <1>3, <1>5 DEF WalkInv, Walk!TypeOK, Filled
<1> QED
  BY <1>1, <1>6, <1>7 DEF WalkInv, Walk!TypeOK, Linked, Followed, Filled

\* The chain starts with no link.
LEMMA WalkStartLinksInv == WalkInv /\ Walk!StartLinks => WalkInv'
<1> SUFFICES ASSUME WalkInv, Walk!StartLinks PROVE WalkInv'
  OBVIOUS
<1>1. /\ stage = "shuffle" /\ n >= 2 /\ stage' = "link"
      /\ next' = [e \in Walk!Entries |-> 0]
      /\ UNCHANGED <<n, pages, left, linked, index, trail>>
  BY DEF Walk!StartLinks, Walk!Shuffled
<1>2. linked = 0 /\ trail = <<>> /\ n \in Nat /\ Walk!Entries' = Walk!Entries
  BY <1>1 DEF WalkInv, Walk!TypeOK, Linked, Followed, Walk!Entries
<1>3. next' \in [Walk!Entries -> Walk!Entries]
  BY <1>1, <1>2 DEF Walk!Entries
<1>4. Walk!TypeOK'
  BY <1>1, <1>2, <1>3 DEF WalkInv, Walk!TypeOK
<1>5. Permuted'
  BY <1>1, <1>2 DEF WalkInv, Permuted
<1> QED
  BY <1>1, <1>2, <1>4, <1>5 DEF WalkInv, Linked, Followed, Filled

\* A link joins two neighbours, and none of those made before changes, since
\* no place of the order is that of another entry.
LEMMA WalkLinkInv == WalkInv /\ Walk!Link => WalkInv'
<1> SUFFICES ASSUME WalkInv, Walk!Link PROVE WalkInv'
  OBVIOUS
<1>1. /\ stage = "link" /\ linked < n - 1
      /\ next' = [next EXCEPT ![pages[linked]] = pages[linked + 1]]
      /\ linked' = linked + 1
      /\ UNCHANGED <<stage, n, pages, left, index, trail>>
  BY DEF Walk!Link
<1>2. /\ n \in Nat /\ linked \in Walk!Entries /\ linked + 1 \in Walk!Entries
      /\ Walk!Entries' = Walk!Entries
      /\ pages \in [Walk!Entries -> Walk!Entries]
      /\ next \in [Walk!Entries -> Walk!Entries]
  <2>1. n \in Nat /\ linked \in 0 .. n - 1 /\ linked + 1 \in 0 .. n - 1
    BY <1>1 DEF WalkInv, Walk!TypeOK
  <2> QED
    BY <1>1, <2>1 DEF WalkInv, Walk!TypeOK, Walk!Entries
<1>3. next' \in [Walk!Entries -> Walk!Entries]
  BY <1>1, <1>2
<1>4. ASSUME NEW j \in 0 .. linked
      PROVE  next'[pages[j]] = pages[j + 1]
  <2>1. j \in Walk!Entries /\ pages[j] \in Walk!Entries
    BY <1>2 DEF Walk!Entries
  <2>2. CASE j = linked
    BY <1>1, <1>2, <2>1, <2>2
  <2>3. CASE j # linked
    <3>1. j \in 0 .. linked - 1
      BY <1>2, <2>3 DEF Walk!Entries
    <3>2. next[pages[j]] = pages[j + 1]
      BY <1>1, <3>1 DEF WalkInv, Linked
    <3>3. pages[j] # pages[linked]
      BY <1>2, <2>1, <2>3 DEF WalkInv, Permuted
    <3> QED
      BY <1>1, <1>2, <2>1, <3>2, <3>3
  <2> QED
    BY <2>2, <2>3
<1>5. Linked'
  BY <1>1, <1>2, <1>4 DEF WalkInv, Linked, Walk!Entries
<1>6. Walk!TypeOK'
  <2>1. linked' \in 0 .. n'
    BY <1>1, <1>2 DEF Walk!Entries
  <2> QED
    BY <1>1, <1>2, <1>3, <2>1 DEF WalkInv, Walk!TypeOK
<1>7. Permuted'
  BY <1>1, <1>2 DEF WalkInv, Permuted
<1> QED
  BY <1>1, <1>5, <1>6, <1>7 DEF WalkInv, Followed, Filled

\* The last link makes the chain one cycle, on whose first place the probe is.
LEMMA WalkCloseChainInv == WalkInv /\ Walk!CloseChain => WalkInv'
<1> SUFFICES ASSUME WalkInv, Walk!CloseChain PROVE WalkInv'
  OBVIOUS
<1>1. /\ stage = "link" /\ linked = n - 1 /\ linked' = n
      /\ next' = [next EXCEPT ![pages[n - 1]] = pages[0]]
      /\ index' = pages[0] /\ stage' = "chase"
      /\ UNCHANGED <<n, pages, left, trail>>
  BY DEF Walk!CloseChain
<1>2. /\ n \in Nat /\ n >= 2 /\ 0 \in Walk!Entries /\ n - 1 \in Walk!Entries
      /\ Walk!Entries' = Walk!Entries
      /\ pages \in [Walk!Entries -> Walk!Entries]
      /\ next \in [Walk!Entries -> Walk!Entries] /\ trail = <<>>
  <2>1. n \in Nat /\ n >= 2 /\ trail = <<>>
    BY <1>1 DEF WalkInv, Walk!TypeOK, Linked, Followed
  <2>2. /\ pages \in [Walk!Entries -> Walk!Entries]
        /\ next \in [Walk!Entries -> Walk!Entries]
    BY <1>1 DEF WalkInv, Walk!TypeOK
  <2>3. /\ 0 \in Walk!Entries /\ n - 1 \in Walk!Entries
        /\ Walk!Entries' = Walk!Entries
    BY <1>1, <2>1 DEF Walk!Entries
  <2> QED
    BY <2>1, <2>2, <2>3
<1>3. next' \in [Walk!Entries -> Walk!Entries] /\ pages[0] \in Walk!Entries
  BY <1>1, <1>2
<1>4. ASSUME NEW j \in Walk!Entries
      PROVE  next'[pages[j]] = pages[After(j)]
  <2>1. pages[j] \in Walk!Entries
    BY <1>2
  <2>2. CASE j = n - 1
    BY <1>1, <1>2, <2>1, <2>2 DEF After
  <2>3. CASE j # n - 1
    <3>1. j \in 0 .. linked - 1
      BY <1>1, <1>2, <2>3 DEF Walk!Entries
    <3>2. next[pages[j]] = pages[j + 1]
      BY <1>1, <3>1 DEF WalkInv, Linked
    <3>3. pages[j] # pages[n - 1]
      BY <1>2, <2>1, <2>3 DEF WalkInv, Permuted
    <3> QED
      BY <1>1, <1>2, <2>1, <2>3, <3>2, <3>3 DEF After
  <2> QED
    BY <2>2, <2>3
<1>5. Linked'
  BY <1>1, <1>2, <1>4 DEF Linked, After
<1>6. Walk!TypeOK'
  <2>1. linked' \in 0 .. n' /\ index' \in Nat /\ index' \in Walk!Entries
    BY <1>1, <1>2, <1>3 DEF Walk!Entries
  <2> QED
    BY <1>1, <1>2, <1>3, <2>1 DEF WalkInv, Walk!TypeOK
<1>7. Permuted'
  BY <1>1, <1>2 DEF WalkInv, Permuted
<1>8. Followed'
  BY <1>1, <1>2 DEF Followed
<1> QED
  BY <1>1, <1>5, <1>6, <1>7, <1>8 DEF WalkInv, Filled

\* What a visit makes of the trail.
LEMMA TrailOfVisit ==
  ASSUME n \in Nat, n >= 1, trail \in Seq(Walk!Entries), Len(trail) <= n,
         NEW e \in Walk!Entries, Walk!Visit(e)
  PROVE  /\ trail' \in Seq(Walk!Entries) /\ Len(trail') <= n
         /\ Len(trail') = (IF Len(trail) = n THEN 1 ELSE Len(trail) + 1)
         /\ trail'[Len(trail')] = e
         /\ \A k \in 1 .. Len(trail') - 1 : trail'[k] = trail[k]
  BY DEF Walk!Visit

\* A load leads from the place the probe is at to the one after it.
LEMMA WalkChaseInv == WalkInv /\ Walk!Chase => WalkInv'
<1> SUFFICES ASSUME WalkInv, Walk!Chase PROVE WalkInv'
  OBVIOUS
<1>1. /\ stage = "chase" /\ index' = next[index] /\ Walk!Visit(next[index])
      /\ UNCHANGED <<stage, n, pages, left, linked, next>>
  BY DEF Walk!Chase
<1> DEFINE p == IF Len(trail) = n THEN 0 ELSE Len(trail)
<1>2. /\ n \in Nat /\ n >= 2 /\ trail \in Seq(Walk!Entries) /\ Len(trail) <= n
      /\ Walk!Entries' = Walk!Entries
      /\ pages \in [Walk!Entries -> Walk!Entries]
      /\ index = pages[p] /\ p \in Walk!Entries /\ After(p) \in Walk!Entries
      /\ next \in [Walk!Entries -> Walk!Entries]
  <2>1. n \in Nat /\ n >= 2 /\ trail \in Seq(Walk!Entries) /\ Len(trail) <= n
    BY <1>1 DEF WalkInv, Walk!TypeOK, Linked
  <2>2. p \in 0 .. n - 1 /\ After(p) \in 0 .. n - 1
    BY <2>1 DEF After
  <2>3. index = pages[p]
    BY <1>1 DEF WalkInv, Followed
  <2> QED
    BY <1>1, <2>1, <2>2, <2>3 DEF WalkInv, Walk!TypeOK, Walk!Entries
<1>3. next[index] = pages[After(p)] /\ next[index] \in Walk!Entries
  BY <1>1, <1>2 DEF WalkInv, Linked
<1>4. /\ trail' \in Seq(Walk!Entries) /\ Len(trail') <= n
      /\ Len(trail') = (IF Len(trail) = n THEN 1 ELSE Len(trail) + 1)
      /\ trail'[Len(trail')] = pages[After(p)]
      /\ \A k \in 1 .. Len(trail') - 1 : trail'[k] = trail[k]
  BY <1>1, <1>2, <1>3, TrailOfVisit
<1>5. After(p) = (IF Len(trail') = n THEN 0 ELSE Len(trail'))
  BY <1>2, <1>4 DEF After
<1>6. Followed'
  <2>1. ASSUME NEW k \in 1 .. Len(trail')
        PROVE  trail'[k] = pages[IF k = n THEN 0 ELSE k]
    <3>1. CASE k = Len(trail')
      BY <1>4, <1>5, <3>1
    <3>2. CASE k # Len(trail')
      <4>1. k \in 1 .. Len(trail') - 1 /\ k \in 1 .. Len(trail)
        BY <1>2, <1>4, <3>2
      <4> QED
        BY <1>1, <1>4, <4>1 DEF WalkInv, Followed
    <3> QED
      BY <3>1, <3>2
  <2> QED
    BY <1>1, <1>2, <1>3, <1>5, <2>1 DEF Followed
<1>7. Walk!TypeOK'
  <2>1. index' \in Nat /\ index' \in Walk!Entries
    BY <1>1, <1>2, <1>3 DEF Walk!Entries
  <2> QED
    BY <1>1, <1>2, <1>4, <2>1 DEF WalkInv, Walk!TypeOK
<1>8. Permuted' /\ Linked' /\ Filled'
  BY <1>1, <1>2 DEF WalkInv, Permuted, Linked, Filled, After
<1> QED
  BY <1>6, <1>7, <1>8 DEF WalkInv

\* The benchmarks start to walk with nothing visited.
LEMMA WalkKeepOrderInv == WalkInv /\ Walk!KeepOrder => WalkInv'
<1> SUFFICES ASSUME WalkInv, Walk!KeepOrder PROVE WalkInv'
  OBVIOUS
<1>1. /\ stage = "shuffle" /\ stage' = "scan"
      /\ UNCHANGED <<n, pages, left, linked, next, index, trail>>
  BY DEF Walk!KeepOrder, Walk!Shuffled
<1>2. Walk!Entries' = Walk!Entries /\ trail = <<>> /\ n >= 1 /\ linked = 0
  BY <1>1 DEF WalkInv, Linked, Followed, Filled, Walk!Entries
<1>3. Walk!TypeOK' /\ Permuted'
  BY <1>1, <1>2 DEF WalkInv, Walk!TypeOK, Permuted
<1> QED
  BY <1>1, <1>2, <1>3 DEF WalkInv, Linked, Followed, Filled

\* An access of a pass visits the next place of the order.
LEMMA WalkAccessInv == WalkInv /\ Walk!Access => WalkInv'
<1> SUFFICES ASSUME WalkInv, Walk!Access PROVE WalkInv'
  OBVIOUS
<1> DEFINE p == IF Len(trail) = n THEN 0 ELSE Len(trail)
<1>1. /\ stage = "scan" /\ Walk!Visit(pages[p])
      /\ UNCHANGED <<stage, n, pages, left, linked, next, index>>
  BY DEF Walk!Access
<1>2. /\ n \in Nat /\ n >= 1 /\ trail \in Seq(Walk!Entries) /\ Len(trail) <= n
      /\ Walk!Entries' = Walk!Entries
      /\ pages \in [Walk!Entries -> Walk!Entries]
      /\ p \in Walk!Entries /\ pages[p] \in Walk!Entries
  <2>1. n \in Nat /\ n >= 1 /\ trail \in Seq(Walk!Entries) /\ Len(trail) <= n
    BY <1>1 DEF WalkInv, Walk!TypeOK, Followed
  <2>2. p \in 0 .. n - 1
    BY <2>1
  <2> QED
    BY <1>1, <2>1, <2>2 DEF WalkInv, Walk!TypeOK, Walk!Entries
<1>3. /\ trail' \in Seq(Walk!Entries) /\ Len(trail') <= n
      /\ Len(trail') = (IF Len(trail) = n THEN 1 ELSE Len(trail) + 1)
      /\ trail'[Len(trail')] = pages[p]
      /\ \A k \in 1 .. Len(trail') - 1 : trail'[k] = trail[k]
  BY <1>1, <1>2, TrailOfVisit
<1>4. p = Len(trail') - 1
  BY <1>2, <1>3
<1>5. Followed'
  <2>1. ASSUME NEW k \in 1 .. Len(trail')
        PROVE  trail'[k] = pages[k - 1]
    <3>1. CASE k = Len(trail')
      BY <1>3, <1>4, <3>1
    <3>2. CASE k # Len(trail')
      <4>1. k \in 1 .. Len(trail') - 1 /\ k \in 1 .. Len(trail)
        BY <1>2, <1>3, <3>2
      <4> QED
        BY <1>1, <1>3, <4>1 DEF WalkInv, Followed
    <3> QED
      BY <3>1, <3>2
  <2> QED
    BY <1>1, <1>2, <2>1 DEF Followed
<1>6. Walk!TypeOK'
  BY <1>1, <1>2, <1>3 DEF WalkInv, Walk!TypeOK
<1>7. Permuted' /\ Linked' /\ Filled'
  BY <1>1, <1>2 DEF WalkInv, Permuted, Linked, Filled
<1> QED
  BY <1>5, <1>6, <1>7 DEF WalkInv

\* Every step keeps the invariant.
LEMMA WalkNextInv ==
  ASSUME WalkInv, [Walk!Next]_walk
  PROVE  WalkInv'
<1>1. CASE UNCHANGED walk
  BY <1>1 DEF walk, WalkInv, Walk!TypeOK, Permuted, Linked, Followed, Filled,
              Walk!Entries, After
<1>2. CASE \E entries \in Sizes : Walk!New(entries)
  BY <1>2, WalkNewInv
<1>3. CASE Walk!Build
  BY <1>3, WalkSwapInv, WalkStartLinksInv, WalkLinkInv, WalkCloseChainInv
     DEF Walk!Build
<1>4. CASE Walk!Benchmark
  BY <1>4, WalkSwapInv, WalkKeepOrderInv, WalkAccessInv DEF Walk!Benchmark
<1> QED
  BY <1>1, <1>2, <1>3, <1>4, WalkChaseInv DEF Walk!Next

\* The trail takes no place of the order twice, and all of them in n visits.
LEMMA WalkInvEachPassOnce == WalkInv => Walk!EachPassOnce
<1> SUFFICES ASSUME WalkInv PROVE Walk!EachPassOnce
  OBVIOUS
<1> DEFINE At(k) == IF stage = "scan" THEN k - 1 ELSE IF k = n THEN 0 ELSE k
<1>1. /\ n \in Nat /\ DOMAIN trail = 1 .. Len(trail) /\ Len(trail) <= n
      /\ Len(trail) \in Nat
  BY DEF WalkInv, Walk!TypeOK
<1>2. CASE trail = <<>>
  <2>1. n = 0 => Walk!Entries = {}
    BY DEF Walk!Entries
  <2> QED
    BY <1>1, <1>2, <2>1 DEF Walk!EachPassOnce
<1>3. CASE trail # <<>>
  <2>1. stage \in {"scan", "chase"} /\ n >= 1
    BY <1>3 DEF WalkInv, Walk!TypeOK, Followed
  <2>2. \A k \in 1 .. Len(trail) :
          At(k) \in Walk!Entries /\ trail[k] = pages[At(k)]
    <3>1. \A k \in 1 .. Len(trail) : At(k) \in 0 .. n - 1
      BY <1>1, <2>1
    <3>2. CASE stage = "scan"
      BY <3>1, <3>2 DEF WalkInv, Followed, Walk!Entries
    <3>3. CASE stage = "chase"
      BY <3>1, <3>3 DEF WalkInv, Followed, Walk!Entries
    <3> QED
      BY <2>1, <3>2, <3>3
  <2>3. \A j, k \in 1 .. Len(trail) : At(j) = At(k) => j = k
    BY <1>1
  <2>4. \A j, k \in DOMAIN trail : trail[j] = trail[k] => j = k
    BY <1>1, <2>2, <2>3 DEF WalkInv, Permuted
  <2>5. ASSUME Len(trail) = n, NEW e \in Walk!Entries
        PROVE  \E k \in DOMAIN trail : trail[k] = e
    <3>1. PICK i \in Walk!Entries : pages[i] = e
      BY <2>5 DEF WalkInv, Permuted
    <3>2. PICK k \in 1 .. n : At(k) = i
      <4> DEFINE k == IF stage = "scan" THEN i + 1 ELSE IF i = 0 THEN n ELSE i
      <4>1. k \in 1 .. n /\ At(k) = i
        BY <1>1, <2>1, <3>1 DEF Walk!Entries
      <4> QED
        BY <4>1
    <3> QED
      BY <1>1, <2>2, <2>5, <3>1, <3>2
  <2> QED
    BY <2>4, <2>5 DEF Walk!EachPassOnce
<1> QED
  BY <1>2, <1>3

\* Every walk keeps its types.
THEOREM WalkTypeCorrect == Walk!Spec => []Walk!TypeOK
<1>1. WalkInv => Walk!TypeOK
  BY DEF WalkInv
<1>2. WalkInv /\ [Walk!Next]_walk => WalkInv'
  BY WalkNextInv
<1> QED
  BY WalkInitInv, <1>1, <1>2, PTL DEF Walk!Spec, walk, Walk!vars

\* "each pass touches every line exactly once" (memory.rs:277), and the chain
\* of memory_random is one cycle through all entries (latency.rs:309-313): for
\* every number of entries and every shuffle.
THEOREM EachPassTouchesAll == Walk!Spec => []Walk!EachPassOnce
<1>1. WalkInv /\ [Walk!Next]_walk => WalkInv'
  BY WalkNextInv
<1> QED
  BY WalkInitInv, <1>1, WalkInvEachPassOnce, PTL DEF Walk!Spec, walk, Walk!vars

-----------------------------------------------------------------------------
(* The walk of the command.                                                *)

\* Every step of the command is a step of the walk or leaves it alone.
LEMMA WalkSteps == [Next]_vars => [Walk!Next]_walk
<1> SUFFICES ASSUME [Next]_vars
             PROVE  Walk!Next \/ UNCHANGED walk
  OBVIOUS
<1>1. CASE MakeProbe
  <2>1. CASE \E entries : Walk!New(entries)
    BY <2>1 DEF Walk!New, Walk!Next
  <2> QED
    BY <1>1, <2>1 DEF MakeProbe
<1>2. CASE BuildChain
  BY <1>2 DEF BuildChain, Walk!Next
<1>3. CASE RunOnce
  BY <1>3 DEF RunOnce, Walk!Next
<1>4. CASE \/ ParseArg \/ CheckOptions \/ MeasureOverhead \/ ProbeFails
           \/ AllocFails \/ PrintSummary \/ PrintHistogram \/ CreateCsv
           \/ WriteCsv
  BY <1>4 DEF ParseArg, CheckOptions, MeasureOverhead, ProbeFails, AllocFails,
              PrintSummary, PrintHistogram, CreateCsv, WriteCsv
<1>5. CASE UNCHANGED vars
  BY <1>5 DEF vars
<1> QED
  BY <1>1, <1>2, <1>3, <1>4, <1>5 DEF Next, Finished

\* The loads of memory_random visit every entry once before any of them twice,
\* for every size and every shuffle (latency.rs 309-319 and 331-334).
THEOREM ChainIsOneCycle == Spec => []EachPassOnce
<1>1. Init => WalkInv
  BY WalkInitInv DEF Init
<1>2. WalkInv /\ [Next]_vars => WalkInv'
  BY WalkSteps, WalkNextInv
<1>3. WalkInv => EachPassOnce
  BY WalkInvEachPassOnce DEF EachPassOnce
<1> QED
  BY <1>1, <1>2, <1>3, PTL DEF Spec

-----------------------------------------------------------------------------
(* How the command ends.  EndTellsResult is not inductive: that nothing is  *)
(* divided by zero comes from the options, and what the file has from the  *)
(* samples, which were there before it.                                    *)

\* Where the command is once it has a probe, with samples to take or taken.
Taken == {"histogram", "create", "write"}
Probing == {"build", "overhead", "sample"} \cup Taken

EInv ==
  /\ EndTellsResult
  /\ \E S : raw \in Seq(S)
  /\ pc \in {"make"} \cup Probing => OptionsHold
  /\ pc \in Probing => batch # 0
  /\ pc \in Taken => Len(raw) = config.samples
  /\ pc \in {"parse", "make", "build", "overhead", "sample", "histogram",
             "create"} => csv = OldCsv
  /\ pc = "write" => /\ csv = SubSeq(Table, 1, Len(csv))
                     /\ \E S : csv \in Seq(S)
                     /\ Len(csv) < Len(Table)

\* The table is the header and a line for each sample.
LEMMA TableSeq ==
  ASSUME NEW S, raw \in Seq(S)
  PROVE  /\ Table \in Seq({Table[k] : k \in 1 .. Len(raw) + 1})
         /\ Len(Table) = Len(raw) + 1 /\ Len(raw) \in Nat
<1> DEFINE lines == [k \in DOMAIN raw |-> Line("sample", raw[k], Adjusted[k])]
           T == {Line("header", 0, 0)} \cup {lines[k] : k \in DOMAIN raw}
<1>1. Len(raw) \in Nat /\ DOMAIN raw = 1 .. Len(raw)
  OBVIOUS
<1>2. lines \in Seq(T) /\ Len(lines) = Len(raw)
  BY <1>1
<1>3. <<Line("header", 0, 0)>> \in Seq(T)
  OBVIOUS
<1>4. Table \in Seq(T) /\ Len(Table) = Len(raw) + 1
  <2> HIDE DEF lines, T
  <2> QED
    BY <1>2, <1>3 DEF Table, lines
<1> QED
  BY <1>1, <1>4

\* Every step keeps it.
LEMMA EInvKept == EInv /\ [Next]_vars => EInv'
<1> SUFFICES ASSUME EInv, [Next]_vars PROVE EInv'
  OBVIOUS
<1>1. CASE ParseArg
  <2>1. /\ pc = "parse" /\ pc' \in {"parse", "help", "error"}
        /\ UNCHANGED <<raw, csv>>
    BY <1>1 DEF ParseArg, Goto
  <2> QED
    BY <2>1 DEF EInv, EndTellsResult, Probing, Taken
<1>2. CASE CheckOptions
  BY <1>2 DEF CheckOptions, Goto, EInv, EndTellsResult, Probing, Taken,
              OptionsHold
<1>3. CASE MakeProbe
  <2>1. /\ pc = "make" /\ UNCHANGED <<config, raw, csv>>
        /\ pc' \in {"overhead", "build", "error"}
    BY <1>3 DEF MakeProbe, Goto
  <2>2. pc' # "error" => batch' # 0
    <3>1. \A p \in {"getpid", "stat", "memory", "tcp"} : DefaultBatch[p] # 0
      BY SamplerAssumption
    <3>2. config.batch # 0
      BY <2>1 DEF EInv, OptionsHold
    <3> QED
      BY <1>3, <3>1, <3>2 DEF MakeProbe, Goto
  <2> QED
    BY <2>1, <2>2 DEF EInv, EndTellsResult, Probing, Taken, OptionsHold
<1>4. CASE BuildChain
  <2>1. /\ pc = "build" /\ pc' \in {"overhead", "build"}
        /\ UNCHANGED <<config, batch, raw, csv>>
    BY <1>4 DEF BuildChain, Goto
  <2> QED
    BY <2>1 DEF EInv, EndTellsResult, Probing, Taken, OptionsHold
<1>5. CASE MeasureOverhead
  <2>1. /\ pc = "overhead" /\ pc' = "sample"
        /\ UNCHANGED <<config, batch, raw, csv>>
    BY <1>5 DEF MeasureOverhead, Goto, EInv, Probing
  <2> QED
    BY <2>1 DEF EInv, EndTellsResult, Probing, Taken, OptionsHold
<1>6. CASE RunOnce
  <2>1. /\ pc = "sample" /\ UNCHANGED <<pc, config, batch, csv>>
        /\ raw' = raw \/ \E t \in Elapsed : raw' = Append(raw, PerOp(t))
    BY <1>6 DEF RunOnce
  <2>2. \E S : raw' \in Seq(S)
    <3>1. PICK S : raw \in Seq(S)
      BY DEF EInv
    <3>2. ASSUME NEW x, raw' = Append(raw, x) PROVE raw' \in Seq(S \cup {x})
      <4>1. raw \in Seq(S \cup {x})
        BY <3>1
      <4> QED
        BY <3>2, <4>1
    <3> QED
      BY <2>1, <3>1, <3>2
  <2> QED
    BY <2>1, <2>2 DEF EInv, EndTellsResult, Probing, Taken, OptionsHold
<1>7. CASE ProbeFails
  <2>1. /\ pc = "sample" /\ pc' = "probePanic"
        /\ UNCHANGED <<config, raw, csv>>
    BY <1>7 DEF ProbeFails, Goto
  <2> QED
    BY <2>1 DEF EInv, EndTellsResult, Probing, Taken
<1>8. CASE PrintSummary
  <2>1. /\ pc = "sample" /\ pc' = "histogram" /\ Len(raw) = config.samples
        /\ UNCHANGED <<config, batch, raw, csv>>
    BY <1>8 DEF PrintSummary, Goto
  <2> QED
    BY <2>1 DEF EInv, EndTellsResult, Probing, Taken, OptionsHold
<1>9. CASE PrintHistogram
  <2>1. /\ pc = "histogram" /\ UNCHANGED <<config, batch, raw, csv>>
        /\ OptionsHold /\ Len(raw) = config.samples /\ csv = OldCsv
    BY <1>9 DEF PrintHistogram, EInv, Probing, Taken
  <2>2. {Adjusted[k] : k \in DOMAIN Adjusted} # {}
    <3>1. Len(raw) # 0 /\ \E S : raw \in Seq(S)
      BY <2>1 DEF OptionsHold, EInv
    <3>2. 1 \in DOMAIN raw
      BY <3>1
    <3> QED
      BY <3>2 DEF Adjusted
  <2>3. pc' = IF config.csv THEN "create" ELSE "ok"
    BY <1>9, <2>1, <2>2 DEF PrintHistogram, Goto, OptionsHold
  <2> QED
    BY <2>1, <2>3 DEF EInv, EndTellsResult, Probing, Taken, OptionsHold
<1>10. CASE CreateCsv
  <2>1. /\ pc = "create" /\ UNCHANGED <<config, batch, raw, overhead>>
        /\ \/ csv' = <<>> /\ pc' = "write"
           \/ pc' = "error" /\ csv' = csv
    BY <1>10 DEF CreateCsv, Goto
  <2>2. CASE csv' = <<>> /\ pc' = "write"
    <3>1. PICK S : raw \in Seq(S)
      BY DEF EInv
    <3>2. Table' = Table
      BY <2>1 DEF Table, Adjusted
    <3>3. Len(Table) = Len(raw) + 1 /\ Len(raw) \in Nat
      BY <3>1, TableSeq
    <3>4. csv' = SubSeq(Table, 1, Len(csv')) /\ Len(csv') < Len(Table)
      BY <2>2, <3>1, <3>3, TableSeq
    <3>5. csv' \in Seq({})
      BY <2>2
    <3> QED
      BY <2>1, <2>2, <3>2, <3>4, <3>5
      DEF EInv, EndTellsResult, Probing, Taken, OptionsHold
  <2>3. CASE pc' = "error" /\ csv' = csv
    BY <2>1, <2>3 DEF EInv, EndTellsResult, Probing, Taken
  <2> QED
    BY <2>1, <2>2, <2>3
<1>11. CASE WriteCsv
  <2>1. /\ pc = "write" /\ UNCHANGED <<config, batch, raw, overhead>>
        /\ \/ /\ csv' = Append(csv, Table[Len(csv) + 1])
              /\ pc' = IF Len(csv) + 1 = Len(Table) THEN "ok" ELSE "write"
           \/ pc' = "error" /\ csv' \in {csv, Append(csv, CutLine)}
    BY <1>11 DEF WriteCsv, Goto
  <2>2. /\ csv = SubSeq(Table, 1, Len(csv)) /\ Len(csv) < Len(Table)
        /\ Len(raw) = config.samples
    BY <2>1 DEF EInv, Taken
  <2>3. PICK S : raw \in Seq(S)
    BY DEF EInv
  <2>4. PICK R : csv \in Seq(R)
    BY <2>1 DEF EInv
  <2>5. Table' = Table
    BY <2>1 DEF Table, Adjusted
  <2>6. CASE /\ csv' = Append(csv, Table[Len(csv) + 1])
             /\ pc' = IF Len(csv) + 1 = Len(Table) THEN "ok" ELSE "write"
    <3> DEFINE T == {Table[k] : k \in 1 .. Len(raw) + 1}
    <3>1. Table \in Seq(T) /\ Len(csv) \in Nat /\ Len(Table) \in Nat
      BY <2>3, <2>4, TableSeq
    <3> HIDE DEF T
    <3>2. csv \in Seq(T) /\ Table[Len(csv) + 1] \in T
      BY <2>2, <3>1
    <3>3. csv' = SubSeq(Table, 1, Len(csv')) /\ Len(csv') = Len(csv) + 1
      <4>1. csv' \in Seq(T) /\ Len(csv') = Len(csv) + 1
        BY <2>6, <3>2
      <4>2. \A k \in 1 .. Len(csv) : csv[k] = Table[k]
        BY <2>2, <3>1, <3>2
      <4>3. \A k \in 1 .. Len(csv') : csv'[k] = Table[k]
        BY <2>6, <3>1, <3>2, <4>1, <4>2
      <4> QED
        BY <2>2, <3>1, <4>1, <4>3
    <3>4. Len(csv') = Len(Table) => csv' = Table
      BY <3>1, <3>3
    <3>5. /\ pc' = "write" => Len(csv') < Len(Table)
          /\ pc' = "ok" => Len(csv') = Len(Table)
          /\ pc' \in {"ok", "write"}
      <4>1. Len(csv) + 1 # Len(Table) => Len(csv') < Len(Table)
        BY <2>2, <3>1, <3>3
      <4> QED
        BY <2>6, <3>3, <4>1
    <3>6. \E Q : csv' \in Seq(Q)
      BY <2>6, <3>2
    <3> QED
      BY <2>1, <2>2, <2>5, <3>3, <3>4, <3>5, <3>6
      DEF EInv, EndTellsResult, Probing, Taken, OptionsHold
  <2>7. CASE pc' = "error" /\ csv' = csv
    BY <2>1, <2>2, <2>5, <2>7 DEF EInv, EndTellsResult, Probing, Taken
  <2>8. CASE pc' = "error" /\ csv' = Append(csv, CutLine)
    <3>1. Len(csv') - 1 = Len(csv)
      <4>1. csv \in Seq(R \cup {CutLine}) /\ Len(csv) \in Nat
        BY <2>4
      <4>2. Len(csv') = Len(csv) + 1
        BY <2>8, <4>1
      <4> QED
        BY <4>1, <4>2
    <3>2. csv' = Append(SubSeq(Table', 1, Len(csv') - 1), CutLine)
      BY <2>2, <2>5, <2>8, <3>1
    <3> QED
      BY <2>1, <2>2, <2>3, <2>8, <3>2 DEF EInv, EndTellsResult, Probing, Taken
  <2> QED
    BY <2>1, <2>6, <2>7, <2>8
<1>12. CASE UNCHANGED vars
  <2>1. UNCHANGED <<config, pc, batch, overhead, raw, csv>>
    BY <1>12 DEF vars, sampler
  <2>2. Table' = Table
    BY <2>1 DEF Table, Adjusted
  <2> QED
    BY <2>1, <2>2 DEF EInv, EndTellsResult, OptionsHold
<1>13. CASE AllocFails
  <2>1. /\ pc \in {"make", "build", "overhead", "sample", "histogram"}
        /\ pc' = "allocPanic"
        /\ UNCHANGED <<config, raw, csv>>
    BY <1>13 DEF AllocFails, Goto
  <2> QED
    BY <2>1 DEF EInv, EndTellsResult, Probing, Taken
<1> QED
  BY <1>1, <1>2, <1>3, <1>4, <1>5, <1>6, <1>7, <1>8, <1>9, <1>10, <1>11, <1>12,
     <1>13
  DEF Next, Finished

\* For every command line and every failure of the probe or the file: options
\* that were let through end in no division by zero and no index out of bounds;
\* a success with --csv wrote a line for every sample; and a file is touched
\* only when all samples are there (latency.rs 156-167, 238, 545-558).
THEOREM EndAlwaysTells == Spec => []EndTellsResult
<1>1. Init => EInv
  <2>1. Init => raw = <<>>
    BY DEF Init
  <2>2. <<>> \in Seq({})
    OBVIOUS
  <2> QED
    BY <2>1, <2>2 DEF Init, EInv, EndTellsResult, Probing, Taken
<1>2. EInv => EndTellsResult
  BY DEF EInv
<1> QED
  BY <1>1, <1>2, EInvKept, PTL DEF Spec

-----------------------------------------------------------------------------
(* Natural numbers and their powers.  There is no induction over an         *)
(* operator here: what holds for every number is a set that has them all.  *)

\* A set of natural numbers has a least one.
LEMMA LeastNatural ==
  ASSUME NEW T \in SUBSET Nat, T # {}
  PROVE  \E m \in T : \A k \in T : m <= k
<1>1. PICK m \in T : \A k \in T : ~(<<k, m>> \in OpToRel(<, Nat))
  <2>1. \E x \in T : \A y \in T : ~(<<y, x>> \in OpToRel(<, Nat))
    BY WFMin, NatLessThanWellFounded
  <2> QED
    BY <2>1
<1>2. \A k \in T : ~(k < m)
  BY <1>1 DEF OpToRel
<1> QED
  BY <1>2

\* A finite one has a greatest: above it there are the fewest.
LEMMA GreatestNatural ==
  ASSUME NEW T \in SUBSET Nat, T # {}, IsFiniteSet(T)
  PROVE  \E m \in T : \A k \in T : k <= m
<1> DEFINE Above(x) == {y \in T : x < y}
           counts == {Cardinality(Above(x)) : x \in T}
<1>1. \A x \in T : IsFiniteSet(Above(x)) /\ Cardinality(Above(x)) \in Nat
  BY FS_Subset, FS_CardinalityType
<1>2. PICK c \in counts : \A d \in counts : c <= d
  <2>1. counts \in SUBSET Nat /\ counts # {}
    BY <1>1
  <2> HIDE DEF counts
  <2> QED
    BY <2>1, LeastNatural
<1>3. PICK m \in T : c = Cardinality(Above(m))
  OBVIOUS
<1>4. ASSUME NEW k \in T, m < k
      PROVE  FALSE
  <2>1. Above(k) \in SUBSET (Above(m) \ {k}) /\ k \in Above(m)
    <3>1. m \in Nat /\ k \in Nat
      OBVIOUS
    <3>2. \A y \in T : k < y => m < y /\ y # k
      BY <1>4, <3>1
    <3> QED
      BY <1>4, <3>2
  <2>2. /\ IsFiniteSet(Above(m) \ {k})
        /\ Cardinality(Above(m) \ {k}) = Cardinality(Above(m)) - 1
    <3>1. IsFiniteSet(Above(m)) /\ k \in Above(m)
      BY <1>1, <2>1
    <3> HIDE DEF Above
    <3> QED
      BY <3>1, FS_RemoveElement
  <2>3. Cardinality(Above(k)) <= Cardinality(Above(m) \ {k})
    <3> HIDE DEF Above
    <3> QED
      BY <2>1, <2>2, FS_Subset
  <2>4. c <= Cardinality(Above(k))
    BY <1>2
  <2> HIDE DEF Above
  <2> QED
    BY <1>1, <1>3, <2>2, <2>3, <2>4
<1> QED
  BY <1>4

\* A set that has 0 and the successors of what it has, has every number.
LEMMA AllNaturals ==
  ASSUME NEW T, 0 \in T, \A k \in Nat : k \in T => k + 1 \in T
  PROVE  \A k \in Nat : k \in T
<1> SUFFICES ASSUME Nat \ T # {} PROVE FALSE
  OBVIOUS
<1>1. PICK m \in Nat \ T : \A k \in Nat \ T : m <= k
  BY LeastNatural
<1>2. m # 0 /\ m - 1 \in Nat
  BY <1>1
<1>3. m - 1 \in T
  BY <1>1, <1>2
<1> QED
  BY <1>1, <1>2, <1>3

\* The recursion has a solution: those of its finite parts, put together.
LEMMA PowerDefined ==
  ASSUME NEW x \in Nat
  PROVE  \E f \in [Nat -> Nat] :
           f = [i \in Nat |-> IF i = 0 THEN 1 ELSE x * f[i - 1]]
<1> DEFINE Part(m, g) == /\ g \in [0 .. m -> Nat] /\ g[0] = 1
                         /\ \A i \in 1 .. m : g[i] = x * g[i - 1]
           Parts == {m \in Nat : \E g : Part(m, g)}
<1>1. \A m \in Nat : \E g : Part(m, g)
  <2>1. 0 \in Parts
    <3>1. Part(0, [i \in 0 .. 0 |-> 1])
      OBVIOUS
    <3> QED
      BY <3>1
  <2>2. ASSUME NEW m \in Nat, m \in Parts PROVE m + 1 \in Parts
    <3>1. PICK g : Part(m, g)
      BY <2>2
    <3> DEFINE h == [i \in 0 .. m + 1 |-> IF i = m + 1 THEN x * g[m] ELSE g[i]]
    <3>2. g[m] \in Nat /\ x * g[m] \in Nat
      BY <3>1
    <3>3. h \in [0 .. m + 1 -> Nat]
      <4>1. \A i \in 0 .. m + 1 : i = m + 1 \/ i \in 0 .. m
        OBVIOUS
      <4>2. \A i \in 0 .. m : g[i] \in Nat
        BY <3>1
      <4> QED
        BY <3>2, <4>1, <4>2
    <3>4. h[0] = 1
      BY <3>1
    <3>5. ASSUME NEW i \in 1 .. m + 1 PROVE h[i] = x * h[i - 1]
      <4>1. CASE i = m + 1
        <5>1. h[i] = x * g[m] /\ h[i - 1] = g[m]
          BY <4>1
        <5> QED
          BY <5>1
      <4>2. CASE i # m + 1
        <5>1. i \in 1 .. m /\ i \in 0 .. m + 1 /\ i - 1 \in 0 .. m + 1
              /\ i - 1 # m + 1
          BY <4>2
        <5>2. h[i] = g[i] /\ h[i - 1] = g[i - 1] /\ g[i] = x * g[i - 1]
          BY <3>1, <4>2, <5>1
        <5> QED
          BY <5>2
      <4> QED
        BY <4>1, <4>2
    <3>6. Part(m + 1, h)
      BY <3>3, <3>4, <3>5
    <3> HIDE DEF Part, h
    <3>7. \E f : Part(m + 1, f)
      BY <3>6
    <3> QED
      BY <3>7
  <2> HIDE DEF Parts
  <2>3. \A m \in Nat : m \in Parts
    BY <2>1, <2>2, AllNaturals
  <2> QED
    BY <2>3 DEF Parts
<1>2. ASSUME NEW m \in Nat, NEW g, Part(m, g), NEW h, Part(m + 1, h)
      PROVE  g[m] = h[m]
  <2> DEFINE Same == {i \in Nat : i <= m => g[i] = h[i]}
  <2>1. 0 \in Same
    BY <1>2
  <2>2. ASSUME NEW k \in Nat, k \in Same PROVE k + 1 \in Same
    <3> SUFFICES ASSUME k + 1 <= m PROVE g[k + 1] = h[k + 1]
      OBVIOUS
    <3>1. k + 1 \in 1 .. m /\ k + 1 \in 1 .. m + 1 /\ k + 1 - 1 = k
      OBVIOUS
    <3>2. g[k + 1] = x * g[k] /\ h[k + 1] = x * h[k]
      BY <1>2, <3>1
    <3> QED
      BY <2>2, <3>1, <3>2
  <2>3. \A k \in Nat : k \in Same
    <3> HIDE DEF Same
    <3> QED
      BY <2>1, <2>2, AllNaturals
  <2> QED
    BY <2>3
<1> DEFINE part(m) == CHOOSE g : Part(m, g)
           f == [m \in Nat |-> part(m)[m]]
<1>3. \A m \in Nat : Part(m, part(m))
  BY <1>1
<1> HIDE DEF part
<1>4. \A m \in Nat : f[m] \in Nat
  BY <1>3
<1>5. f[0] = 1
  BY <1>3
<1>6. ASSUME NEW i \in Nat, i # 0 PROVE f[i] = x * f[i - 1]
  <2>1. i - 1 \in Nat /\ i \in 1 .. i /\ i - 1 + 1 = i
    BY <1>6
  <2>2. part(i)[i] = x * part(i)[i - 1]
    BY <1>3, <2>1
  <2>3. part(i - 1)[i - 1] = part(i)[i - 1]
    <3> HIDE DEF Part
    <3>1. Part(i - 1, part(i - 1)) /\ Part(i - 1 + 1, part(i))
      BY <1>3, <2>1
    <3> QED
      BY <1>2, <2>1, <3>1
  <2> QED
    BY <2>1, <2>2, <2>3
<1>7. f = [i \in Nat |-> IF i = 0 THEN 1 ELSE x * f[i - 1]]
  <2>1. \A i \in Nat : f[i] = IF i = 0 THEN 1 ELSE x * f[i - 1]
    BY <1>5, <1>6
  <2> QED
    BY <2>1
<1>8. f \in [Nat -> Nat]
  BY <1>4
<1> QED
  BY <1>7, <1>8

\* So the operator is what its recursion says.
LEMMA PowerRec ==
  ASSUME NEW x \in Nat
  PROVE  /\ Power(x, 0) = 1
         /\ \A e \in Nat : Power(x, e) \in Nat
         /\ \A e \in Nat : Power(x, e + 1) = x * Power(x, e)
<1> DEFINE Rec(f) == f = [i \in Nat |-> IF i = 0 THEN 1 ELSE x * f[i - 1]]
           p == CHOOSE f : Rec(f)
<1>1. PICK f \in [Nat -> Nat] : Rec(f)
  BY PowerDefined
<1>2. Rec(p)
  BY <1>1
<1> HIDE DEF p
<1>3. \A e : Power(x, e) = p[e]
  BY DEF Power, p
<1>4. p[0] = 1 /\ \A e \in Nat : p[e + 1] = x * p[e]
  <2>1. \A i \in Nat : p[i] = IF i = 0 THEN 1 ELSE x * p[i - 1]
    BY <1>2
  <2>2. \A e \in Nat : e + 1 \in Nat /\ e + 1 # 0 /\ e + 1 - 1 = e
    OBVIOUS
  <2> QED
    BY <2>1, <2>2
<1>5. \A e \in Nat : p[e] \in Nat
  <2> DEFINE Typed == {e \in Nat : p[e] \in Nat}
  <2>1. 0 \in Typed
    BY <1>4
  <2>2. \A k \in Nat : k \in Typed => k + 1 \in Typed
    BY <1>4
  <2>3. \A k \in Nat : k \in Typed
    <3> HIDE DEF Typed
    <3> QED
      BY <2>1, <2>2, AllNaturals
  <2> QED
    BY <2>3
<1> QED
  BY <1>3, <1>4, <1>5

\* The greater the factors, the greater the product.
LEMMA TimesMonotone ==
  ASSUME NEW a \in Nat, NEW b \in Nat, NEW c \in Nat, NEW d \in Nat,
         a <= b, c <= d
  PROVE  /\ a * c \in Nat /\ b * d \in Nat /\ a * c <= b * d
         /\ a < b /\ c # 0 => a * c < b * d
<1>1. PICK i \in Nat, j \in Nat : b = a + i /\ d = c + j
  <2>1. b - a \in Nat /\ d - c \in Nat /\ b = a + (b - a) /\ d = c + (d - c)
    OBVIOUS
  <2> QED
    BY <2>1
<1>2. b * d = a * c + a * j + i * c + i * j
  BY <1>1
<1>3. a * c \in Nat /\ a * j \in Nat /\ i * c \in Nat /\ i * j \in Nat
  OBVIOUS
<1>4. i # 0 /\ c # 0 => i * c # 0
  OBVIOUS
<1> QED
  BY <1>1, <1>2, <1>3, <1>4

\* The greater the number, the greater its power.
LEMMA PowerMonotone ==
  ASSUME NEW x \in Nat, NEW y \in Nat, x <= y
  PROVE  /\ \A e \in Nat : Power(x, e) <= Power(y, e)
         /\ \A e \in Nat : x < y /\ e # 0 => Power(x, e) < Power(y, e)
<1> DEFINE S == {e \in Nat : /\ Power(x, e) <= Power(y, e)
                             /\ y # 0 => Power(y, e) # 0
                             /\ x < y /\ e # 0 => Power(x, e) < Power(y, e)}
<1>1. 0 \in S
  BY PowerRec
<1>2. ASSUME NEW k \in Nat, k \in S PROVE k + 1 \in S
  <2>1. /\ Power(x, k) \in Nat /\ Power(y, k) \in Nat
        /\ Power(x, k) <= Power(y, k)
        /\ y # 0 => Power(y, k) # 0
        /\ Power(x, k + 1) = x * Power(x, k)
        /\ Power(y, k + 1) = y * Power(y, k)
    BY <1>2, PowerRec
  <2> DEFINE p == Power(x, k)
             q == Power(y, k)
  <2> HIDE DEF p, q
  <2>2. /\ p \in Nat /\ q \in Nat /\ p <= q /\ (y # 0 => q # 0)
        /\ Power(x, k + 1) = x * p /\ Power(y, k + 1) = y * q
    BY <2>1 DEF p, q
  <2>3. x * p <= y * q /\ x * p \in Nat /\ y * q \in Nat
    BY <2>2, TimesMonotone
  <2>4. y # 0 => y * q # 0
    BY <2>2
  <2>5. ASSUME x < y PROVE x * p < y * q
    <3>1. CASE p # 0
      BY <2>2, <2>5, <3>1, TimesMonotone
    <3>2. CASE p = 0
      BY <2>2, <2>3, <2>4, <2>5, <3>2
    <3> QED
      BY <3>1, <3>2
  <2> QED
    BY <2>2, <2>3, <2>4, <2>5
<1>3. \A e \in Nat : e \in S
  <2> HIDE DEF S
  <2> QED
    BY <1>1, <1>2, AllNaturals
<1> QED
  BY <1>3

\* The power of a product with two.
LEMMA PowerOfDouble ==
  ASSUME NEW x \in Nat
  PROVE  \A e \in Nat : Power(2 * x, e) = Power(2, e) * Power(x, e)
<1> DEFINE S == {e \in Nat : Power(2 * x, e) = Power(2, e) * Power(x, e)}
<1>1. 0 \in S
  BY PowerRec
<1>2. ASSUME NEW k \in Nat, k \in S PROVE k + 1 \in S
  <2> DEFINE p == Power(2, k)
             q == Power(x, k)
  <2>1. /\ p \in Nat /\ q \in Nat /\ Power(2 * x, k) = p * q
        /\ Power(2 * x, k + 1) = 2 * x * Power(2 * x, k)
        /\ Power(2, k + 1) = 2 * p /\ Power(x, k + 1) = x * q
    BY <1>2, PowerRec
  <2> HIDE DEF p, q
  <2>2. 2 * x * (p * q) = (2 * p) * (x * q)
    BY <2>1
  <2> QED
    BY <2>1, <2>2
<1>3. \A e \in Nat : e \in S
  <2> HIDE DEF S
  <2> QED
    BY <1>1, <1>2, AllNaturals
<1> QED
  BY <1>3

-----------------------------------------------------------------------------
(* Sorted samples.                                                         *)

\* A listing of a finite set has each element, and once.
LEMMA Listing ==
  ASSUME NEW D, IsFiniteSet(D), NEW p \in SetToSeqs(D)
  PROVE  /\ Cardinality(D) \in Nat /\ DOMAIN p = 1 .. Cardinality(D)
         /\ p \in [1 .. Cardinality(D) -> D]
         /\ \A i, j \in DOMAIN p : p[i] = p[j] => i = j
         /\ \A x \in D : \E i \in DOMAIN p : p[i] = x
<1> DEFINE size == Cardinality(D)
<1>1. /\ size \in Nat /\ IsFiniteSet(1 .. size)
      /\ Cardinality(1 .. size) = size
  BY FS_CardinalityType, FS_Interval
<1>2. /\ p \in [1 .. size -> D]
      /\ \A i, j \in 1 .. size : p[i] = p[j] => i = j
  BY DEF SetToSeqs
<1> HIDE DEF size
<1>3. p \in Injection(1 .. size, D)
  BY <1>2 DEF Injection, IsInjective
<1>4. Cardinality(1 .. size) = Cardinality(D)
  BY <1>1 DEF size
<1>5. p \in Surjection(1 .. size, D)
  BY <1>3, <1>4, FS_Injection
<1> QED
  BY <1>1, <1>2, <1>5 DEF Surjection, size

\* t has what s has at the places that p says, and p is a permutation.
Reorders(p, s, t) ==
  /\ p \in [1 .. Len(s) -> 1 .. Len(s)]
  /\ \A k \in 1 .. Len(s) : t[k] = s[p[k]]
  /\ \A i, j \in 1 .. Len(s) : p[i] = p[j] => i = j
  /\ \A x \in 1 .. Len(s) : \E i \in 1 .. Len(s) : p[i] = x

\* A sorting has the samples, each once, in order.
LEMMA SortingOf ==
  ASSUME NEW s \in Seq(Nat), NEW t \in Sortings(s)
  PROVE  /\ Len(s) \in Nat /\ DOMAIN s = 1 .. Len(s)
         /\ t \in Seq(Nat) /\ Len(t) = Len(s)
         /\ \A i, j \in 1 .. Len(s) : i < j => t[i] <= t[j]
         /\ \E p : Reorders(p, s, t)
<1> DEFINE size == Len(s)
<1>1. size \in Nat /\ DOMAIN s = 1 .. size /\ \A k \in 1 .. size : s[k] \in Nat
  OBVIOUS
<1> HIDE DEF size
<1>2. IsFiniteSet(1 .. size) /\ Cardinality(1 .. size) = size
  BY <1>1, FS_Interval
<1>3. PICK p \in SetToSeqs(1 .. size) :
        /\ \A i, j \in DOMAIN p : i < j => s[p[i]] <= s[p[j]]
        /\ t = [k \in DOMAIN p |-> s[p[k]]]
  BY <1>1 DEF Sortings
<1>4. /\ DOMAIN p = 1 .. size /\ p \in [1 .. size -> 1 .. size]
      /\ \A i, j \in DOMAIN p : p[i] = p[j] => i = j
      /\ \A x \in 1 .. size : \E i \in DOMAIN p : p[i] = x
  BY <1>2, <1>3, Listing
<1>5. t \in [1 .. size -> Nat] /\ \A k \in 1 .. size : t[k] = s[p[k]]
  BY <1>1, <1>3, <1>4
<1>6. t \in Seq(Nat) /\ Len(t) = size
  BY <1>1, <1>5
<1>7. \A i, j \in 1 .. size : i < j => t[i] <= t[j]
  BY <1>3, <1>4, <1>5
<1>8. Reorders(p, s, t)
  BY <1>4, <1>5 DEF Reorders, size
<1> QED
  BY <1>1, <1>6, <1>7, <1>8 DEF size

\* Below the sample at a place there are less than that place, up to it there
\* are as many at least.
LEMMA Ranked ==
  ASSUME NEW s \in Seq(Nat), NEW t \in Sortings(s), NEW i \in 1 .. Len(s)
  PROVE  /\ t[i] \in Nat
         /\ Below(s, t[i]) \in Nat /\ Below(s, t[i]) <= i - 1
         /\ UpTo(s, t[i]) \in Nat /\ i <= UpTo(s, t[i])
<1> DEFINE size == Len(s)
<1>0. PICK p : Reorders(p, s, t)
  BY SortingOf
<1>1. /\ \A k \in 1 .. size : p[k] \in 1 .. size /\ t[k] = s[p[k]]
      /\ \A k, l \in 1 .. size : p[k] = p[l] => k = l
      /\ \A x \in 1 .. size : \E k \in 1 .. size : p[k] = x
  BY <1>0 DEF Reorders
<1>2. /\ size \in Nat /\ DOMAIN s = 1 .. size /\ i \in 1 .. size
      /\ t \in Seq(Nat) /\ DOMAIN t = 1 .. size
      /\ \A k, l \in 1 .. size : k < l => t[k] <= t[l]
  BY SortingOf
<1>3. \A k \in 1 .. size : t[k] \in Nat /\ s[k] \in Nat
  BY <1>2
<1> HIDE DEF size
<1>4. IsFiniteSet(1 .. size)
  BY <1>2, FS_Interval
<1>5. ASSUME NEW m \in 0 .. size
      PROVE  /\ IsFiniteSet({p[k] : k \in 1 .. m})
             /\ Cardinality({p[k] : k \in 1 .. m}) = m
  <2> DEFINE part == {p[k] : k \in 1 .. m}
             f == [k \in 1 .. m |-> p[k]]
  <2>1. m \in Nat /\ 1 .. m \subseteq 1 .. size
    BY <1>2
  <2>2. f \in Surjection(1 .. m, part) /\ f \in Injection(1 .. m, part)
    <3>1. f \in [1 .. m -> part]
      OBVIOUS
    <3>2. \A x \in part : \E k \in 1 .. m : f[k] = x
      OBVIOUS
    <3>3. \A k, l \in 1 .. m : f[k] = f[l] => k = l
      BY <1>1, <2>1
    <3> HIDE DEF f, part
    <3> QED
      BY <3>1, <3>2, <3>3 DEF Surjection, Injection, IsInjective
  <2> HIDE DEF f, part
  <2>3. IsFiniteSet(1 .. m) /\ Cardinality(1 .. m) = m
    BY <2>1, FS_Interval
  <2>4. IsFiniteSet(part) /\ Cardinality(part) = Cardinality(1 .. m)
    BY <2>2, <2>3, FS_Surjection
  <2> QED
    BY <2>3, <2>4 DEF part
<1>6. Below(s, t[i]) \in Nat /\ Below(s, t[i]) <= i - 1
  <2> DEFINE B == {k \in 1 .. size : s[k] < t[i]}
             part == {p[k] : k \in 1 .. i - 1}
  <2>1. B \subseteq part
    <3> SUFFICES ASSUME NEW x \in 1 .. size, s[x] < t[i] PROVE x \in part
      OBVIOUS
    <3>1. PICK k \in 1 .. size : p[k] = x
      BY <1>1
    <3>2. t[k] < t[i]
      BY <1>1, <3>1
    <3>3. ~(i < k) /\ k # i
      <4>1. t[i] \in Nat /\ t[k] \in Nat /\ (i < k => t[i] <= t[k])
        BY <1>2, <1>3
      <4> QED
        BY <3>2, <4>1
    <3>4. k \in 1 .. i - 1
      BY <1>2, <3>3
    <3> QED
      BY <3>1, <3>4
  <2>2. IsFiniteSet(part) /\ Cardinality(part) = i - 1
    <3>1. i - 1 \in 0 .. size
      BY <1>2
    <3> QED
      BY <1>5, <3>1
  <2> HIDE DEF B, part
  <2>3. IsFiniteSet(B) /\ Cardinality(B) <= i - 1
    BY <2>1, <2>2, FS_Subset
  <2>4. Cardinality(B) \in Nat
    BY <2>3, FS_CardinalityType
  <2> QED
    BY <1>2, <2>3, <2>4 DEF B, Below
<1>7. UpTo(s, t[i]) \in Nat /\ i <= UpTo(s, t[i])
  <2> DEFINE B == {k \in 1 .. size : s[k] <= t[i]}
             part == {p[k] : k \in 1 .. i}
  <2>1. part \subseteq B
    <3> SUFFICES ASSUME NEW k \in 1 .. i
                 PROVE  p[k] \in 1 .. size /\ s[p[k]] <= t[i]
      OBVIOUS
    <3>1. k \in 1 .. size /\ (k = i \/ k < i)
      BY <1>2
    <3>2. t[k] <= t[i]
      BY <1>2, <1>3, <3>1
    <3> QED
      BY <1>1, <3>1, <3>2
  <2>2. IsFiniteSet(part) /\ Cardinality(part) = i
    <3>1. i \in 0 .. size
      BY <1>2
    <3> QED
      BY <1>5, <3>1
  <2>3. IsFiniteSet(B)
    BY <1>4, FS_Subset
  <2> HIDE DEF B, part
  <2>4. i <= Cardinality(B) /\ Cardinality(B) \in Nat
    BY <2>1, <2>2, <2>3, FS_Subset, FS_CardinalityType
  <2> QED
    BY <1>2, <2>4 DEF B, UpTo
<1> QED
  BY <1>2, <1>3, <1>6, <1>7

Thousandths == 0 .. 1000

\* A percentile is a sample of its rank.
LEMMA PercentileRanked ==
  ASSUME NEW s \in Seq(Nat), NEW t \in Sortings(s), NEW point \in Thousandths
  PROVE  /\ Percentile(t, point) \in Nat
         /\ s # <<>> => IsPercentile(s, point, Percentile(t, point))
<1>1. t \in Seq(Nat) /\ Len(t) = Len(s) /\ Len(s) \in Nat
  BY SortingOf
<1>2. CASE s = <<>>
  <2>1. Len(s) = 0
    BY <1>2
  <2>2. t = <<>>
    BY <1>1, <2>1
  <2> QED
    BY <1>2, <2>2 DEF Percentile
<1>3. CASE s # <<>>
  <2> DEFINE share == 2 * (Len(s) - 1) * point + 1000
             i == (share \div 2000) + 1
  <2>0. point \in Nat /\ point <= 1000
    BY DEF Thousandths
  <2>1. Len(s) - 1 \in Nat
    BY <1>1, <1>3
  <2>2. PICK a \in Nat : a = (Len(s) - 1) * point /\ a <= 1000 * (Len(s) - 1)
    <3>1. (Len(s) - 1) * point \in Nat
      BY <2>0, <2>1
    <3>2. (Len(s) - 1) * point <= (Len(s) - 1) * 1000
      BY <2>0, <2>1, TimesMonotone
    <3> QED
      BY <2>1, <3>1, <3>2
  <2>3. share = 2 * a + 1000
    BY <2>0, <2>1, <2>2
  <2> HIDE DEF share
  <2>4. /\ i \in 1 .. Len(s)
        /\ 2000 * (i - 1) <= share /\ 2000 * i >= share
    <3> DEFINE m == Len(s) - 1
    <3>1. m \in Nat /\ a \in Nat /\ a <= 1000 * m /\ Len(s) = m + 1
      BY <1>1, <2>1, <2>2
    <3> HIDE DEF m
    <3>2. /\ i \in 1 .. m + 1
          /\ 2000 * (i - 1) <= share /\ 2000 * i >= share
      BY <2>3, <3>1
    <3> QED
      BY <3>1, <3>2
  <2>5. Percentile(t, point) = t[i]
    <3>1. t # <<>>
      BY <1>1, <2>1
    <3> QED
      BY <1>1, <3>1 DEF Percentile, share
  <2> HIDE DEF i
  <2>6. /\ t[i] \in Nat
        /\ Below(s, t[i]) \in Nat /\ Below(s, t[i]) <= i - 1
        /\ UpTo(s, t[i]) \in Nat /\ i <= UpTo(s, t[i])
    BY <2>4, Ranked
  <2>7. 2000 * Below(s, t[i]) <= share /\ 2000 * UpTo(s, t[i]) >= share
    <3>1. i \in Nat /\ share \in Nat
      <4>1. share \in Nat
        BY <2>2, <2>3
      <4> QED
        BY <1>1, <2>4, <4>1
    <3> QED
      BY <2>4, <2>6, <3>1
  <2> QED
    BY <2>5, <2>6, <2>7 DEF share, IsPercentile
<1> QED
  BY <1>2, <1>3

-----------------------------------------------------------------------------
(* The lines of the histogram.                                             *)

\* What rounding down means.
LEMMA DivBounds ==
  ASSUME NEW a \in Nat, NEW d \in Nat, d > 0
  PROVE  /\ a \div d \in Nat
         /\ d * (a \div d) <= a
         /\ a < d * (a \div d) + d
OBVIOUS

\* A line of the histogram.
Lines == [low : Nat, high : Nat, count : Nat \ {0}]

\* Buckets that have the samples within their ranges tell all of them when
\* those are printed that have some.
LEMMA BucketsTell ==
  ASSUME raw \in Seq(Nat), NEW size \in Nat, NEW bucket, NEW range,
         \A k \in 1 .. size : range[k][1] \in Nat /\ range[k][2] \in Nat,
         \A k \in DOMAIN raw :
           /\ bucket[Adjusted[k]] \in 1 .. size
           /\ range[bucket[Adjusted[k]]][1] <= Adjusted[k]
           /\ Adjusted[k] <= range[bucket[Adjusted[k]]][2],
         PrintBuckets([k \in 1 .. size |-> CountIn(Adjusted, bucket, k)],
                      range),
         raw' = raw, overhead' = overhead
  PROVE  histogram' \in Seq(Lines) /\ HistogramTellsSamples'
<1> DEFINE of(k) == bucket[Adjusted[k]]
           share(b) == {k \in DOMAIN raw : of(k) = b}
           count == [k \in 1 .. size |-> CountIn(Adjusted, bucket, k)]
           D == {k \in 1 .. size : count[k] > 0}
<1>1. Len(raw) \in Nat /\ DOMAIN raw = 1 .. Len(raw) /\ IsFiniteSet(DOMAIN raw)
  <2>1. Len(raw) \in Nat /\ DOMAIN raw = 1 .. Len(raw)
    OBVIOUS
  <2> QED
    BY <2>1, FS_Interval
<1>2. DOMAIN Adjusted = DOMAIN raw
  BY DEF Adjusted
<1>3. \A b \in 1 .. size : count[b] = Cardinality(share(b))
  BY <1>2 DEF CountIn
<1>4. \A b : IsFiniteSet(share(b)) /\ Cardinality(share(b)) \in Nat
  BY <1>1, FS_Subset, FS_CardinalityType
<1>5. ASSUME NEW k \in DOMAIN raw PROVE of(k) \in D
  <2>1. k \in share(of(k)) /\ of(k) \in 1 .. size
    OBVIOUS
  <2>2. Cardinality(share(of(k))) # 0
    <3> HIDE DEF share
    <3> QED
      BY <1>4, <2>1, FS_EmptySet
  <2>3. count[of(k)] = Cardinality(share(of(k)))
    BY <1>3, <2>1
  <2> HIDE DEF count, share, of
  <2> QED
    BY <1>4, <2>1, <2>2, <2>3
<1>6. PICK used \in SetToSeqs(D) :
        histogram' = [l \in DOMAIN used |-> [low   |-> range[used[l]][1],
                                             high  |-> range[used[l]][2],
                                             count |-> count[used[l]]]]
  BY DEF PrintBuckets
<1>7. /\ Cardinality(D) \in Nat /\ DOMAIN used = 1 .. Cardinality(D)
      /\ used \in [1 .. Cardinality(D) -> D]
      /\ \A i, j \in DOMAIN used : used[i] = used[j] => i = j
      /\ \A x \in D : \E i \in DOMAIN used : used[i] = x
  <2>1. IsFiniteSet(1 .. size)
    <3> HIDE DEF D, count, share, of
    <3>1. 1 \in Int /\ size \in Int
      OBVIOUS
    <3> QED
      BY <3>1, FS_Interval
  <2>2. IsFiniteSet(D)
    <3>1. D \subseteq 1 .. size
      OBVIOUS
    <3> HIDE DEF D
    <3> QED
      BY <2>1, <3>1, FS_Subset
  <2> QED
    BY <2>2, Listing
<1> DEFINE dom == DOMAIN used
<1>8. \A l \in dom : used[l] \in 1 .. size /\ count[used[l]] \in Nat \ {0}
  <2>1. \A l \in dom : used[l] \in D
    BY <1>7
  <2>2. \A b \in D : b \in 1 .. size /\ count[b] > 0
    OBVIOUS
  <2>3. \A b \in 1 .. size : count[b] \in Nat
    <3> HIDE DEF share, dom, D, count, of
    <3> QED
      BY <1>3, <1>4
  <2> HIDE DEF share, dom, D, count
  <2> QED
    BY <2>1, <2>2, <2>3
<1> HIDE DEF count, D, share, of
<1>9. histogram' \in Seq(Lines)
  <2>1. \A l \in dom : [low   |-> range[used[l]][1],
                        high  |-> range[used[l]][2],
                        count |-> count[used[l]]] \in Lines
    BY <1>8 DEF Lines
  <2> DEFINE m == Cardinality(D)
  <2> HIDE DEF m
  <2>2. m \in Nat /\ dom = 1 .. m
    BY <1>7 DEF m
  <2>3. histogram' \in [1 .. m -> Lines]
    BY <1>6, <2>1, <2>2
  <2> QED
    BY <2>2, <2>3
<1> DEFINE line == [k \in DOMAIN raw |-> CHOOSE l \in dom : used[l] = of(k)]
<1>10. \A k \in DOMAIN raw : line[k] \in dom /\ used[line[k]] = of(k)
  BY <1>5, <1>7
<1>11. line \in [DOMAIN raw -> dom]
  BY <1>10
<1> HIDE DEF line
<1>12. DOMAIN histogram' = dom
  BY <1>6
<1>13. ASSUME NEW k \in DOMAIN raw
       PROVE  /\ histogram'[line[k]].low <= Adjusted[k]
              /\ Adjusted[k] <= histogram'[line[k]].high
  <2>1. /\ histogram'[line[k]].low = range[of(k)][1]
        /\ histogram'[line[k]].high = range[of(k)][2]
    BY <1>6, <1>10
  <2> QED
    BY <2>1 DEF of
<1>14. ASSUME NEW l \in dom
       PROVE  histogram'[l].count =
                Cardinality({k \in DOMAIN raw : line[k] = l})
  <2>1. {k \in DOMAIN raw : line[k] = l} = share(used[l])
    BY <1>7, <1>10 DEF share
  <2>2. histogram'[l].count = count[used[l]]
    BY <1>6
  <2> QED
    BY <1>3, <1>8, <2>1, <2>2
<1>15. \E f \in [DOMAIN raw -> dom] :
         /\ \A k \in DOMAIN raw : /\ histogram'[f[k]].low <= Adjusted[k]
                                  /\ Adjusted[k] <= histogram'[f[k]].high
         /\ \A l \in dom :
              histogram'[l].count = Cardinality({k \in DOMAIN raw : f[k] = l})
  BY <1>11, <1>13, <1>14
<1>16. Adjusted' = Adjusted
  BY DEF Adjusted
<1>17. HistogramTellsSamples'
  <2> DEFINE Dealt(f) ==
        /\ \A k \in DOMAIN raw : /\ histogram'[f[k]].low <= Adjusted[k]
                                 /\ Adjusted[k] <= histogram'[f[k]].high
        /\ \A l \in dom :
             histogram'[l].count = Cardinality({k \in DOMAIN raw : f[k] = l})
  <2>1. PICK f \in [DOMAIN raw -> dom] : Dealt(f)
    BY <1>15
  <2>2. raw' = raw
    OBVIOUS
  <2>3. \A l : {k \in DOMAIN raw' : f[k] = l} = {k \in DOMAIN raw : f[k] = l}
    BY <2>2
  <2> HIDE DEF dom
  <2>4. \A k \in DOMAIN raw' : /\ histogram'[f[k]].low <= Adjusted'[k]
                                /\ Adjusted'[k] <= histogram'[f[k]].high
    BY <1>16, <2>1, <2>2
  <2>5. ASSUME NEW l \in DOMAIN histogram'
        PROVE  histogram'[l].count =
                 Cardinality({k \in DOMAIN raw' : f[k] = l})
    <3>1. histogram'[l].count = Cardinality({k \in DOMAIN raw : f[k] = l})
      BY <1>12, <2>1
    <3>2. {k \in DOMAIN raw' : f[k] = l} = {k \in DOMAIN raw : f[k] = l}
      BY <2>3
    <3> QED
      BY <3>1, <3>2
  <2>6. f \in [DOMAIN raw' -> DOMAIN histogram']
    BY <1>12, <2>2
  <2> HIDE DEF Dealt
  <2>7. \E g \in [DOMAIN raw' -> DOMAIN histogram'] :
          /\ \A k \in DOMAIN raw' : /\ histogram'[g[k]].low <= Adjusted'[k]
                                    /\ Adjusted'[k] <= histogram'[g[k]].high
          /\ \A l \in DOMAIN histogram' :
               histogram'[l].count =
                 Cardinality({k \in DOMAIN raw' : g[k] = l})
    BY <2>4, <2>5, <2>6
  <2> QED
    BY <2>7, Zenon DEF HistogramTellsSamples
<1> QED
  BY <1>9, <1>17

\* Buckets of one width, as wide as it takes.
LEMMA LinearBuckets ==
  ASSUME config.buckets \in Nat \ {0}, NEW min \in Nat, NEW max \in Nat,
         min <= max
  PROVE  LET width  == Width(min, max)
             low(k) == min + width * (k - 1)
             at(s)  == Lesser((s - min) \div width, config.buckets - 1) + 1
         IN  /\ \A k \in 1 .. config.buckets :
                  low(k) \in Nat /\ Lesser(low(k) + width - 1, max) \in Nat
             /\ \A s \in min .. max :
                  /\ at(s) \in 1 .. config.buckets
                  /\ low(at(s)) <= s
                  /\ s <= Lesser(low(at(s)) + width - 1, max)
<1> DEFINE width == Width(min, max)
           low(k) == min + width * (k - 1)
           at(s) == Lesser((s - min) \div width, config.buckets - 1) + 1
           B == config.buckets
<1>1. B \in Nat /\ B > 0
  OBVIOUS
<1>2. width \in Nat /\ width > 0 /\ B * width > max - min
  <2>1. max - min + B \in Nat /\ width = (max - min + B) \div B
    BY <1>1 DEF Width
  <2> HIDE DEF width, B
  <2>2. width \in Nat /\ max - min + B < B * width + B
    BY <1>1, <2>1, DivBounds
  <2>3. B * width > max - min
    BY <1>1, <2>2
  <2>4. width # 0
    BY <1>1, <2>3
  <2> QED
    BY <2>2, <2>3, <2>4
<1> HIDE DEF width, B
<1>3. ASSUME NEW k \in 1 .. B
      PROVE  low(k) \in Nat /\ Lesser(low(k) + width - 1, max) \in Nat
  <2>1. k - 1 \in Nat /\ width * (k - 1) \in Nat
    BY <1>1, <1>2
  <2> QED
    BY <1>2, <2>1 DEF Lesser
<1>4. ASSUME NEW s \in min .. max
      PROVE  /\ at(s) \in 1 .. B
             /\ low(at(s)) <= s
             /\ s <= Lesser(low(at(s)) + width - 1, max)
  <2> DEFINE d == (s - min) \div width
  <2>1. d \in Nat /\ width * d <= s - min /\ s - min < width * d + width
    <3>1. s - min \in Nat
      OBVIOUS
    <3> QED
      BY <1>2, <3>1, DivBounds
  <2> HIDE DEF d
  <2>2. d <= B - 1
    <3> SUFFICES ASSUME B <= d PROVE FALSE
      BY <1>1, <2>1
    <3>1. B * width <= d * width /\ d * width = width * d
      BY <1>1, <1>2, <2>1, TimesMonotone
    <3>2. B * width \in Nat /\ width * d \in Nat
      BY <1>1, <1>2, <2>1
    <3> QED
      BY <1>2, <2>1, <3>1, <3>2
  <2>3. at(s) = d + 1 /\ at(s) - 1 = d
    BY <1>1, <2>1, <2>2 DEF Lesser, d, B
  <2>4. low(at(s)) = min + width * d
    BY <2>3
  <2> HIDE DEF at, low
  <2> QED
    BY <1>1, <1>2, <2>1, <2>2, <2>3, <2>4 DEF Lesser
<1> QED
  BY <1>3, <1>4 DEF width, B

\* Every bound is a sample there could be.
LEMMA BoundIs ==
  ASSUME config.buckets \in Nat \ {0}, NEW min \in Nat, NEW max \in Nat,
         min <= max, NEW k \in 0 .. config.buckets
  PROVE  LET r    == Bound(min, max, k)
             p    == Power(2, config.buckets) * BoundPower(min, max, k)
             In(o) == o = max \/ Power(2 * o + 1, config.buckets) > p
         IN  /\ r \in min .. max /\ In(r)
             /\ \A o \in min .. max : In(o) => r <= o
<1> DEFINE p == Power(2, config.buckets) * BoundPower(min, max, k)
           upTo == {r \in min .. max :
                      r = max \/ Power(2 * r + 1, config.buckets) > p}
           Least(r) == \A o \in upTo : r <= o
<1>1. upTo \in SUBSET Nat /\ max \in upTo
  OBVIOUS
<1>2. Bound(min, max, k) = CHOOSE r \in upTo : Least(r)
  BY DEF Bound
<1>3. \E r \in upTo : Least(r)
  <2> HIDE DEF upTo
  <2> QED
    BY <1>1, LeastNatural
<1>4. Bound(min, max, k) \in upTo /\ Least(Bound(min, max, k))
  BY <1>2, <1>3
<1> QED
  BY <1>4

\* A sample is on the same side of a bound as its power.
LEMMA BoundSides ==
  ASSUME config.buckets \in Nat \ {0}, NEW min \in Nat, NEW max \in Nat,
         min <= max, NEW k \in 0 .. config.buckets, NEW s \in min .. max
  PROVE  /\ BoundPower(min, max, k) \in Nat
         /\ BoundPower(min, max, k) <= Power(s, config.buckets) =>
              Bound(min, max, k) <= s
         /\ Power(s, config.buckets) <= BoundPower(min, max, k) =>
              s <= Bound(min, max, k)
<1> DEFINE B == config.buckets
           bp == BoundPower(min, max, k)
           ps == Power(s, B)
           p2 == Power(2, B)
           r == Bound(min, max, k)
<1>1. B \in Nat /\ B # 0 /\ B - k \in Nat /\ k \in Nat /\ s \in Nat
  OBVIOUS
<1>2. bp \in Nat
  <2>1. Power(min, B - k) \in Nat /\ Power(max, k) \in Nat
    BY <1>1, PowerRec
  <2> QED
    BY <2>1 DEF BoundPower
<1>3. ps \in Nat /\ p2 \in Nat /\ Power(2 * s, B) = p2 * ps
  BY <1>1, PowerRec, PowerOfDouble
<1>4. /\ r \in min .. max
      /\ r = max \/ Power(2 * r + 1, B) > p2 * bp
      /\ \A o \in min .. max :
           o = max \/ Power(2 * o + 1, B) > p2 * bp => r <= o
  BY BoundIs
<1> HIDE DEF B, bp, ps, p2, r
<1>5. ASSUME bp <= ps PROVE r <= s
  <2>1. p2 * bp \in Nat /\ p2 * bp <= p2 * ps
    BY <1>2, <1>3, <1>5, TimesMonotone
  <2>2. Power(2 * s, B) < Power(2 * s + 1, B)
    <3>1. 2 * s \in Nat /\ 2 * s + 1 \in Nat /\ 2 * s < 2 * s + 1
      BY <1>1
    <3> QED
      BY <1>1, <3>1, PowerMonotone
  <2>3. Power(2 * s + 1, B) \in Nat /\ Power(2 * s, B) \in Nat
    <3>1. 2 * s \in Nat /\ 2 * s + 1 \in Nat
      BY <1>1
    <3> QED
      BY <1>1, <3>1, PowerRec
  <2>4. Power(2 * s + 1, B) > p2 * bp
    BY <1>3, <2>1, <2>2, <2>3
  <2> QED
    BY <1>4, <2>4
<1>6. ASSUME ps <= bp PROVE s <= r
  <2> SUFFICES ASSUME r < s PROVE FALSE
    BY <1>1, <1>4
  <2>1. r \in Nat /\ r # max /\ 2 * r + 1 <= 2 * s
    BY <1>1, <1>4
  <2>2. Power(2 * r + 1, B) <= Power(2 * s, B)
    BY <1>1, <2>1, PowerMonotone
  <2>3. p2 * ps \in Nat /\ p2 * bp \in Nat /\ p2 * ps <= p2 * bp
    BY <1>2, <1>3, <1>6, TimesMonotone
  <2>4. Power(2 * r + 1, B) \in Nat
    BY <1>1, <2>1, PowerRec
  <2> QED
    BY <1>3, <1>4, <2>1, <2>2, <2>3, <2>4
<1> QED
  BY <1>2, <1>5, <1>6 DEF B, bp, ps, r

\* So a sample is within the range of a bucket the logarithms put it in.
LEMMA LogBucketsHold ==
  ASSUME config.buckets \in Nat \ {0}, NEW min \in Nat, NEW max \in Nat,
         min <= max, NEW s \in min .. max, NEW b \in LogBuckets(s, min, max)
  PROVE  /\ b \in 1 .. config.buckets
         /\ Bound(min, max, b - 1) <= s /\ s <= Bound(min, max, b)
<1> DEFINE B == config.buckets
<1>1. B \in Nat /\ B # 0 /\ B - 1 \in Nat /\ s \in Nat
  OBVIOUS
<1>2. PICK k \in 0 .. B :
        /\ b = Lesser(k, B - 1) + 1
        /\ BoundPower(min, max, k) <= Power(s, B)
        /\ k < B => Power(s, B) <= BoundPower(min, max, k + 1)
  BY DEF LogBuckets
<1>3. CASE k < B
  <2>1. b = k + 1 /\ b - 1 = k /\ b \in 0 .. B /\ b \in 1 .. B
    BY <1>1, <1>2, <1>3 DEF Lesser
  <2>2. Bound(min, max, b - 1) <= s
    BY <1>2, <2>1, BoundSides
  <2>3. s <= Bound(min, max, b)
    BY <1>2, <1>3, <2>1, BoundSides
  <2> QED
    BY <2>1, <2>2, <2>3
<1>4. CASE k = B
  <2>1. b = B /\ B - 1 \in 0 .. B /\ B \in 0 .. B
    BY <1>1, <1>2, <1>4 DEF Lesser
  <2>2. /\ Power(max, B) \in Nat /\ Power(max, B - 1) \in Nat
        /\ Power(max, B) = max * Power(max, B - 1)
        /\ Power(min, 0) = 1 /\ Power(min, 1) = min
    <3>1. B - 1 + 1 = B /\ 0 + 1 = 1
      BY <1>1
    <3>2. Power(min, 1) = min * Power(min, 0) /\ Power(min, 0) = 1
      BY <3>1, PowerRec
    <3>3. /\ Power(max, B) \in Nat /\ Power(max, B - 1) \in Nat
          /\ Power(max, B - 1 + 1) = max * Power(max, B - 1)
      BY <1>1, PowerRec
    <3> QED
      BY <3>1, <3>2, <3>3
  <2>3. BoundPower(min, max, B) = Power(max, B)
    <3>1. BoundPower(min, max, B) = 1 * Power(max, B)
      BY <1>1, <2>2 DEF BoundPower
    <3> QED
      BY <2>2, <3>1
  <2>4. BoundPower(min, max, B - 1) = min * Power(max, B - 1)
    <3>1. B - (B - 1) = 1
      BY <1>1
    <3> QED
      BY <2>2, <3>1 DEF BoundPower
  <2>5. min * Power(max, B - 1) <= max * Power(max, B - 1)
    BY <2>2, TimesMonotone
  <2>6. Power(s, B) <= Power(max, B) /\ Power(s, B) \in Nat
    <3>1. s \in Nat /\ max \in Nat /\ s <= max
      BY <1>1
    <3>2. Power(s, B) <= Power(max, B)
      <4> HIDE DEF B
      <4> QED
        BY <1>1, <3>1, PowerMonotone
    <3>3. Power(s, B) \in Nat
      BY <1>1, <3>1, PowerRec
    <3> QED
      BY <3>2, <3>3
  <2>7. BoundPower(min, max, B - 1) <= Power(s, B)
    <3>1. BoundPower(min, max, B - 1) \in Nat
      BY <2>1, BoundSides
    <3> QED
      BY <1>2, <1>4, <2>2, <2>3, <2>4, <2>5, <2>6, <3>1
  <2>8. Power(s, B) <= BoundPower(min, max, B)
    BY <2>3, <2>6
  <2>9. Bound(min, max, B - 1) <= s
    BY <2>1, <2>7, BoundSides
  <2>10. s <= Bound(min, max, B)
    BY <2>1, <2>8, BoundSides
  <2> QED
    BY <1>1, <2>1, <2>9, <2>10
<1> QED
  BY <1>1, <1>3, <1>4

-----------------------------------------------------------------------------
(* What is printed.  The types and the report are kept together with the   *)
(* walk and with how the command ends, and nothing is printed before it is *)
(* measured.                                                               *)

Early == {"parse", "make", "build", "overhead", "sample"}

\* A report is of samples that are all there, and of the overhead measured.
Unreported ==
  /\ pc = "parse" => raw = <<>>
  /\ pc \in Early => summary = <<>>
  /\ pc \in Early \cup {"histogram"} => histogram = <<>>

CsvLine == [kind : {"old", "header", "sample", "cut"}, raw : Nat, adj : Nat]

\* The types of what the walk does not have.
Typed ==
  /\ \E line \in CommandLines : \E k \in 0 .. Len(line) :
       args = SubSeq(line, k + 1, Len(line))
  /\ config \in Config
  /\ pc \in Labels
  /\ probe \in {"", "getpid", "stat", "memory", "tcp"}
  /\ batch \in Nat /\ overhead \in Nat /\ warm \in Nat /\ ops \in Nat
  /\ raw \in Seq(Nat) /\ Len(raw) <= config.samples
  /\ summary \in Seq(Nat)
  /\ histogram \in Seq(Lines)
  /\ csv \in Seq(CsvLine)

SInv == EInv /\ WalkInv /\ Typed /\ Unreported /\ ReportTellsSamples

\* The arguments left are arguments.
LEMMA Arguments ==
  ASSUME Typed
  PROVE  args \in Seq(Argument)
<1>1. PICK line \in CommandLines :
        \E k \in 0 .. Len(line) : args = SubSeq(line, k + 1, Len(line))
  BY DEF Typed
<1>2. PICK k \in 0 .. Len(line) : args = SubSeq(line, k + 1, Len(line))
  BY <1>1
<1>3. line \in Seq(Argument)
  BY OptionsAssumption
<1> HIDE DEF Argument
<1> QED
  BY <1>2, <1>3

\* Without the first of them they still end the line.
LEMMA Rest ==
  ASSUME NEW line \in Seq(Argument), NEW k \in 0 .. Len(line),
         NEW a, a = SubSeq(line, k + 1, Len(line)), a # <<>>
  PROVE  /\ k + 1 \in 0 .. Len(line)
         /\ Tail(a) = SubSeq(line, k + 2, Len(line))
         /\ Len(a) = Len(line) - k
<1> HIDE DEF Argument
<1>1. Len(line) \in Nat /\ k \in Nat /\ k <= Len(line)
  OBVIOUS
<1>2. a \in Seq(Argument) /\ Len(a) = Len(line) - k
  BY <1>1
<1>3. k + 1 <= Len(line)
  BY <1>1, <1>2
<1>4. /\ Tail(a) \in Seq(Argument) /\ Len(Tail(a)) = Len(line) - k - 1
      /\ \A i \in 1 .. Len(line) - k - 1 : Tail(a)[i] = a[i + 1]
  BY <1>1, <1>2, <1>3
<1>5. \A i \in 1 .. Len(line) - k : a[i] = line[k + i]
  BY <1>1, <1>2
<1> DEFINE b == SubSeq(line, k + 2, Len(line))
<1>6. /\ b \in Seq(Argument) /\ Len(b) = Len(line) - k - 1
      /\ \A i \in 1 .. Len(line) - k - 1 : b[i] = line[k + 1 + i]
  BY <1>1, <1>3
<1>7. ASSUME NEW i \in 1 .. Len(line) - k - 1
      PROVE  Tail(a)[i] = b[i]
  <2>1. i + 1 \in 1 .. Len(line) - k /\ k + (i + 1) = k + 1 + i
    BY <1>1
  <2>2. a[i + 1] = line[k + 1 + i]
    BY <1>5, <2>1
  <2> HIDE DEF b
  <2> QED
    BY <1>4, <1>6, <2>2
<1> HIDE DEF b
<1>8. Tail(a) = b
  <2> DEFINE m == Len(line) - k - 1
             c == Tail(a)
  <2>1. m \in Nat
    BY <1>1, <1>3
  <2>2. c \in Seq(Argument) /\ Len(c) = m /\ b \in Seq(Argument) /\ Len(b) = m
    BY <1>4, <1>6
  <2>3. \A i \in 1 .. m : c[i] = b[i]
    BY <1>7
  <2> HIDE DEF m, c
  <2>4. c = b
    BY <2>1, <2>2, <2>3
  <2> QED
    BY <2>4 DEF c
<1> QED
  BY <1>1, <1>2, <1>3, <1>8 DEF b

\* An option takes a value of its type.
LEMMA ValueTyped ==
  ASSUME config \in Config, NEW flag \in DOMAIN Field, NEW w \in Word,
         Accepted(flag, w)
  PROVE  [config EXCEPT ![Field[flag]] = Value(flag, w)] \in Config
<1>1. flag \in {"probe", "samples", "warmup_samples", "batch", "buckets",
                "csv", "size"}
  BY DEF Field
<1>2. w.text \in STRING /\ w.number \in Nat \cup {None}
  BY DEF Word
<1>3. CASE flag = "probe"
  <2>1. Field[flag] = "probe" /\ Value(flag, w) \in STRING
    BY <1>2, <1>3 DEF Field, Value
  <2> QED
    BY <2>1 DEF Config
<1>4. CASE flag = "csv"
  <2>1. Field[flag] = "csv" /\ Value(flag, w) \in BOOLEAN
    BY <1>4 DEF Field, Value
  <2> QED
    BY <2>1 DEF Config
<1>5. CASE flag = "size"
  <2>1. w.number \in Nat
    BY <1>2, <1>5 DEF Accepted, IsUsize
  <2>2. Multiplier(w.unit) \in Nat
    BY DEF Multiplier
  <2>3. ParseSize(w) \in Nat
    <3>1. WordModulus \in Nat /\ WordModulus > 0
      BY SamplerAssumption
    <3>2. w.number * Multiplier(w.unit) \in Nat
      BY <2>1, <2>2
    <3> QED
      BY <3>1, <3>2 DEF ParseSize
  <2>4. Field[flag] = "size" /\ Value(flag, w) = ParseSize(w)
    BY <1>5 DEF Field, Value
  <2> QED
    BY <2>3, <2>4 DEF Config
<1>6. CASE flag \in {"samples", "warmup_samples", "batch", "buckets"}
  <2>1. Value(flag, w) \in Nat
    BY <1>2, <1>6 DEF Accepted, IsUsize, Value
  <2>2. Field[flag] \in {"samples", "warmup", "batch", "buckets"}
    BY <1>6 DEF Field
  <2> QED
    BY <2>1, <2>2 DEF Config
<1> QED
  BY <1>1, <1>3, <1>4, <1>5, <1>6

\* What a step keeps that touches neither the samples nor the report.
LEMMA ReportKept ==
  ASSUME ReportTellsSamples, UNCHANGED <<raw, overhead, summary, histogram>>
  PROVE  ReportTellsSamples'
<1>1. Adjusted' = Adjusted
  BY DEF Adjusted
<1>2. SummaryTellsSamples'
  BY <1>1 DEF ReportTellsSamples, SummaryTellsSamples
<1>3. HistogramTellsSamples'
  BY <1>1 DEF ReportTellsSamples, HistogramTellsSamples
<1> QED
  BY <1>2, <1>3 DEF ReportTellsSamples

\* An empty report tells nothing wrong.
LEMMA ReportEmpty ==
  ASSUME summary' = <<>>, histogram' = <<>>
  PROVE  ReportTellsSamples'
<1>1. DOMAIN summary' = {}
  OBVIOUS
<1>2. SummaryTellsSamples'
  BY <1>1 DEF SummaryTellsSamples
<1> QED
  BY <1>2 DEF ReportTellsSamples, HistogramTellsSamples

\* An argument parsed leaves the rest of the line, and a typed option.
LEMMA ParseArgTyped ==
  ASSUME Typed, Unreported, ParseArg
  PROVE  Typed' /\ Unreported'
<1>1. /\ pc = "parse" /\ args # <<>>
      /\ UNCHANGED <<probe, batch, overhead, warm, ops, raw, summary,
                     histogram, csv>>
  BY DEF ParseArg
<1>2. raw = <<>> /\ summary = <<>> /\ histogram = <<>> /\ config \in Config
  BY <1>1 DEF Unreported, Typed, Early
<1>3. CASE pc' \in {"help", "error"} /\ UNCHANGED <<args, config>>
  BY <1>1, <1>2, <1>3
  DEF Typed, Unreported, Early, Labels, Ended, Panics
<1>4. CASE UNCHANGED pc /\ ~(UNCHANGED <<args, config>>)
  <2> DEFINE arg == Head(args)
             w == IF arg.inline THEN arg.word ELSE WordOf(args[2])
  <2>1. /\ arg.flag \in DOMAIN Field
        /\ ~arg.inline => Len(args) # 1
        /\ Accepted(arg.flag, w)
        /\ config' = [config EXCEPT ![Field[arg.flag]] = Value(arg.flag, w)]
        /\ args' = IF arg.inline THEN Tail(args) ELSE Tail(Tail(args))
    BY <1>4 DEF ParseArg, Goto
  <2>2. args \in Seq(Argument)
    BY Arguments
  <2>3. Len(args) \in Nat /\ Len(args) # 0 /\ arg = args[1] /\ arg \in Argument
    <3> HIDE DEF Argument
    <3> QED
      BY <1>1, <2>2
  <2>5. ASSUME ~arg.inline PROVE Len(args) \in Nat /\ Len(args) >= 2
    <3>1. Len(args) # 1
      BY <2>1, <2>5
    <3>2. Len(args) \in Nat /\ Len(args) # 0
      BY <2>3
    <3> DEFINE m == Len(args)
    <3>3. m \in Nat /\ m # 0 /\ m # 1
      BY <3>1, <3>2
    <3> HIDE DEF m
    <3>4. m \in Nat /\ m >= 2
      BY <3>3
    <3> QED
      BY <3>4 DEF m
  <2>4. w \in Word
    <3>1. CASE arg.inline
      BY <2>3, <3>1 DEF Argument
    <3>2. CASE ~arg.inline
      <4>1. args[2] \in Argument
        <5> HIDE DEF Argument
        <5> QED
          BY <2>2, <2>5, <3>2
      <4>2. WordOf(args[2]) \in Word
        BY <4>1 DEF Argument, Word, WordOf
      <4> QED
        BY <3>2, <4>2
    <3> QED
      BY <3>1, <3>2
  <2>6. config' \in Config
    <3> HIDE DEF arg, w
    <3> QED
      BY <1>2, <2>1, <2>4, ValueTyped
  <2>7. \E line \in CommandLines : \E k \in 0 .. Len(line) :
          args' = SubSeq(line, k + 1, Len(line))
    <3>0. PICK line \in CommandLines :
            \E k \in 0 .. Len(line) : args = SubSeq(line, k + 1, Len(line))
      BY DEF Typed
    <3>1. PICK k \in 0 .. Len(line) : args = SubSeq(line, k + 1, Len(line))
      BY <3>0
    <3>2. line \in Seq(Argument)
      BY OptionsAssumption
    <3>3. /\ k + 1 \in 0 .. Len(line) /\ Len(args) = Len(line) - k
          /\ Tail(args) = SubSeq(line, k + 1 + 1, Len(line))
      <4>1. k + 2 = k + 1 + 1
        OBVIOUS
      <4> HIDE DEF Argument
      <4> QED
        BY <1>1, <3>1, <3>2, <4>1, Rest
    <3>4. CASE arg.inline
      BY <2>1, <3>3, <3>4
    <3>5. CASE ~arg.inline
      <4>1. Tail(args) # <<>>
        <5>1. Len(args) \in Nat /\ Len(args) >= 2
          BY <2>5, <3>5
        <5>2. args \in Seq(Argument)
          BY <2>2
        <5> DEFINE rest == Tail(args)
        <5> HIDE DEF Argument
        <5>3. Len(rest) = Len(args) - 1
          BY <1>1, <5>2
        <5> HIDE DEF rest
        <5>4. rest # <<>>
          BY <5>1, <5>3
        <5> QED
          BY <5>4 DEF rest
      <4>2. /\ k + 1 + 1 \in 0 .. Len(line)
            /\ Tail(Tail(args)) = SubSeq(line, k + 1 + 2, Len(line))
        BY <3>2, <3>3, <4>1, Rest
      <4>3. k + 1 + 2 = k + 1 + 1 + 1
        OBVIOUS
      <4> QED
        BY <2>1, <3>5, <4>2, <4>3
    <3> QED
      BY <3>4, <3>5
  <2>8. Len(raw') <= config'.samples
    <3>1. config'.samples \in Nat /\ Len(raw') = 0
      BY <1>1, <1>2, <2>6 DEF Config
    <3> QED
      BY <3>1
  <2> QED
    BY <1>1, <1>2, <1>4, <2>6, <2>7, <2>8 DEF Typed, Unreported, Early
<1>5. \/ pc' \in {"help", "error"} /\ UNCHANGED <<args, config>>
      \/ UNCHANGED pc
  BY <1>1 DEF ParseArg, Goto
<1>6. CASE UNCHANGED <<pc, args, config>>
  BY <1>1, <1>2, <1>6 DEF Typed, Unreported
<1> QED
  BY <1>3, <1>4, <1>5, <1>6

\* The probe takes its batch from the options or has its own.
LEMMA MakeProbeTyped ==
  ASSUME Typed, Unreported, MakeProbe
  PROVE  Typed' /\ Unreported'
<1>1. /\ pc = "make" /\ pc' \in {"overhead", "build", "error"}
      /\ UNCHANGED <<args, config, overhead, warm, ops, raw, summary,
                     histogram, csv>>
  BY DEF MakeProbe, Goto
<1>2. probe' \in {"", "getpid", "stat", "memory", "tcp"} /\ batch' \in Nat
  <2> DEFINE kinds == {"getpid", "stat", "memory", "tcp"}
  <2>1. config.batch \in Nat \cup {None}
    BY DEF Typed, Config
  <2>2. \A p \in kinds : DefaultBatch[p] \in Nat
    BY SamplerAssumption
  <2>3. \/ UNCHANGED <<probe, batch>>
        \/ \E p \in kinds :
             /\ probe' = p
             /\ batch' = IF config.batch = None THEN DefaultBatch[p]
                                                ELSE config.batch
    BY DEF MakeProbe
  <2>4. probe \in kinds \cup {""} /\ batch \in Nat
    BY DEF Typed
  <2> QED
    BY <2>1, <2>2, <2>3, <2>4
<1> QED
  BY <1>1, <1>2 DEF Typed, Unreported, Early, Labels, Ended, Panics

\* The time of an operation is a number, for no batch is empty.
LEMMA PerOpTyped ==
  ASSUME Typed, batch # 0
  PROVE  \A t \in Elapsed : PerOp(t) \in Nat
<1>1. batch \in Nat
  BY Zenon DEF Typed
<1>2. batch > 0 /\ Elapsed \subseteq Nat
  BY <1>1, SamplerAssumption
<1> QED
  BY <1>1, <1>2, DivBounds DEF PerOp

\* The overhead is the median of such times.
LEMMA MeasureOverheadTyped ==
  ASSUME Typed, Unreported, batch # 0, MeasureOverhead
  PROVE  Typed' /\ Unreported'
<1> DEFINE samples == IF config.samples < OverheadCap THEN config.samples
                                                      ELSE OverheadCap
<1>1. /\ pc = "overhead" /\ pc' = "sample"
      /\ UNCHANGED <<args, config, probe, batch, ops, raw, summary,
                     histogram, csv>>
      /\ warm' = config.warmup
  BY DEF MeasureOverhead, Goto
<1>2. PICK t \in [1 .. samples -> Elapsed] :
        \E sorted \in Sortings([k \in 1 .. samples |-> PerOp(t[k])]) :
          overhead' = Percentile(sorted, 500)
  BY DEF MeasureOverhead, Goto
<1>3. config.samples \in Nat /\ config.warmup \in Nat
  BY DEF Typed, Config
<1>4. samples \in Nat
  BY <1>3, SamplerAssumption
<1> DEFINE times == [k \in 1 .. samples |-> PerOp(t[k])]
<1> HIDE DEF samples
<1>5. times \in Seq(Nat)
  <2>1. \A k \in 1 .. samples : PerOp(t[k]) \in Nat
    BY <1>2, PerOpTyped
  <2>2. times \in [1 .. samples -> Nat]
    BY <2>1
  <2> QED
    BY <1>4, <2>2
<1>6. PICK sorted \in Sortings(times) : overhead' = Percentile(sorted, 500)
  BY <1>2
<1> HIDE DEF times
<1>7. overhead' \in Nat
  <2>1. 500 \in Thousandths
    BY DEF Thousandths
  <2>2. Percentile(sorted, 500) \in Nat
    BY <1>5, <2>1, PercentileRanked
  <2> QED
    BY <1>6, <2>2
<1> QED
  BY <1>1, <1>3, <1>7 DEF Typed, Unreported, Early, Labels

\* A batch adds a sample at most.
LEMMA RunOnceTyped ==
  ASSUME Typed, Unreported, batch # 0, RunOnce
  PROVE  Typed' /\ Unreported'
<1>1. /\ pc = "sample" /\ Len(raw) < config.samples
      /\ UNCHANGED <<args, config, pc, probe, batch, overhead, summary,
                     histogram, csv>>
  BY DEF RunOnce
<1>2. /\ raw \in Seq(Nat) /\ Len(raw) \in Nat /\ config.samples \in Nat
      /\ warm \in Nat /\ ops \in Nat
  <2>1. raw \in Seq(Nat) /\ config \in Config /\ warm \in Nat /\ ops \in Nat
    BY Zenon DEF Typed
  <2> QED
    BY <2>1 DEF Config
<1>3. /\ ops' \in {ops + 1, 0}
      /\ warm' = warm \/ (warm > 0 /\ warm' = warm - 1)
      /\ raw' = raw \/ \E t \in Elapsed : raw' = Append(raw, PerOp(t))
  BY DEF RunOnce
<1>4. ops' \in Nat /\ warm' \in Nat
  BY <1>2, <1>3
<1>5. raw' \in Seq(Nat) /\ Len(raw') <= config.samples
  <2>1. ASSUME NEW t \in Elapsed, raw' = Append(raw, PerOp(t))
        PROVE  raw' \in Seq(Nat) /\ Len(raw') <= config.samples
    <3>1. PerOp(t) \in Nat
      BY PerOpTyped
    <3> QED
      BY <1>1, <1>2, <2>1, <3>1
  <2> QED
    BY <1>1, <1>2, <1>3, <2>1
<1> QED
  BY <1>1, <1>4, <1>5 DEF Typed, Unreported, Early

\* What is reported of are numbers, as many as there are samples.
LEMMA AdjustedTyped ==
  ASSUME Typed
  PROVE  /\ Adjusted \in Seq(Nat) /\ Len(Adjusted) = Len(raw)
         /\ DOMAIN Adjusted = DOMAIN raw
         /\ Len(raw) \in Nat /\ DOMAIN raw = 1 .. Len(raw)
<1>1. /\ raw \in Seq(Nat) /\ overhead \in Nat /\ Len(raw) \in Nat
      /\ DOMAIN raw = 1 .. Len(raw)
  <2>1. raw \in Seq(Nat) /\ overhead \in Nat
    BY Zenon DEF Typed
  <2> QED
    BY <2>1
<1>2. \A k \in DOMAIN raw : raw[k] \in Nat
  BY <1>1
<1>3. \A k \in DOMAIN raw :
        (IF raw[k] > overhead THEN raw[k] - overhead ELSE 0) \in Nat
  BY <1>1, <1>2
<1>4. Adjusted \in [1 .. Len(raw) -> Nat]
  BY <1>1, <1>3 DEF Adjusted
<1> QED
  BY <1>1, <1>4

\* The percentiles are ranked right.
LEMMA PrintSummaryTells ==
  ASSUME Typed, Unreported, OptionsHold, PrintSummary
  PROVE  Typed' /\ Unreported' /\ ReportTellsSamples'
<1>1. /\ pc = "sample" /\ pc' = "histogram"
      /\ UNCHANGED <<args, config, probe, batch, overhead, warm, ops, raw,
                     histogram, csv>>
  BY DEF PrintSummary, Goto
<1>2. PICK sorted \in Sortings(Adjusted) :
        summary' = [k \in DOMAIN Points |-> Percentile(sorted, Points[k])]
  BY DEF PrintSummary
<1>3. DOMAIN Points = 1 .. 7 /\ \A k \in 1 .. 7 : Points[k] \in Thousandths
  BY DEF Points, Thousandths
<1>4. histogram = <<>> /\ Adjusted' = Adjusted
  BY <1>1 DEF Unreported, Early, Adjusted
<1> DEFINE v == summary'
<1>5. ASSUME NEW k \in 1 .. 7
      PROVE  /\ v[k] \in Nat
             /\ raw # <<>> => IsPercentile(Adjusted, Points[k], v[k])
  <2>1. v[k] = Percentile(sorted, Points[k])
    BY <1>2, <1>3
  <2>2. Adjusted \in Seq(Nat) /\ (raw # <<>> => Adjusted # <<>>)
    BY AdjustedTyped
  <2>3. Points[k] \in Thousandths
    BY <1>3
  <2>4. /\ Percentile(sorted, Points[k]) \in Nat
        /\ Adjusted # <<>> =>
             IsPercentile(Adjusted, Points[k], Percentile(sorted, Points[k]))
    BY <2>2, <2>3, PercentileRanked
  <2> HIDE DEF v
  <2> QED
    BY <2>1, <2>2, <2>4
<1>6. summary' \in Seq(Nat) /\ DOMAIN summary' = 1 .. 7
  <2>1. v = [k \in 1 .. 7 |-> Percentile(sorted, Points[k])]
    BY <1>2, <1>3
  <2> HIDE DEF v
  <2>2. v \in [1 .. 7 -> Nat]
    BY <1>5, <2>1
  <2>3. \A m \in Nat : v \in [1 .. m -> Nat] => v \in Seq(Nat)
    OBVIOUS
  <2>4. v \in Seq(Nat)
    BY <2>2, <2>3
  <2>5. DOMAIN v = 1 .. 7
    BY <2>2
  <2> QED
    BY <2>4, <2>5 DEF v
<1>7. raw # <<>>
  <2>1. Len(raw) = config.samples /\ config.samples # 0
    BY DEF PrintSummary, OptionsHold
  <2> QED
    BY <2>1
<1>8. SummaryTellsSamples'
  <2>1. \A k \in 1 .. 7 : IsPercentile(Adjusted, Points[k], summary'[k])
    BY <1>5, <1>7
  <2> QED
    BY <1>4, <1>6, <2>1 DEF SummaryTellsSamples
<1> QED
  BY <1>1, <1>4, <1>6, <1>8
  DEF Typed, Unreported, Early, Labels, ReportTellsSamples,
      HistogramTellsSamples

\* The samples are between their least and their greatest.
LEMMA Extremes ==
  ASSUME Typed, raw # <<>>
  PROVE  LET values == {Adjusted[k] : k \in DOMAIN Adjusted}
             min == CHOOSE v \in values : \A u \in values : v <= u
             max == CHOOSE v \in values : \A u \in values : u <= v
         IN  /\ values # {} /\ min \in values /\ max \in values
             /\ min \in Nat /\ max \in Nat /\ min <= max
             /\ \A v \in values : v \in min .. max
<1> DEFINE values == {Adjusted[k] : k \in DOMAIN Adjusted}
           Least(v) == \A u \in values : v <= u
           Greatest(v) == \A u \in values : u <= v
           min == CHOOSE v \in values : Least(v)
           max == CHOOSE v \in values : Greatest(v)
<1>1. values \in SUBSET Nat /\ values # {}
  <2>1. /\ Adjusted \in Seq(Nat) /\ DOMAIN Adjusted = DOMAIN raw
        /\ DOMAIN raw = 1 .. Len(raw) /\ Len(raw) \in Nat
    BY AdjustedTyped
  <2>2. 1 \in DOMAIN raw
    BY <2>1
  <2>3. \A k \in DOMAIN Adjusted : Adjusted[k] \in Nat
    BY <2>1
  <2> QED
    BY <2>1, <2>2, <2>3
<1>2. IsFiniteSet(values)
  <2>1. IsFiniteSet(DOMAIN Adjusted)
    BY AdjustedTyped, FS_Interval
  <2> DEFINE D == DOMAIN Adjusted
  <2>2. /\ Adjusted \in [D -> values]
        /\ \A v \in values : \E k \in D : Adjusted[k] = v
    BY DEF Adjusted
  <2> HIDE DEF values, D
  <2>3. Adjusted \in Surjection(D, values)
    BY <2>2 DEF Surjection
  <2> QED
    BY <2>1, <2>3, FS_Surjection DEF D
<1> HIDE DEF values
<1>3. \E v \in values : Least(v)
  BY <1>1, LeastNatural
<1>4. \E v \in values : Greatest(v)
  BY <1>1, <1>2, GreatestNatural
<1>5. min \in values /\ Least(min)
  BY <1>3
<1>6. max \in values /\ Greatest(max)
  BY <1>4
<1> HIDE DEF min, max
<1>7. \A v \in values : v \in min .. max
  BY <1>1, <1>5, <1>6
<1>8. min \in Nat /\ max \in Nat /\ min <= max
  BY <1>1, <1>5, <1>6
<1> QED
  BY <1>1, <1>5, <1>6, <1>7, <1>8 DEF values, min, max

\* One line that has them all.
LEMMA OneLineTells ==
  ASSUME Typed, NEW v \in Nat,
         \A k \in DOMAIN raw : Adjusted[k] = v, raw # <<>>,
         histogram' = <<[low |-> v, high |-> v, count |-> Len(Adjusted)]>>,
         raw' = raw, overhead' = overhead
  PROVE  histogram' \in Seq(Lines) /\ HistogramTellsSamples'
<1>1. /\ Len(Adjusted) = Len(raw) /\ Len(raw) \in Nat
      /\ DOMAIN raw = 1 .. Len(raw)
  BY AdjustedTyped
<1>2. Len(raw) # 0
  <2>1. raw \in Seq(Nat)
    BY Zenon DEF Typed
  <2> QED
    BY <2>1
<1> DEFINE h == [low |-> v, high |-> v, count |-> Len(raw)]
<1>3. h \in Lines /\ histogram' = <<h>>
  BY <1>1, <1>2 DEF Lines
<1> DEFINE line == [k \in DOMAIN raw |-> 1]
<1>4. Cardinality({k \in DOMAIN raw : line[k] = 1}) = Len(raw)
  <2>1. {k \in DOMAIN raw : line[k] = 1} = 1 .. Len(raw)
    BY <1>1
  <2>2. 1 \in Int /\ Len(raw) \in Int /\ Cardinality(1 .. Len(raw)) = Len(raw)
    <3>1. 1 \in Int /\ Len(raw) \in Int
      BY <1>1
    <3>2. Cardinality(1 .. Len(raw)) =
            IF 1 > Len(raw) THEN 0 ELSE Len(raw) - 1 + 1
      BY <3>1, FS_Interval
    <3> QED
      BY <1>1, <1>2, <3>1, <3>2
  <2> QED
    BY <2>1, <2>2
<1>5. Adjusted' = Adjusted
  BY DEF Adjusted
<1>6. HistogramTellsSamples'
  <2>1. DOMAIN histogram' = {1} /\ histogram'[1] = h
    BY <1>3
  <2>2. line \in [DOMAIN raw' -> DOMAIN histogram']
    BY <2>1
  <2>3. \A k \in DOMAIN raw' : /\ histogram'[line[k]].low <= Adjusted'[k]
                                /\ Adjusted'[k] <= histogram'[line[k]].high
    BY <1>5, <2>1
  <2>4. \A l \in DOMAIN histogram' :
          histogram'[l].count = Cardinality({k \in DOMAIN raw' : line[k] = l})
    <3>1. {k \in DOMAIN raw' : line[k] = 1} = {k \in DOMAIN raw : line[k] = 1}
      OBVIOUS
    <3>2. histogram'[1].count = Len(raw)
      BY <2>1
    <3> HIDE DEF line
    <3> QED
      BY <1>4, <2>1, <3>1, <3>2
  <2> HIDE DEF line
  <2> QED
    BY <2>2, <2>3, <2>4, Zenon DEF HistogramTellsSamples
<1> QED
  BY <1>3, <1>6

\* Buckets of one width have the samples.
LEMMA LinearTells ==
  ASSUME Typed, config.buckets # 0, NEW min \in Nat, NEW max \in Nat,
         min <= max, \A k \in DOMAIN raw : Adjusted[k] \in min .. max,
         LinearHistogram(Adjusted, min, max),
         raw' = raw, overhead' = overhead
  PROVE  histogram' \in Seq(Lines) /\ HistogramTellsSamples'
<1> DEFINE width == Width(min, max)
           low(k) == min + width * (k - 1)
           at(s) == Lesser((s - min) \div width, config.buckets - 1) + 1
           bucket == [s \in min .. max |-> at(s)]
           range == [k \in 1 .. config.buckets |->
                       <<low(k), Lesser(low(k) + width - 1, max)>>]
           size == config.buckets
<1>1. config.buckets \in Nat \ {0} /\ size \in Nat /\ raw \in Seq(Nat)
  <2>1. config \in Config /\ raw \in Seq(Nat)
    BY Zenon DEF Typed
  <2> QED
    BY <2>1 DEF Config
<1>2. /\ \A k \in 1 .. config.buckets :
           low(k) \in Nat /\ Lesser(low(k) + width - 1, max) \in Nat
      /\ \A s \in min .. max :
           /\ at(s) \in 1 .. config.buckets
           /\ low(at(s)) <= s
           /\ s <= Lesser(low(at(s)) + width - 1, max)
  BY <1>1, LinearBuckets
<1>3. PrintBuckets([k \in 1 .. size |-> CountIn(Adjusted, bucket, k)], range)
  BY DEF LinearHistogram
<1> HIDE DEF low, at, width
<1>4. \A k \in 1 .. size : range[k][1] \in Nat /\ range[k][2] \in Nat
  BY <1>2
<1>5. ASSUME NEW k \in DOMAIN raw
      PROVE  /\ bucket[Adjusted[k]] \in 1 .. size
             /\ range[bucket[Adjusted[k]]][1] <= Adjusted[k]
             /\ Adjusted[k] <= range[bucket[Adjusted[k]]][2]
  <2> DEFINE s == Adjusted[k]
  <2>1. s \in min .. max
    OBVIOUS
  <2> HIDE DEF s
  <2>2. bucket[s] = at(s) /\ at(s) \in 1 .. size
    BY <1>2, <2>1
  <2>3. range[at(s)] = <<low(at(s)), Lesser(low(at(s)) + width - 1, max)>>
    BY <2>2
  <2>4. low(at(s)) <= s /\ s <= Lesser(low(at(s)) + width - 1, max)
    BY <1>2, <2>1
  <2> HIDE DEF bucket, range
  <2>5. /\ bucket[s] \in 1 .. size
        /\ range[bucket[s]][1] <= s /\ s <= range[bucket[s]][2]
    BY <2>2, <2>3, <2>4
  <2> QED
    BY <2>5 DEF s
<1> HIDE DEF bucket, range, size
<1> QED
  BY <1>1, <1>3, <1>4, <1>5, BucketsTell

\* So have those the logarithms may put them in.
LEMMA LogTells ==
  ASSUME Typed, config.buckets # 0, NEW min \in Nat, NEW max \in Nat,
         min <= max, \A k \in DOMAIN raw : Adjusted[k] \in min .. max,
         NEW bucket,
         \A k \in DOMAIN raw :
           bucket[Adjusted[k]] \in LogBuckets(Adjusted[k], min, max),
         LogHistogram(Adjusted, min, max, bucket),
         raw' = raw, overhead' = overhead
  PROVE  histogram' \in Seq(Lines) /\ HistogramTellsSamples'
<1> DEFINE range == [k \in 1 .. config.buckets |->
                       <<Bound(min, max, k - 1), Bound(min, max, k)>>]
           size == config.buckets
<1>1. config.buckets \in Nat \ {0} /\ size \in Nat /\ raw \in Seq(Nat)
  <2>1. config \in Config /\ raw \in Seq(Nat)
    BY Zenon DEF Typed
  <2> QED
    BY <2>1 DEF Config
<1>2. PrintBuckets([k \in 1 .. size |-> CountIn(Adjusted, bucket, k)], range)
  BY DEF LogHistogram
<1>3. \A k \in 0 .. size : Bound(min, max, k) \in Nat
  <2>1. \A k \in 0 .. size : Bound(min, max, k) \in min .. max
    BY <1>1, BoundIs
  <2> QED
    BY <2>1
<1>4. \A k \in 1 .. size : range[k][1] \in Nat /\ range[k][2] \in Nat
  <2>1. \A k \in 1 .. size : k \in 0 .. size /\ k - 1 \in 0 .. size
    BY <1>1
  <2> QED
    BY <1>3, <2>1
<1>5. ASSUME NEW k \in DOMAIN raw
      PROVE  /\ bucket[Adjusted[k]] \in 1 .. size
             /\ range[bucket[Adjusted[k]]][1] <= Adjusted[k]
             /\ Adjusted[k] <= range[bucket[Adjusted[k]]][2]
  <2> DEFINE s == Adjusted[k]
             b == bucket[s]
  <2>1. s \in min .. max /\ b \in LogBuckets(s, min, max)
    OBVIOUS
  <2> HIDE DEF s, b
  <2>2. /\ b \in 1 .. size
        /\ Bound(min, max, b - 1) <= s /\ s <= Bound(min, max, b)
    BY <1>1, <2>1, LogBucketsHold
  <2>3. range[b] = <<Bound(min, max, b - 1), Bound(min, max, b)>>
    BY <2>2
  <2> HIDE DEF range
  <2>4. b \in 1 .. size /\ range[b][1] <= s /\ s <= range[b][2]
    BY <2>2, <2>3
  <2> QED
    BY <2>4 DEF s, b
<1> HIDE DEF range, size
<1> QED
  BY <1>1, <1>2, <1>4, <1>5, BucketsTell

\* Whatever the scale, the lines of the histogram have all samples.
LEMMA PrintHistogramTells ==
  ASSUME Typed, Unreported, OptionsHold, Len(raw) = config.samples,
         SummaryTellsSamples, PrintHistogram
  PROVE  Typed' /\ Unreported' /\ ReportTellsSamples'
<1> DEFINE values == {Adjusted[k] : k \in DOMAIN Adjusted}
           min == CHOOSE v \in values : \A u \in values : v <= u
           max == CHOOSE v \in values : \A u \in values : u <= v
<1>1. /\ pc = "histogram"
      /\ UNCHANGED <<args, config, probe, batch, overhead, warm, ops, raw,
                     summary, csv>>
  BY DEF PrintHistogram
<1>2. raw # <<>> /\ config.buckets # 0
  <2>1. config.samples # 0 /\ config.buckets # 0
    BY DEF OptionsHold
  <2> QED
    BY <2>1
<1>3. /\ values # {} /\ min \in values /\ max \in values
      /\ min \in Nat /\ max \in Nat /\ min <= max
      /\ \A v \in values : v \in min .. max
  BY <1>2, Extremes
<1>4. /\ \/ min = max /\ histogram' = <<[low |-> min, high |-> max,
                                         count |-> Len(Adjusted)]>>
         \/ LinearHistogram(Adjusted, min, max)
         \/ \E bucket \in [values -> 1 .. config.buckets] :
              /\ \A v \in values : bucket[v] \in LogBuckets(v, min, max)
              /\ LogHistogram(Adjusted, min, max, bucket)
      /\ pc' = IF config.csv THEN "create" ELSE "ok"
  <2>1. values # {} /\ ~(min # max /\ config.buckets = 0)
    BY <1>2, <1>3
  <2> QED
    BY <2>1 DEF PrintHistogram, Goto
<1>5. \A k \in DOMAIN raw : Adjusted[k] \in values
  BY AdjustedTyped
<1> HIDE DEF values, min, max
<1>6. \A k \in DOMAIN raw : Adjusted[k] \in min .. max
  BY <1>3, <1>5
<1>7. raw' = raw /\ overhead' = overhead
  BY <1>1
<1>8. histogram' \in Seq(Lines) /\ HistogramTellsSamples'
  <2>1. CASE min = max /\ histogram' = <<[low |-> min, high |-> max,
                                          count |-> Len(Adjusted)]>>
    <3>1. \A k \in DOMAIN raw : Adjusted[k] = min
      BY <1>3, <1>6, <2>1
    <3>2. histogram' = <<[low |-> min, high |-> min, count |-> Len(Adjusted)]>>
      BY <2>1
    <3> QED
      BY <1>2, <1>3, <1>7, <3>1, <3>2, OneLineTells
  <2>2. CASE LinearHistogram(Adjusted, min, max)
    BY <1>2, <1>3, <1>6, <1>7, <2>2, LinearTells
  <2>3. CASE \E bucket \in [values -> 1 .. config.buckets] :
               /\ \A v \in values : bucket[v] \in LogBuckets(v, min, max)
               /\ LogHistogram(Adjusted, min, max, bucket)
    <3>1. PICK bucket \in [values -> 1 .. config.buckets] :
            /\ \A v \in values : bucket[v] \in LogBuckets(v, min, max)
            /\ LogHistogram(Adjusted, min, max, bucket)
      BY <2>3
    <3>2. \A k \in DOMAIN raw :
            bucket[Adjusted[k]] \in LogBuckets(Adjusted[k], min, max)
      BY <1>5, <3>1
    <3> QED
      BY <1>2, <1>3, <1>6, <1>7, <3>1, <3>2, LogTells
  <2> QED
    BY <1>4, <2>1, <2>2, <2>3
<1>9. SummaryTellsSamples'
  <2>1. Adjusted' = Adjusted
    BY <1>7 DEF Adjusted
  <2> QED
    BY <1>1, <2>1 DEF SummaryTellsSamples
<1>10. Typed'
  <2>1. pc' \in Labels
    BY <1>4 DEF Labels, Ended, Panics
  <2> QED
    BY <1>1, <1>8, <2>1 DEF Typed
<1>11. Unreported'
  BY <1>4 DEF Unreported, Early
<1> QED
  BY <1>8, <1>9, <1>10, <1>11 DEF ReportTellsSamples

\* The file gets lines of the table.
LEMMA WriteCsvTyped ==
  ASSUME Typed, Unreported, \E S : csv \in Seq(S), Len(csv) < Len(Table),
         WriteCsv
  PROVE  Typed' /\ Unreported'
<1>1. /\ pc = "write" /\ pc' \in {"ok", "write", "error"}
      /\ UNCHANGED <<args, config, probe, batch, overhead, warm, ops, raw,
                     summary, histogram>>
      /\ \/ csv' = csv \/ csv' = Append(csv, Table[Len(csv) + 1])
         \/ csv' = Append(csv, CutLine)
  BY DEF WriteCsv, Goto
<1>2. csv \in Seq(CsvLine) /\ raw \in Seq(Nat)
  BY Zenon DEF Typed
<1>3. Table[Len(csv) + 1] \in CsvLine
  <2>1. /\ Len(Table) = Len(raw) + 1
        /\ Len(raw) \in Nat /\ Len(csv) \in Nat
    <3>1. Len(csv) \in Nat
      <4> QED
        BY <1>2
    <3> QED
      BY <1>2, <3>1, TableSeq
  <2>2. Len(csv) + 1 \in 1 .. Len(raw) + 1
    BY <2>1
  <2>3. \A k \in 1 .. Len(raw) + 1 : Table[k] \in CsvLine
    <3> DEFINE line == [k \in DOMAIN raw |->
                          Line("sample", raw[k], Adjusted[k])]
    <3>1. \A k \in DOMAIN raw : raw[k] \in Nat /\ Adjusted[k] \in Nat
      BY <1>2, AdjustedTyped
    <3>2. line \in [1 .. Len(raw) -> CsvLine]
      <4>1. \A k \in DOMAIN raw :
              Line("sample", raw[k], Adjusted[k]) \in CsvLine
        BY <3>1 DEF Line, CsvLine
      <4>2. DOMAIN raw = 1 .. Len(raw)
        BY AdjustedTyped
      <4> QED
        BY <4>1, <4>2
    <3>3. Line("header", 0, 0) \in CsvLine
      BY DEF Line, CsvLine
    <3>4. Table = <<Line("header", 0, 0)>> \o line
      BY DEF Table
    <3> HIDE DEF line
    <3>5. line \in Seq(CsvLine)
      BY <2>1, <3>2
    <3>6. Table \in Seq(CsvLine)
      BY <3>3, <3>4, <3>5
    <3> QED
      BY <2>1, <3>6
  <2> QED
    BY <2>2, <2>3
<1>4. csv' \in Seq(CsvLine)
  <2>1. \A l \in CsvLine : Append(csv, l) \in Seq(CsvLine)
    BY <1>2
  <2>2. CutLine \in CsvLine
    BY DEF CutLine, Line, CsvLine
  <2> QED
    BY <1>1, <1>2, <1>3, <2>1, <2>2
<1>5. Typed'
  <2>1. pc' \in Labels
    BY <1>1 DEF Labels, Ended, Panics
  <2> QED
    BY <1>1, <1>4, <2>1 DEF Typed
<1>6. Unreported'
  BY <1>1 DEF Unreported, Early
<1> QED
  BY <1>5, <1>6

\* Every step keeps the types and the report.
LEMMA SInvKept == SInv /\ [Next]_vars => SInv'
<1> SUFFICES ASSUME SInv, [Next]_vars PROVE SInv'
  OBVIOUS
<1>1. EInv /\ WalkInv /\ Typed /\ Unreported /\ ReportTellsSamples
  BY DEF SInv
<1>2. EInv' /\ WalkInv'
  BY <1>1, EInvKept, WalkSteps, WalkNextInv
<1>3. CASE /\ UNCHANGED <<raw, overhead, summary, histogram>>
           /\ Typed' /\ Unreported'
  BY <1>1, <1>2, <1>3, ReportKept DEF SInv
<1>4. CASE Typed' /\ Unreported' /\ summary' = <<>> /\ histogram' = <<>>
  BY <1>2, <1>4, ReportEmpty DEF SInv
<1>5. CASE ParseArg
  BY <1>1, <1>3, <1>5, ParseArgTyped DEF ParseArg
<1>6. CASE CheckOptions
  <2>1. /\ pc = "parse" /\ pc' \in {"make", "error"}
        /\ UNCHANGED <<args, config, probe, batch, overhead, warm, ops, raw,
                       summary, histogram, csv>>
    BY <1>6 DEF CheckOptions, Goto
  <2>2. Typed' /\ Unreported'
    BY <1>1, <2>1 DEF Typed, Unreported, Early, Labels, Ended, Panics
  <2> QED
    BY <1>3, <2>1, <2>2
<1>7. CASE MakeProbe
  BY <1>1, <1>3, <1>7, MakeProbeTyped DEF MakeProbe
<1>8. CASE BuildChain
  <2>1. /\ pc = "build" /\ pc' \in {"overhead", "build"}
        /\ UNCHANGED <<args, config, probe, batch, overhead, warm, ops, raw,
                       summary, histogram, csv>>
    BY <1>8 DEF BuildChain, Goto
  <2>2. Typed' /\ Unreported'
    BY <1>1, <2>1 DEF Typed, Unreported, Early, Labels
  <2> QED
    BY <1>3, <2>1, <2>2
<1>9. CASE MeasureOverhead
  <2>1. pc = "overhead" /\ batch # 0
    BY <1>1, <1>9 DEF MeasureOverhead, EInv, Probing
  <2>2. summary' = <<>> /\ histogram' = <<>>
    BY <1>1, <1>9, <2>1 DEF MeasureOverhead, Unreported, Early
  <2> QED
    BY <1>1, <1>4, <1>9, <2>1, <2>2, MeasureOverheadTyped
<1>10. CASE RunOnce
  <2>1. pc = "sample" /\ batch # 0
    BY <1>1, <1>10 DEF RunOnce, EInv, Probing
  <2>2. summary' = <<>> /\ histogram' = <<>>
    BY <1>1, <1>10, <2>1 DEF RunOnce, Unreported, Early
  <2> QED
    BY <1>1, <1>4, <1>10, <2>1, <2>2, RunOnceTyped
<1>11. CASE ProbeFails
  <2>1. /\ pc = "sample" /\ pc' = "probePanic"
        /\ UNCHANGED <<args, config, probe, batch, overhead, warm, ops, raw,
                       summary, histogram, csv>>
    BY <1>11 DEF ProbeFails, Goto
  <2>2. Typed' /\ Unreported'
    BY <1>1, <2>1 DEF Typed, Unreported, Early, Labels, Ended, Panics
  <2> QED
    BY <1>3, <2>1, <2>2
<1>12. CASE PrintSummary
  <2>1. pc = "sample" /\ OptionsHold
    BY <1>1, <1>12 DEF PrintSummary, EInv, Probing
  <2> QED
    BY <1>1, <1>2, <1>12, <2>1, PrintSummaryTells DEF SInv
<1>13. CASE PrintHistogram
  <2>1. OptionsHold /\ Len(raw) = config.samples
    BY <1>1, <1>13 DEF PrintHistogram, EInv, Probing, Taken
  <2>2. SummaryTellsSamples
    BY <1>1 DEF ReportTellsSamples
  <2> QED
    BY <1>1, <1>2, <1>13, <2>1, <2>2, PrintHistogramTells DEF SInv
<1>14. CASE CreateCsv
  <2>1. /\ pc = "create" /\ pc' \in {"write", "error"}
        /\ UNCHANGED <<args, config, probe, batch, overhead, warm, ops, raw,
                       summary, histogram>>
        /\ csv' = <<>> \/ csv' = csv
    BY <1>14 DEF CreateCsv, Goto
  <2>2. csv \in Seq(CsvLine)
    BY <1>1, Zenon DEF Typed
  <2>3. csv' \in Seq(CsvLine)
    <3>1. <<>> \in Seq(CsvLine)
      OBVIOUS
    <3>2. csv' = <<>> \/ csv' = csv
      BY <2>1
    <3> QED
      BY <2>2, <3>1, <3>2
  <2>4. Typed' /\ Unreported'
    BY <1>1, <2>1, <2>3 DEF Typed, Unreported, Early, Labels, Ended, Panics
  <2> QED
    BY <1>3, <2>1, <2>4
<1>15. CASE WriteCsv
  <2>1. /\ \E S : csv \in Seq(S)
        /\ Len(csv) < Len(Table)
    BY <1>1, <1>15 DEF WriteCsv, EInv
  <2>2. UNCHANGED <<raw, overhead, summary, histogram>>
    BY <1>15 DEF WriteCsv
  <2> QED
    BY <1>1, <1>3, <1>15, <2>1, <2>2, WriteCsvTyped
<1>16. CASE UNCHANGED vars
  <2>1. UNCHANGED <<args, config, pc, probe, batch, overhead, warm, ops, raw,
                    summary, histogram, csv>>
    BY <1>16 DEF vars, sampler
  <2>2. Typed' /\ Unreported'
    BY <1>1, <2>1 DEF Typed, Unreported
  <2> QED
    BY <1>3, <2>1, <2>2
<1>17. CASE AllocFails
  <2>1. /\ pc' = "allocPanic"
        /\ UNCHANGED <<args, config, probe, batch, overhead, warm, ops, raw,
                       summary, histogram, csv>>
    BY <1>17 DEF AllocFails, Goto
  <2>2. Typed' /\ Unreported'
    BY <1>1, <2>1 DEF Typed, Unreported, Early, Labels, Ended, Panics
  <2> QED
    BY <1>3, <2>1, <2>2
<1> QED
  BY <1>5, <1>6, <1>7, <1>8, <1>9, <1>10, <1>11, <1>12, <1>13, <1>14, <1>15,
     <1>16, <1>17
  DEF Next, Finished

\* At first there is a command line and nothing else.
LEMMA SInvInit == Init => SInv
<1> SUFFICES ASSUME Init PROVE SInv
  OBVIOUS
<1>1. EInv
  <2>1. raw = <<>>
    BY DEF Init
  <2>2. <<>> \in Seq({})
    OBVIOUS
  <2> QED
    BY <2>1, <2>2 DEF Init, EInv, EndTellsResult, Probing, Taken
<1>2. WalkInv
  BY WalkInitInv DEF Init
<1>3. Typed
  <2>1. args \in CommandLines /\ args \in Seq(Argument)
    BY OptionsAssumption DEF Init
  <2>2. 0 \in 0 .. Len(args) /\ args = SubSeq(args, 0 + 1, Len(args))
    <3> HIDE DEF Argument
    <3> QED
      BY <2>1
  <2>3. \E line \in CommandLines : \E k \in 0 .. Len(line) :
          args = SubSeq(line, k + 1, Len(line))
    BY <2>1, <2>2
  <2>4. config \in Config
    BY OptionsAssumption DEF Init
  <2>5. csv \in Seq(CsvLine)
    <3>1. csv = <<Line("old", 0, 0)>>
      BY DEF Init, OldCsv
    <3>2. Line("old", 0, 0) \in CsvLine
      BY DEF Line, CsvLine
    <3> QED
      BY <3>1, <3>2
  <2>6. /\ raw = <<>> /\ summary = <<>> /\ histogram = <<>>
        /\ pc = "parse" /\ probe = ""
        /\ batch = 0 /\ overhead = 0 /\ warm = 0 /\ ops = 0
    BY DEF Init
  <2>7. /\ raw \in Seq(Nat) /\ summary \in Seq(Nat)
        /\ histogram \in Seq(Lines)
    <3>1. <<>> \in Seq(Nat) /\ <<>> \in Seq(Lines)
      OBVIOUS
    <3> QED
      BY <2>6, <3>1
  <2>8. Len(raw) <= config.samples
    <3>1. config.samples \in Nat /\ Len(raw) = 0
      BY <2>4, <2>6 DEF Config
    <3> QED
      BY <3>1
  <2> QED
    BY <2>3, <2>4, <2>5, <2>6, <2>7, <2>8 DEF Typed, Labels
<1>4. Unreported
  BY DEF Init, Unreported
<1>5. ReportTellsSamples
  <2>1. summary = <<>> /\ histogram = <<>>
    BY DEF Init
  <2>2. DOMAIN summary = {}
    BY <2>1
  <2> QED
    BY <2>1, <2>2
    DEF ReportTellsSamples, SummaryTellsSamples, HistogramTellsSamples
<1> QED
  BY <1>1, <1>2, <1>3, <1>4, <1>5 DEF SInv

\* Every variable keeps its type, for every command line: the rest of the line
\* is one, no option takes a value that is not its own, and no line of the
\* histogram is printed without a sample (latency.rs 94-154, 519-523).
THEOREM SamplerTyped == Spec => []TypeOK
<1>1. SInv => TypeOK
  BY DEF SInv, WalkInv, Typed, TypeOK, Lines, CsvLine
<1> QED
  BY SInvInit, SInvKept, <1>1, PTL DEF Spec

\* What is printed is about all samples and only about them: each percentile
\* has its share of them on both sides, and they can be dealt out to the lines
\* of the histogram so that each is in the range of its line, for the linear
\* and the logarithmic scale and any number of buckets (latency.rs 402-447 and
\* 465-538).
THEOREM ReportTellsAll == Spec => []ReportTellsSamples
<1>1. SInv => ReportTellsSamples
  BY DEF SInv
<1> QED
  BY SInvInit, SInvKept, <1>1, PTL DEF Spec
=============================================================================
