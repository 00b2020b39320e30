------------------------------ MODULE Arrange ------------------------------
(***************************************************************************)
(* What sort and filter make of a Vec, stated by their results rather than *)
(* computed: the elements at some places of a sequence, in an order of the *)
(* places.                                                                 *)
(***************************************************************************)
EXTENDS Naturals, Sequences, FiniteSets, SequencesExt

Arranged(s, places, Less(_, _)) ==
  LET order == CHOOSE p \in SetToSeqs(places) :
                 \A i, j \in DOMAIN p : i < j => Less(p[i], p[j])
  IN  [k \in DOMAIN order |-> s[order[k]]]

\* sort_by, which is stable: ties stay in the order they were in.
SortedBy(s, Before(_, _)) ==
  Arranged(s, DOMAIN s, LAMBDA a, b : \/ Before(s[a], s[b])
                                      \/ ~Before(s[b], s[a]) /\ a < b)

\* filter keeps the order.
Filtered(s, places) == Arranged(s, places, <)
=============================================================================
