------------------------------ MODULE Sorting -------------------------------
(***************************************************************************)
(* A finite set in the order of a relation, which is a set of pairs.       *)
(***************************************************************************)
EXTENDS Naturals, FiniteSets

InOrder(S, before) ==
  CHOOSE s \in [1..Cardinality(S) -> S] :
    /\ {s[i] : i \in DOMAIN s} = S
    /\ \A i, j \in DOMAIN s : i < j => <<s[i], s[j]>> \in before
=============================================================================
