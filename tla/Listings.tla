------------------------------ MODULE Listings ------------------------------
(***************************************************************************)
(* A list of the elements of a finite set, for loops over a Go slice whose *)
(* order no property depends on.  The definition stands alone, without the *)
(* modules SequencesExt extends, to keep the provers' context small.       *)
(***************************************************************************)
EXTENDS Naturals, FiniteSets, Sequences, Functions

Listing(S) == CHOOSE list \in [1..Cardinality(S) -> S] : Range(list) = S

\* The list sorted by a strict total order.
Sorted(S, Less(_, _)) ==
    CHOOSE list \in [1..Cardinality(S) -> S] :
        \A i, j \in 1..Cardinality(S) : i < j => Less(list[i], list[j])
=============================================================================
