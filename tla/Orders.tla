------------------------------- MODULE Orders -------------------------------
(***************************************************************************)
(* Sorting, as the calls of sort.Slice do it: a finite set whose members   *)
(* the relation R orders strictly, as the one sequence in which each comes *)
(* before those it is less than.                                           *)
(***************************************************************************)
EXTENDS Naturals, FiniteSets

SortedBy(S, R) ==
    CHOOSE q \in [1 .. Cardinality(S) -> S] :
        \A i, j \in 1 .. Cardinality(S) : i < j => <<q[i], q[j]>> \in R
=============================================================================
