------------------------------ MODULE Ordering ------------------------------
(***************************************************************************)
(* The order in which C++ iterates over a set: the elements of a finite    *)
(* set as a sequence, each at the place that is its rank.  (SetToSortSeq   *)
(* of SequencesExt gives the same sequence, through an operator of TLC that *)
(* proofs cannot look into.)                                               *)
(***************************************************************************)
EXTENDS Integers, FiniteSets

InOrderOf(S, less(_, _)) ==
  [i \in 1 .. Cardinality(S) |->
     CHOOSE s \in S : Cardinality({t \in S : less(t, s)}) = i - 1]
=============================================================================
