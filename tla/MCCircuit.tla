----------------------------- MODULE MCCircuit -----------------------------
(* A small cell library for the model checker: a slice of a bus, to wire from *)
(* a constant of its width or bit by bit, and gates and ports of one bit.     *)
EXTENDS Serialize

In1    == [tp |-> "PORT", dir |-> "in", width |-> 1]
Out1   == [tp |-> "PORT", dir |-> "out", width |-> 1]
Not1   == [tp |-> "NOT", width |-> 1]
Const1 == [tp |-> "CONST", width |-> 1, init |-> <<0>>]
Const2 == [tp |-> "CONST", width |-> 2, init |-> <<0, 1>>]
Slice  == [tp |-> "SLICE", width |-> 2, lo |-> 1, hi |-> 2]

Library == {In1, Out1, Not1, Const1, Slice, Const2}
=============================================================================
