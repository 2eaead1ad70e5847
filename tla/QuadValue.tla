----------------------------- MODULE QuadValue -----------------------------
(***************************************************************************)
(* One bit of a signal: the class quad_value.  0 and 1 are binary, 2 is    *)
(* unknown, 3 is high impedance.  Every operator asserts that its operands *)
(* are not high impedance, so signals range over Val.  The operators on    *)
(* one-bit vectors that the interpreter uses are here too.                 *)
(***************************************************************************)
EXTENDS Naturals

X   == 2                     \* QBV_UNKNOWN_VALUE
Val == 0 .. 2

IsBinary(a) == a \in {0, 1}

\* faults: operands that are not binary are not told apart
QAndProduct(a, b) == a * b
QXorSum(a, b)     == IF a + b = 2 THEN 0 ELSE a + b

QAnd(a, b) == IF a = 0 \/ b = 0 THEN 0 ELSE IF a = X \/ b = X THEN X ELSE 1
QOr(a, b)  == IF a = 1 \/ b = 1 THEN 1 ELSE IF a = X \/ b = X THEN X ELSE 0
QXor(a, b) == IF a = X \/ b = X THEN X ELSE (a + b) % 2
QNot(a)    == IF a = X THEN X ELSE 1 - a

\* equals: an unknown bit equals nothing, itself included.
QEquals(a, b) == a # X /\ b # X /\ a = b

Bool(p) == IF p THEN 1 ELSE 0

\* The order std::set uses on one-bit vectors: unknown is below nothing.
QLess(a, b) == IsBinary(a) /\ IsBinary(b) /\ a < b
=============================================================================
