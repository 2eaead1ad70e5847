--------------------------- MODULE MCFoldByState ---------------------------
(* Families of small definitions foldConstantsWRTState is checked on.        *)
EXTENDS FoldByState, Wiring

Kinds == {In1, Out1, Reg(TRUE, 0), RegRst} \cup {Constant(v) : v \in Val}
           \cup {Gate(t) : t \in {"AND", "OR", "NOT", "MUX"}}

\* A multiplexer, before or after what it reads, whose inputs and select may be constant;
\* gates and a port read it or the constants, one of which may be unknown.
Selecting ==
  UNION {Wirings(<<In1, Constant(v), Gate("NOT"), Gate("MUX"), Gate("NOT"), Gate("AND"), Out1>>,
           <<NoPorts, NoPorts, [IN |-> {1, 2}],
             [IN0 |-> {2, 3}, IN1 |-> {1, 5}, SEL |-> {1, 3, 5}], [IN |-> {1, 2}],
             [IN0 |-> {4, 5}, IN1 |-> {1}], [IN |-> {4, 6}]>>) : v \in {0, 1, X}}

\* Registers that keep their value or load a constant, and clocks that may stand still.
Keeping ==
  UNION {Wirings(<<In1, Constant(v), RegRst, Reg(TRUE, 0), Gate("OR"), Gate("MUX"), Out1>>,
           <<NoPorts, NoPorts, [IN |-> {2, 3}, CLK |-> {1}, ARST |-> {1, 2, 4}],
             [IN |-> {2, 4}, CLK |-> {1, 2}], [IN0 |-> {3}, IN1 |-> {4}],
             [IN0 |-> {1}, IN1 |-> {4}, SEL |-> {3, 5}], [IN |-> {6}]>>) : v \in {0, 1}}

Folded == Selecting \cup Keeping

ASSUME EveryOrderly == Orderly
=============================================================================
