------------------------------- MODULE MCFold -------------------------------
(* Families of small definitions foldConstants is checked on.                *)
EXTENDS FoldConstants, Wiring

Kinds == {Mem, In1, Out1, Reg(TRUE, 0), RegRst} \cup {Constant(v) : v \in Val}
           \cup {Gate(t) : t \in {"AND", "OR", "NOT", "ULE", "MUX"}}

\* A configuration register: a multiplexer, whose select may be constant, gives it
\* its own value or a new one; gates read it.
Configured ==
  UNION {Wirings(<<In1, In1, Constant(v), Gate("MUX"), Reg(TRUE, 0), Gate(t), Out1>>,
           <<NoPorts, NoPorts, NoPorts,
             [IN0 |-> {1, 5}, IN1 |-> {3, 5}, SEL |-> {1, 3}], [IN |-> {4, 5}, CLK |-> {2}],
             [IN0 |-> {1, 3, 4}, IN1 |-> {5}], [IN |-> {6}]>>) :
         v \in Val, t \in {"OR", "ULE"}}

\* Registers one of which may reset, that read each other, a constant or themselves.
Resetting ==
  UNION {Wirings(<<In1, Constant(v), RegRst, Reg(TRUE, 0), Gate("OR"), Out1>>,
           <<NoPorts, NoPorts, [IN |-> {2, 3, 4}, CLK |-> {1}, ARST |-> {1, 2, 5}],
             [IN |-> {3, 4, 5}, CLK |-> {1}], [IN0 |-> {3, 4}, IN1 |-> {2}], [IN |-> {5}]>>) :
         v \in {0, 1}}

\* A memory that only a port reads; an address may be known to be unknown.
ReadMemory ==
  UNION {Wirings(<<In1, Constant(v), Mem, Out1>>,
           <<NoPorts, NoPorts, [RADDR |-> {1, 2}, WADDR |-> {1, 2}, WDATA |-> {2, 3},
                                WEN |-> {1, 2}, CLK |-> {1, 2}], [IN |-> {3}]>>) :
         v \in Val}

Folded == Configured \cup Resetting \cup ReadMemory

\* A memory with constant inputs that a gate reads.
ConstantMemory ==
  Wirings(<<Constant(0), Mem, Gate("NOT"), Out1>>,
          <<NoPorts, [RADDR |-> {1}, WADDR |-> {1}, WDATA |-> {1}, WEN |-> {1}, CLK |-> {1}],
            [IN |-> {2}], [IN |-> {3}]>>)

ASSUME EveryOrderly == Orderly
=============================================================================
