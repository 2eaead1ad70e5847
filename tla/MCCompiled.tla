----------------------------- MODULE MCCompiled -----------------------------
(* Families of small circuits the compiled simulation is checked on.         *)
EXTENDS Compiled, Wiring

Logic == {In1, Out1, Constant(1), RegPos, RegNeg, RegRst, Mem}
           \cup {Gate(t) : t \in {"AND", "NOT", "XOR", "MUX"}}

\* Registers clocked by a gate and by each other, behind gates in any order.
Chained ==
  Wirings(<<In1, Gate("NOT"), RegPos, RegNeg, Gate("MUX"), Constant(1)>>,
          <<NoPorts, [IN |-> {1, 3, 5}], [IN |-> {1, 4}, CLK |-> {1, 4}],
            [IN |-> {2, 3}, CLK |-> {1, 2}], [IN0 |-> {1, 3}, IN1 |-> {4, 6}, SEL |-> {1}], NoPorts>>)

\* None may help to clock itself.
Clocks(n, d) == {s.cell : s \in SeqReceivers(n, d) \cup CombDependencies(n, d)}
Ends(n) ==
  LET after[k \in 0 .. MaxId] ==
        [c \in Cells(n) |-> IF k = 0 THEN Clocks(n, c)
                            ELSE after[k - 1][c] \cup UNION {Clocks(n, d) : d \in after[k - 1][c]}]
  IN  \A c \in Cells(n) : c \notin after[MaxId][c]

\* A memory that is read at an input port or behind a gate, is clocked by a port or a register,
\* and is compared with what a gate makes of the address or with a state.
ReadAtInputs ==
  Wirings(<<In1, In1, Gate("NOT"), Mem, RegPos, Gate("XOR")>>,
          <<NoPorts, NoPorts, [IN |-> {2}],
            [RADDR |-> {2, 3}, WADDR |-> {2, 5}, WDATA |-> {5}, WEN |-> {2}, CLK |-> {1, 5}],
            [IN |-> {2}, CLK |-> {1}], [IN0 |-> {4}, IN1 |-> {3, 5}]>>)

Compilable == Pipelines \cup Resettable \cup ReadAtInputs \cup {n \in Chained : Ends(n)}

\* What the theorems ask of the definitions they are about.
ASSUME EveryCompilable ==
  \A n \in Compilable : Acyclic(n) /\ AddressesHoldStill(n) /\ LoadsNoReads(n)

\* A sum that is compared with an input or with zero.
Arithmetic == Logic \cup {Constant(0), Gate("ADD"), Gate("EQ")}
Sums ==
  Wirings(<<In1, In1, Constant(0), Gate("ADD"), Gate("EQ"), Out1>>,
          <<NoPorts, NoPorts, NoPorts, [IN0 |-> {1}, IN1 |-> {2}],
            [IN0 |-> {4}, IN1 |-> {1, 3}], [IN |-> {5}]>>)
=============================================================================
