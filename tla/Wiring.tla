------------------------------- MODULE Wiring -------------------------------
(* Families of small definitions for the model checker: cells, in order of    *)
(* their identifiers, and all the ways of wiring them that a choice of        *)
(* drivers for each input port allows.                                       *)
EXTENDS Netlist, Sequences, FiniteSetsExt

In1  == [tp |-> "PORT", dir |-> "in",  width |-> 1]
Out1 == [tp |-> "PORT", dir |-> "out", width |-> 1]
Gate(tp) == [tp |-> tp, width |-> 1]
Reg(posedge, init) == [tp |-> "REG", width |-> 1, init |-> <<init>>, clkPos |-> posedge]
RegRst == [tp |-> "REG_ARST", width |-> 1, init |-> <<0>>, clkPos |-> TRUE, rstPos |-> FALSE]
Mem    == [tp |-> "MEM", width |-> 1, addr |-> 1]
Constant(v) == [tp |-> "CONST", width |-> 1, init |-> <<v>>]

Placed(cells) ==
  [EmptyNet EXCEPT !.type = [c \in CellId |-> IF c <= Len(cells) THEN cells[c] ELSE NoType],
                   !.next = Len(cells) + 1,
                   !.portCells = {c \in 1 .. Len(cells) : cells[c].tp = "PORT"}]

OutOf(n, c) == CHOOSE b \in OutBits(n) : b.cell = c

\* Choice[c][p]: the cells that may drive input port p of cell c.
Wirings(cells, Choice) ==
  LET n == Placed(cells)
      Wire(r, wired) == UNION {{SetDriver(m, r, OutOf(n, d)) : m \in wired} :
                               d \in Choice[r.cell][r.port]}
  IN  FoldSet(Wire, {n}, InBits(n))

NoPorts == {}   \* the ports of a cell without inputs

-----------------------------------------------------------------------------
RegPos == Reg(TRUE, 0)
RegNeg == Reg(FALSE, 1)

\* Two registers, of either edge, behind a gate that both feed.
Pipelines ==
  Wirings(<<In1, In1, Gate("AND"), RegPos, RegNeg>>,
          <<NoPorts, NoPorts, [IN0 |-> {2, 4}, IN1 |-> {1, 5}],
            [IN |-> {3, 5}, CLK |-> {1, 2}], [IN |-> {2, 3}, CLK |-> {1}]>>)

\* A register with a reset that falls, one without, and an output.
Resettable ==
  Wirings(<<In1, In1, Gate("XOR"), RegRst, Out1>>,
          <<NoPorts, NoPorts, [IN0 |-> {1, 2}, IN1 |-> {2, 4}],
            [IN |-> {2, 3}, CLK |-> {1}, ARST |-> {1, 2}], [IN |-> {4}]>>)

\* A memory whose read port goes to a register and back to its inputs.
WithMemory ==
  Wirings(<<In1, In1, Mem, RegPos>>,
          <<NoPorts, NoPorts, [RADDR |-> {2, 4}, WADDR |-> {2, 4}, WDATA |-> {2, 3}, WEN |-> {1, 2},
                         CLK |-> {1}], [IN |-> {3}, CLK |-> {1}]>>)
=============================================================================
