--------------------------- MODULE CellSemantics ---------------------------
(***************************************************************************)
(* What the cells of a definition compute, as class Simulator has them:    *)
(* the function of every combinational cell and the edges that clock the   *)
(* others, for definitions whose ports are one bit wide.                   *)
(***************************************************************************)
EXTENDS Netlist, QuadValue

Addr == {0, 1}          \* a one-bit address: memories of depth two

Unary     == {"PASSTHROUGH", "NOT", "ZEXT", "SLICE", "ORR", "ANDR"}
Binary    == Comparator \cup {"AND", "OR", "XOR", "ADD", "SUB"}
Simulated == Unary \cup Binary \cup {"PORT", "CONST", "MUX", "REG", "REG_ARST", "MEM"}

\* Every port is one bit wide and updatePort knows every cell type.
ASSUME SemanticsAssumption ==
  /\ MaxWidth = 1
  /\ \A k \in Kind :
       /\ k.tp \in Simulated
       /\ \A p \in DOMAIN PortWidths(k) : PortWidths(k)[p] = 1
       /\ k.tp \in {"CONST", "REG", "REG_ARST"} => k.init[1] \in Val

-----------------------------------------------------------------------------
Tp(n, c) == n.type[c].tp

Inputs(n)    == {c \in Cells(n) : Tp(n, c) = "PORT" /\ n.type[c].dir = "in"}
Registers(n) == {c \in Cells(n) : Tp(n, c) \in {"REG", "REG_ARST"}}
Memories(n)  == {c \in Cells(n) : Tp(n, c) = "MEM"}

\* The cells updatePort evaluates; it leaves registers, constants and input
\* ports alone.
Evaluated(n) == {c \in Cells(n) \ (Inputs(n) \cup Registers(n)) : Tp(n, c) # "CONST"}

PinOf(c, p) == [cell |-> c, port |-> p, offset |-> 0]
SigPort(b)  == [cell |-> b.cell, port |-> b.port]

\* The order of a std::set<SigPort>: by cell, then by the number of the port.
PortId == [IN |-> 0, IN0 |-> 1, IN1 |-> 2, OUT |-> 3, SEL |-> 4, CLK |-> 5, ARST |-> 6,
           RADDR |-> 7, RDATA |-> 8, WADDR |-> 9, WDATA |-> 10, WEN |-> 11]

Below(s, t) == s.cell < t.cell \/ (s.cell = t.cell /\ PortId[s.port] < PortId[t.port])

First(S) == CHOOSE s \in S : \A t \in S : s = t \/ Below(s, t)

\* sequentialDependencies, and the rest of the receivers of a cell's output.
OutReceivers(n, c)  == UNION {n.receivers[PinOf(c, p)] : p \in OutPort}
SeqReceivers(n, c)  == {SigPort(r) : r \in {b \in OutReceivers(n, c) : b.port \in {"CLK", "ARST"}}}

\* fault: the loop over the receivers keeps the last only
CombReceiversLast(n, c) ==
  LET all == {SigPort(r) : r \in {b \in OutReceivers(n, c) : b.port \notin {"CLK", "ARST"}}}
  IN  IF all = {} THEN {} ELSE {CHOOSE s \in all : \A t \in all : t.cell <= s.cell}

CombReceivers(n, c) == {SigPort(r) : r \in {b \in OutReceivers(n, c) : b.port \notin {"CLK", "ARST"}}}

\* The cell whose past value getPastValue reads is the driver of the port.
Driver(n, c, p) == n.drivers[PinOf(c, p)].cell

\* materializeInput, when the outputs have the values v.
In(n, v, c, p) == v[Driver(n, c, p)]

\* updatePort: what a cell puts on its output when the memories hold m.  A
\* multiplexer that does not know its select passes IN0; a memory that does
\* not know its address reads the number 21, of which one bit is left.
Eval(n, v, m, c) ==
  LET tp == Tp(n, c)
      a  == In(n, v, c, "IN")
      x  == In(n, v, c, "IN0")
      y  == In(n, v, c, "IN1")
  IN  CASE tp \in {"PORT", "PASSTHROUGH", "ZEXT", "SLICE"} -> a
        [] tp = "NOT"            -> QNot(a)
        [] tp \in {"ORR", "ANDR"} -> Bool(a = 1)
        [] tp = "AND"            -> QAnd(x, y)
        [] tp = "OR"             -> QOr(x, y)
        [] tp \in {"XOR", "ADD", "SUB"} -> QXor(x, y)
        [] tp = "EQ"             -> Bool(QEquals(x, y))
        [] tp = "NEQ"            -> Bool(~QEquals(x, y))
        [] tp = "ULT"            -> Bool(QLess(x, y))
        [] tp = "UGT"            -> Bool(QLess(y, x))
        [] tp = "ULE"            -> Bool(QLess(x, y) \/ QEquals(x, y))
        [] tp = "UGE"            -> Bool(QLess(y, x) \/ QEquals(x, y))
        [] tp = "MUX"            -> IF In(n, v, c, "SEL") = 1 THEN y ELSE x
        [] tp = "MEM"            -> IF IsBinary(In(n, v, c, "RADDR"))
                                    THEN m[c][In(n, v, c, "RADDR")] ELSE 21 % 2

\* The input ports updatePort reads of a combinational cell.
Reads(tp) ==
  IF tp \in Binary THEN {"IN0", "IN1"}
  ELSE IF tp = "MUX" THEN {"IN0", "IN1", "SEL"}
  ELSE IF tp = "MEM" THEN {"RADDR"}
  ELSE {"IN"}

\* The input ports a load of a register or memory reads.
Samples(tp) == IF tp = "MEM" THEN {"WADDR", "WDATA", "WEN"} ELSE {"IN"}

\* A definition without combinational cycles: of any combinational cells one reads none of the others.
Acyclic(n) ==
  \A S \in SUBSET Evaluated(n) :
    S # {} => \E c \in S : \A p \in Reads(Tp(n, c)) : Driver(n, c, p) \notin S

\* The value the constructor gives an output.
InitialValue(n, c) ==
  CASE c \notin Cells(n) -> X
    [] c \in Memories(n) -> 0
    [] c \in Cells(n) /\ Tp(n, c) \in {"CONST", "REG", "REG_ARST"} -> n.type[c].init[1]
    [] OTHER -> X

\* The value of output c, given inputs, register states, memories and the values v of
\* the outputs.
WireValue(n, in, r, m, v, c) ==
  IF c \in Evaluated(n)      THEN Eval(n, v, m, c)
  ELSE IF c \in Inputs(n)    THEN in[c]
  ELSE IF c \in Registers(n) THEN r[c]
  ELSE InitialValue(n, c)

\* The value of every output.
Wires(n, in, r, m) ==
  LET wire[c \in CellId] == WireValue(n, in, r, m, wire, c) IN wire

\* An edge of a clock or reset: unknown values are no part of one.
Edge(positive, old, new) == IF positive THEN old = 0 /\ new = 1 ELSE old = 1 /\ new = 0
=============================================================================
