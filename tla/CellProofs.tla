----------------------------- MODULE CellProofs -----------------------------
(***************************************************************************)
(* What the combinational functions of the cells depend on and return.     *)
(***************************************************************************)
EXTENDS CellSemantics, NetlistProofs

-----------------------------------------------------------------------------
(* The cells.                                                                *)

CombTypes == Unary \cup Binary \cup {"PORT", "MUX", "MEM"}

LEMMA OutputTypes ==
  /\ \A a, b \in Val : /\ QAnd(a, b) \in Val /\ QOr(a, b) \in Val /\ QXor(a, b) \in Val
                       /\ QNot(a) \in Val
  /\ \A p \in BOOLEAN : Bool(p) \in Val
  /\ X \in Val /\ 21 % 2 \in Val
BY DEF QAnd, QOr, QXor, QNot, Bool, Val, X

\* The constructor of Cell gives a combinational cell the ports it reads.
LEMMA ReadsArePorts ==
  ASSUME NEW k \in Kind, k.tp \in CombTypes, k.tp = "PORT" => k.dir # "in"
  PROVE  /\ Reads(k.tp) \subseteq DOMAIN PortWidths(k)
         /\ Reads(k.tp) \subseteq {"IN", "IN0", "IN1", "SEL", "RADDR"}
         /\ Reads(k.tp) # {}
<1>1. CASE k.tp = "PORT"
  BY <1>1 DEF PortWidths, Reads, Unary, Binary, Comparator, Binop, ReduceOp, Unop
<1>2. CASE k.tp \in {"ORR", "ANDR"}
  BY <1>2 DEF PortWidths, Reads, Unary, Binary, Comparator, Binop, ReduceOp, Unop
<1>3. CASE k.tp \in {"NOT", "PASSTHROUGH"}
  BY <1>3 DEF PortWidths, Reads, Unary, Binary, Comparator, Binop, ReduceOp, Unop
<1>4. CASE k.tp \in {"ZEXT", "SLICE"}
  BY <1>4 DEF PortWidths, Reads, Unary, Binary, Comparator, Binop, ReduceOp, Unop
<1>5. CASE k.tp \in Comparator
  BY <1>5 DEF PortWidths, Reads, Unary, Binary, Comparator, Binop, ReduceOp, Unop
<1>6. CASE k.tp \in {"AND", "OR", "XOR", "ADD", "SUB"}
  BY <1>6 DEF PortWidths, Reads, Unary, Binary, Comparator, Binop, ReduceOp, Unop
<1>7. CASE k.tp = "MUX"
  BY <1>7 DEF PortWidths, Reads, Unary, Binary, Comparator, Binop, ReduceOp, Unop
<1>8. CASE k.tp = "MEM"
  BY <1>8 DEF PortWidths, Reads, Unary, Binary, Comparator, Binop, ReduceOp, Unop
<1> QED BY <1>1, <1>2, <1>3, <1>4, <1>5, <1>6, <1>7, <1>8 DEF CombTypes, Unary, Binary

LEMMA SamplesArePorts ==
  ASSUME NEW k \in Kind, k.tp \in {"REG", "REG_ARST", "MEM"}
  PROVE  /\ Samples(k.tp) \subseteq DOMAIN PortWidths(k)
         /\ Samples(k.tp) \subseteq {"IN", "WADDR", "WDATA", "WEN"}
BY DEF PortWidths, Samples, Comparator, Binop, ReduceOp, Unop

\* An input port of a cell is a bit, and in a definition without undriven inputs
\* it is among the receivers of the output of some cell.
LEMMA PortIsDriven ==
  ASSUME NEW n, WellFormed(n), FullyDriven(n), NEW c \in Cells(n),
         NEW p \in DOMAIN PortWidths(n.type[c]),
         p \in {"IN", "IN0", "IN1", "SEL", "RADDR", "WADDR", "WDATA", "WEN", "CLK", "ARST"}
  PROVE  /\ PinOf(c, p) \in InBits(n)
         /\ Driver(n, c, p) \in Cells(n)
         /\ PinOf(c, p) \in OutReceivers(n, Driver(n, c, p))
<1> DEFINE k == n.type[c]
           r == PinOf(c, p)
           d == n.drivers[r]
<1>0. n \in Net /\ EndsAgreeIn(n) /\ WiresExistIn(n)
  BY DEF WellFormed
<1>1. c \in CellId /\ k \in Kind /\ k # NoType
  BY <1>0, NetFields DEF Cells
<1>2. p \in Port /\ p \in InPort
  BY <1>1 DEF Port, InPort
<1>3. Width(k, p) = 1
  BY <1>1, SemanticsAssumption DEF Width
<1>4. r \in InBits(n)
  <2>1. 0 \in Offset
    BY NetlistAssumption DEF Offset
  <2> QED BY <1>1, <1>2, <1>3, <2>1 DEF InBits, PinOf, Bit, InPort
<1>5. r \in Bit /\ d # NoBit /\ d \in OutBits(n)
  BY <1>0, <1>4 DEF FullyDriven, WiresExistIn, InBits
<1>6. d.cell \in Cells(n) /\ d.port \in OutPort /\ d.offset = 0 /\ d \in Bit
  <2>1. d \in Bit /\ d.port \in OutPort /\ d.offset \in Offset /\ d.cell \in CellId
    BY <1>5 DEF OutBits, Bit
  <2>2. d.offset = 0
    BY <2>1, SemanticsAssumption DEF Offset
  <2> QED BY <2>1, <2>2, <1>5, <1>0, NoCellNoBits DEF Cells
<1>7. d = PinOf(d.cell, d.port)
  BY <1>6 DEF Bit, PinOf
<1>8. r \in n.receivers[d]
  BY <1>0, <1>5, <1>6 DEF EndsAgreeIn
<1> QED BY <1>4, <1>6, <1>7, <1>8 DEF Driver, OutReceivers

\* So is every input bit.
LEMMA InputIsReceived ==
  ASSUME NEW n, WellFormed(n), FullyDriven(n), NEW b \in InBits(n)
  PROVE  LET d == n.drivers[b]
         IN  /\ d \in OutBits(n) /\ d.cell \in Cells(n) /\ d = PinOf(d.cell, d.port)
             /\ b \in Bit /\ b.cell \in Cells(n)
             /\ b \in n.receivers[d] /\ b \in OutReceivers(n, d.cell)
<1> DEFINE d == n.drivers[b]
<1>0. n \in Net /\ EndsAgreeIn(n) /\ WiresExistIn(n)
  BY DEF WellFormed
<1>1. b \in Bit /\ b.cell \in Cells(n)
  BY <1>0, NoCellNoBits DEF Cells
<1>2. d \in OutBits(n) /\ d \in Bit
  BY <1>0, <1>1 DEF FullyDriven, WiresExistIn, OutBits
<1>3. d.cell \in Cells(n) /\ d.port \in OutPort /\ d.offset = 0
  BY <1>0, <1>2, NoCellNoBits, SemanticsAssumption DEF Cells, OutBits, Bit, Offset
<1>4. d = PinOf(d.cell, d.port)
  BY <1>2, <1>3 DEF Bit, PinOf
<1>5. b \in n.receivers[d]
  BY <1>0, <1>1, <1>2 DEF EndsAgreeIn
<1> QED BY <1>1, <1>2, <1>3, <1>4, <1>5 DEF OutReceivers

\* A cell that is no memory has one output.
LEMMA SingleOutput ==
  ASSUME NEW n, WellFormed(n), NEW d \in OutBits(n), Tp(n, d.cell) # "MEM"
  PROVE  d = PinOf(d.cell, "OUT")
<1> DEFINE k == n.type[d.cell]
<1>1. d \in Bit /\ k \in Kind /\ k # NoType
  BY NoCellNoBits, NetFields DEF WellFormed
<1>2. d.port \in DOMAIN PortWidths(k)
  <2>1. d.offset < Width(k, d.port) /\ d.offset \in Nat
    BY <1>1, NetlistAssumption DEF OutBits, Bit, Offset
  <2> QED BY <1>1, <2>1 DEF Width
<1>3. k.tp \in Simulated /\ k.tp # "MEM" /\ d.port \in {"OUT", "RDATA"}
  BY <1>1, SemanticsAssumption DEF OutBits, OutPort, Tp
<1>4. d.port = "OUT"
  <2>1. CASE k.tp \in {"PORT", "CONST"}
    BY <1>2, <1>3, <2>1 DEF PortWidths, Comparator, Binop, ReduceOp, Unop
  <2>2. CASE k.tp \in {"NOT", "PASSTHROUGH", "ORR", "ANDR"}
    BY <1>2, <1>3, <2>2 DEF PortWidths, Comparator, Binop, ReduceOp, Unop
  <2>3. CASE k.tp \in {"ZEXT", "SLICE", "REG", "REG_ARST"}
    BY <1>2, <1>3, <2>3 DEF PortWidths, Comparator, Binop, ReduceOp, Unop
  <2>4. CASE k.tp \in Comparator
    BY <1>2, <1>3, <2>4 DEF PortWidths, Comparator, Binop, ReduceOp, Unop
  <2>5. CASE k.tp \in {"AND", "OR", "XOR", "ADD", "SUB"}
    BY <1>2, <1>3, <2>5 DEF PortWidths, Comparator, Binop, ReduceOp, Unop
  <2>6. CASE k.tp = "MUX"
    BY <1>2, <1>3, <2>6 DEF PortWidths, Comparator, Binop, ReduceOp, Unop
  <2> QED BY <1>3, <2>1, <2>2, <2>3, <2>4, <2>5, <2>6 DEF Simulated, Unary, Binary
<1>5. d.offset = 0
  BY <1>1, SemanticsAssumption DEF Bit, Offset
<1> QED BY <1>1, <1>4, <1>5 DEF Bit, PinOf

\* The receivers of an output are input ports of cells.
LEMMA ReceiversAreInputs ==
  ASSUME NEW n, WellFormed(n), NEW c \in CellId
  PROVE  /\ SeqReceivers(n, c)  \subseteq [cell : CellId, port : InPort]
         /\ CombReceivers(n, c) \subseteq [cell : CellId, port : InPort]
<1>1. \A p \in OutPort : PinOf(c, p) \in Bit
  BY NetlistAssumption DEF PinOf, Bit, OutPort, Offset
<1>2. OutReceivers(n, c) \subseteq InBits(n)
  BY <1>1 DEF OutReceivers, WellFormed, WiresExistIn
<1>3. \A r \in InBits(n) : SigPort(r) \in [cell : CellId, port : InPort]
  BY DEF InBits, Bit, SigPort
<1> QED BY <1>2, <1>3 DEF SeqReceivers, CombReceivers

\* The types of the cells updatePort evaluates.
LEMMA EvaluatedTypes ==
  ASSUME NEW n, n \in Net, NEW c \in Evaluated(n)
  PROVE  /\ c \in Cells(n) /\ n.type[c] \in Kind
         /\ Tp(n, c) \in CombTypes
         /\ Tp(n, c) = "PORT" => n.type[c].dir # "in"
         /\ Tp(n, c) = "MEM" => c \in Memories(n)
<1>1. c \in Cells(n) /\ n.type[c] \in Kind
  BY NetFields DEF Evaluated, Cells
<1>2. Tp(n, c) \in Simulated
  BY <1>1, SemanticsAssumption DEF Tp
<1> QED BY <1>1, <1>2 DEF Evaluated, Simulated, CombTypes, Inputs, Registers, Memories, Tp

\* What a cell computes depends on the ports it reads and on its own memory only,
\* whatever definition it is in.
LEMMA SameEval ==
  ASSUME NEW n, NEW k, NEW v, NEW w, NEW m, NEW l, NEW c, Tp(n, c) \in CombTypes, Tp(k, c) = Tp(n, c),
         \A p \in Reads(Tp(n, c)) : In(n, v, c, p) = In(k, w, c, p),
         m[c] = l[c]
  PROVE  Eval(n, v, m, c) = Eval(k, w, l, c)
<1> DEFINE tp == Tp(n, c)
<1>1. CASE tp \in Unary \cup {"PORT"}
  <2>1. In(n, v, c, "IN") = In(k, w, c, "IN")
    BY <1>1 DEF Reads, Unary, Binary, Comparator
  <2> QED BY <2>1, <1>1 DEF Eval, Unary, Comparator
<1>2. CASE tp \in Binary
  <2>1. In(n, v, c, "IN0") = In(k, w, c, "IN0") /\ In(n, v, c, "IN1") = In(k, w, c, "IN1")
    BY <1>2 DEF Reads, Binary, Unary, Comparator
  <2> QED BY <2>1, <1>2 DEF Eval, Binary, Comparator
<1>3. CASE tp = "MUX"
  <2>1. /\ In(n, v, c, "IN0") = In(k, w, c, "IN0") /\ In(n, v, c, "IN1") = In(k, w, c, "IN1")
        /\ In(n, v, c, "SEL") = In(k, w, c, "SEL")
    BY <1>3 DEF Reads, Binary, Unary, Comparator
  <2> QED BY <2>1, <1>3 DEF Eval
<1>4. CASE tp = "MEM"
  <2>1. In(n, v, c, "RADDR") = In(k, w, c, "RADDR")
    BY <1>4 DEF Reads, Binary, Unary, Comparator
  <2> QED BY <2>1, <1>4 DEF Eval
<1> QED BY <1>1, <1>2, <1>3, <1>4 DEF CombTypes

LEMMA EvalDependsOnReads ==
  ASSUME NEW n, NEW v, NEW w, NEW m, NEW l, NEW c, Tp(n, c) \in CombTypes,
         \A p \in Reads(Tp(n, c)) : In(n, v, c, p) = In(n, w, c, p),
         m[c] = l[c]
  PROVE  Eval(n, v, m, c) = Eval(n, w, l, c)
BY SameEval

\* A cell that reads values computes one.
LEMMA EvalType ==
  ASSUME NEW n, NEW v, NEW m, NEW c, Tp(n, c) \in CombTypes,
         \A p \in Reads(Tp(n, c)) : In(n, v, c, p) \in Val,
         Tp(n, c) = "MEM" => m[c] \in [Addr -> Val]
  PROVE  Eval(n, v, m, c) \in Val
<1> DEFINE tp == Tp(n, c)
           a  == In(n, v, c, "IN")
           x  == In(n, v, c, "IN0")
           y  == In(n, v, c, "IN1")
<1>1. CASE tp \in Unary \cup {"PORT"}
  <2>1. a \in Val
    BY <1>1 DEF Reads, Unary, Binary, Comparator
  <2>2. QNot(a) \in Val /\ Bool(a = 1) \in Val
    BY <2>1, OutputTypes
  <2>3. Eval(n, v, m, c) \in {a, QNot(a), Bool(a = 1)}
    BY <1>1 DEF Eval, Unary
  <2> QED BY <2>1, <2>2, <2>3
<1>2. CASE tp \in Binary
  <2>1. x \in Val /\ y \in Val
    BY <1>2 DEF Reads, Binary, Unary, Comparator
  <2>2. QAnd(x, y) \in Val /\ QOr(x, y) \in Val /\ QXor(x, y) \in Val
    BY <2>1, OutputTypes
  <2>3. \A q : Bool(q) \in Val
    BY DEF Bool, Val
  <2>4. CASE tp \in {"AND", "OR", "XOR", "ADD", "SUB"}
    BY <2>2, <2>4 DEF Eval
  <2>5. CASE tp \in Comparator
    BY <2>3, <2>5 DEF Eval, Comparator
  <2> QED BY <1>2, <2>4, <2>5 DEF Binary
<1>3. CASE tp = "MUX"
  <2>1. x \in Val /\ y \in Val
    BY <1>3 DEF Reads, Binary, Unary, Comparator
  <2> QED BY <2>1, <1>3 DEF Eval
<1>4. CASE tp = "MEM"
  <2>1. m[c] \in [Addr -> Val] /\ 21 % 2 \in Val
    BY <1>4, OutputTypes
  <2>2. IsBinary(In(n, v, c, "RADDR")) => In(n, v, c, "RADDR") \in Addr
    BY DEF IsBinary, Addr
  <2> QED BY <2>1, <2>2, <1>4 DEF Eval
<1> QED BY <1>1, <1>2, <1>3, <1>4 DEF CombTypes

-----------------------------------------------------------------------------
(* The values of the outputs of a definition without combinational cycles.   *)

\* Values v that every output of T agrees with, when the inputs are in, the registers r
\* and the memories m.
Agree(n, in, r, m, v, T) == \A c \in T : v[c] = WireValue(n, in, r, m, v, c)

\* What a combinational cell reads are outputs of cells.
LEMMA ReadsCells ==
  ASSUME NEW n, WellFormed(n), FullyDriven(n), NEW c \in Evaluated(n),
         NEW p \in Reads(Tp(n, c))
  PROVE  /\ PinOf(c, p) \in InBits(n)
         /\ Driver(n, c, p) \in Cells(n)
         /\ PinOf(c, p) \in OutReceivers(n, Driver(n, c, p))
         /\ p \in {"IN", "IN0", "IN1", "SEL", "RADDR"}
<1>1. /\ n \in Net /\ Tp(n, c) \in CombTypes /\ n.type[c] \in Kind /\ c \in Cells(n)
      /\ Tp(n, c) = "PORT" => n.type[c].dir # "in"
  BY EvaluatedTypes DEF WellFormed
<1>2. p \in DOMAIN PortWidths(n.type[c]) /\ p \in {"IN", "IN0", "IN1", "SEL", "RADDR"}
  BY <1>1, ReadsArePorts DEF Tp
<1> QED BY <1>1, <1>2, PortIsDriven

\* Two solutions of part of a definition that holds the sources of its cells are equal.
LEMMA SolutionsAgree ==
  ASSUME NEW n, WellFormed(n), FullyDriven(n), Acyclic(n),
         NEW in, NEW r, NEW m, NEW v, NEW w, NEW T \in SUBSET CellId,
         \A c \in T \cap Evaluated(n) : \A p \in Reads(Tp(n, c)) : Driver(n, c, p) \in T,
         Agree(n, in, r, m, v, T), Agree(n, in, r, m, w, T)
  PROVE  \A c \in T : v[c] = w[c]
<1> DEFINE D == {c \in T : v[c] # w[c]}
<1>1. D \subseteq Evaluated(n)
  BY DEF Agree, WireValue
<1>2. SUFFICES ASSUME D # {} PROVE FALSE
  OBVIOUS
<1>3. PICK c \in D : \A p \in Reads(Tp(n, c)) : Driver(n, c, p) \notin D
  BY <1>1, <1>2 DEF Acyclic
<1>4. \A p \in Reads(Tp(n, c)) : In(n, v, c, p) = In(n, w, c, p)
  BY <1>1, <1>3 DEF In
<1>5. Tp(n, c) \in CombTypes
  BY <1>1, EvaluatedTypes DEF WellFormed
<1>6. Eval(n, v, m, c) = Eval(n, w, m, c)
  BY <1>4, <1>5, EvalDependsOnReads
<1> QED BY <1>1, <1>3, <1>6 DEF Agree, WireValue

\* Wires is the only solution of the equations of a definition.
LEMMA WiresAreUnique ==
  ASSUME NEW n, WellFormed(n), FullyDriven(n), Acyclic(n), NEW in, NEW r, NEW m, NEW v,
         v = [c \in CellId |-> v[c]], Agree(n, in, r, m, v, CellId)
  PROVE  Wires(n, in, r, m) = v
<1> DEFINE w == Wires(n, in, r, m)
<1>1. v = [c \in CellId |-> WireValue(n, in, r, m, v, c)]
  BY DEF Agree
<1>2. w = [c \in CellId |-> WireValue(n, in, r, m, w, c)]
  BY <1>1 DEF Wires
<1> HIDE DEF w
<1>3. Agree(n, in, r, m, w, CellId)
  BY <1>2 DEF Agree
<1>4. \A c \in Evaluated(n) : \A p \in Reads(Tp(n, c)) : Driver(n, c, p) \in CellId
  BY ReadsCells DEF Cells
<1>5. \A c \in CellId : v[c] = w[c]
  BY <1>3, <1>4, SolutionsAgree
<1>6. w = v
  BY <1>1, <1>2, <1>5
<1> QED BY <1>6 DEF w

\* T holds the sources of its cells and v solves its equations.
Solves(n, in, r, m, v, T) ==
  /\ T \in SUBSET CellId
  /\ \A c \in T \cap Evaluated(n) : \A p \in Reads(Tp(n, c)) : Driver(n, c, p) \in T
  /\ Agree(n, in, r, m, v, T)

\* The equation of a cell is about the outputs it reads only.
LEMMA WireValueDependsOnReads ==
  ASSUME NEW n, WellFormed(n), NEW in, NEW r, NEW m, NEW v, NEW w, NEW c \in CellId,
         c \in Evaluated(n) =>
           \A p \in Reads(Tp(n, c)) : v[Driver(n, c, p)] = w[Driver(n, c, p)]
  PROVE  WireValue(n, in, r, m, v, c) = WireValue(n, in, r, m, w, c)
<1>1. CASE c \in Evaluated(n)
  <2>1. Tp(n, c) \in CombTypes
    BY <1>1, EvaluatedTypes DEF WellFormed
  <2>2. \A p \in Reads(Tp(n, c)) : In(n, v, c, p) = In(n, w, c, p)
    BY <1>1 DEF In
  <2>3. Eval(n, v, m, c) = Eval(n, w, m, c)
    BY <2>1, <2>2, EvalDependsOnReads
  <2> QED BY <1>1, <2>3 DEF WireValue
<1>2. CASE c \notin Evaluated(n)
  BY <1>2 DEF WireValue
<1> QED BY <1>1, <1>2

\* A definition without combinational cycles has a solution: the parts that have one
\* agree with each other, and the part they make up together leaves no cell out.
LEMMA WiresSolve ==
  ASSUME NEW n, WellFormed(n), FullyDriven(n), Acyclic(n), NEW in, NEW r, NEW m
  PROVE  /\ Agree(n, in, r, m, Wires(n, in, r, m), CellId)
         /\ Wires(n, in, r, m) = [c \in CellId |-> Wires(n, in, r, m)[c]]
<1> DEFINE U == {c \in CellId : \E T, v : Solves(n, in, r, m, v, T) /\ c \in T}
           g == [c \in CellId |->
                   CHOOSE x : \E T, v : Solves(n, in, r, m, v, T) /\ c \in T /\ x = v[c]]
<1>1. ASSUME NEW T, NEW v, Solves(n, in, r, m, v, T), NEW c \in T
      PROVE  g[c] = v[c]
  <2>1. c \in CellId
    BY <1>1 DEF Solves
  <2>2. PICK S, w : Solves(n, in, r, m, w, S) /\ c \in S /\ g[c] = w[c]
    BY <1>1, <2>1
  <2>3. \A d \in S \cap T : v[d] = w[d]
    <3>1. S \cap T \in SUBSET CellId
      BY <1>1, <2>2 DEF Solves
    <3>2. \A d \in (S \cap T) \cap Evaluated(n) :
            \A p \in Reads(Tp(n, d)) : Driver(n, d, p) \in S \cap T
      BY <1>1, <2>2 DEF Solves
    <3>3. Agree(n, in, r, m, v, S \cap T) /\ Agree(n, in, r, m, w, S \cap T)
      BY <1>1, <2>2 DEF Solves, Agree
    <3> QED BY <3>1, <3>2, <3>3, SolutionsAgree
  <2> QED BY <1>1, <2>2, <2>3
<1> HIDE DEF g
<1>2. \A c \in U \cap Evaluated(n) : \A p \in Reads(Tp(n, c)) : Driver(n, c, p) \in U
  BY DEF Solves
<1>3. Agree(n, in, r, m, g, U)
  <2> SUFFICES ASSUME NEW c \in U PROVE g[c] = WireValue(n, in, r, m, g, c)
    BY DEF Agree
  <2>1. PICK T, v : Solves(n, in, r, m, v, T) /\ c \in T
    OBVIOUS
  <2>2. c \in Evaluated(n) =>
          \A p \in Reads(Tp(n, c)) : g[Driver(n, c, p)] = v[Driver(n, c, p)]
    BY <2>1, <1>1 DEF Solves
  <2>3. WireValue(n, in, r, m, g, c) = WireValue(n, in, r, m, v, c)
    BY <2>2, WireValueDependsOnReads
  <2> QED BY <2>1, <2>3, <1>1 DEF Solves, Agree
<1>4. ASSUME NEW c \in CellId,
             c \in Evaluated(n) => \A p \in Reads(Tp(n, c)) : Driver(n, c, p) \in U
      PROVE  c \in U
  <2>1. SUFFICES ASSUME c \notin U PROVE FALSE
    OBVIOUS
  <2> DEFINE T == U \cup {c}
             v == [g EXCEPT ![c] = WireValue(n, in, r, m, g, c)]
  <2>2. /\ v[c] = WireValue(n, in, r, m, g, c)
        /\ \A d \in U : v[d] = g[d]
    BY <2>1 DEF g
  <2> HIDE DEF U, v
  <2>3. Agree(n, in, r, m, v, T)
    <3> SUFFICES ASSUME NEW d \in T PROVE v[d] = WireValue(n, in, r, m, v, d)
      BY DEF Agree
    <3>1. d \in CellId
      BY DEF U
    <3>2. d \in Evaluated(n) =>
            \A p \in Reads(Tp(n, d)) : v[Driver(n, d, p)] = g[Driver(n, d, p)]
      BY <1>2, <1>4, <2>2
    <3>3. WireValue(n, in, r, m, v, d) = WireValue(n, in, r, m, g, d)
      BY <3>1, <3>2, WireValueDependsOnReads
    <3> QED BY <3>3, <2>2, <1>3 DEF Agree
  <2>4. \A d \in T \cap Evaluated(n) : \A p \in Reads(Tp(n, d)) : Driver(n, d, p) \in T
    BY <1>2, <1>4
  <2>5. Solves(n, in, r, m, v, T)
    BY <2>3, <2>4 DEF Solves, U
  <2> QED BY <2>1, <2>5 DEF U
<1> HIDE DEF U
<1>5. U = CellId
  <2> DEFINE S == CellId \ U
  <2>1. SUFFICES ASSUME S # {} PROVE FALSE
    BY DEF U
  <2>2. S \subseteq Evaluated(n)
    BY <1>4
  <2>3. PICK c \in S : \A p \in Reads(Tp(n, c)) : Driver(n, c, p) \notin S
    BY <2>1, <2>2 DEF Acyclic
  <2>4. \A p \in Reads(Tp(n, c)) : Driver(n, c, p) \in CellId
    BY <2>2, ReadsCells DEF Cells
  <2> QED BY <1>4, <2>3, <2>4
<1>6. g = [c \in CellId |-> g[c]]
  BY DEF g
<1>7. Wires(n, in, r, m) = g
  BY <1>3, <1>5, <1>6, WiresAreUnique
<1> QED BY <1>3, <1>5, <1>6, <1>7

-----------------------------------------------------------------------------
(* Rewriting a definition: the ports of its cells.                           *)

LEMMA SourcePort ==
  ASSUME NEW k, k.tp = "PORT", k.dir = "in" PROVE DOMAIN PortWidths(k) = {"OUT"}
BY DEF PortWidths, Comparator, Binop, ReduceOp, Unop

\* The type of a cell with inputs.
LEMMA ReadingCell ==
  ASSUME NEW n, WellFormed(n), NEW c \in CellId, CellIns(n, c) # {}
  PROVE  /\ c \in Cells(n) /\ n.type[c] \in Kind
         /\ Tp(n, c) \in Simulated \ {"CONST"}
         /\ Tp(n, c) = "PORT" => n.type[c].dir # "in"
<1>1. PICK b \in InBits(n) : b.cell = c
  BY DEF CellIns
<1>2. c \in Cells(n) /\ n.type[c] \in Kind
  BY <1>1, NoCellNoBits, NetFields DEF WellFormed, Cells
<1>3. b.port \in DOMAIN PortWidths(n.type[c]) /\ b.port \in InPort
  BY <1>1, NetlistAssumption DEF InBits, Width, Offset, Bit
<1>4. Tp(n, c) \in Simulated
  BY <1>2, SemanticsAssumption DEF Tp
<1>5. Tp(n, c) = "CONST" => DOMAIN PortWidths(n.type[c]) = {"OUT"}
  BY DEF PortWidths, Tp, Comparator, Binop, ReduceOp, Unop
<1>6. Tp(n, c) = "PORT" /\ n.type[c].dir = "in" => DOMAIN PortWidths(n.type[c]) = {"OUT"}
  BY SourcePort DEF Tp
<1> QED BY <1>2, <1>3, <1>4, <1>5, <1>6 DEF InPort

LEMMA OnlyMemoriesRead ==
  ASSUME NEW k \in Kind, k.tp # "MEM" PROVE "RDATA" \notin DOMAIN PortWidths(k)
<1>0. k.tp \in Simulated
  BY SemanticsAssumption
<1>1. CASE k.tp \in Unary
  BY <1>1 DEF PortWidths, Unary, Binary, Comparator, Binop, ReduceOp, Unop
<1>2. CASE k.tp \in Comparator
  BY <1>2 DEF PortWidths, Comparator, Binop, ReduceOp, Unop
<1>3. CASE k.tp \in {"AND", "OR", "XOR", "ADD", "SUB"}
  BY <1>3 DEF PortWidths, Comparator, Binop, ReduceOp, Unop
<1>4. CASE k.tp \in {"CONST", "MUX", "REG", "REG_ARST"}
  BY <1>4 DEF PortWidths, Comparator, Binop, ReduceOp, Unop
<1>5. CASE k.tp = "PORT"
  BY <1>5 DEF PortWidths, Comparator, Binop, ReduceOp, Unop
<1> QED BY <1>0, <1>1, <1>2, <1>3, <1>4, <1>5 DEF Simulated, Binary

\* The output port of a cell, and its width.
LEMMA OutputPort ==
  ASSUME NEW k \in Kind, k.tp \notin {"PORT", "MEM"}
  PROVE  "OUT" \in OutPort /\ Width(k, "OUT") = 1
<1>0. k.tp \in Simulated
  BY SemanticsAssumption
<1>1. "OUT" \in DOMAIN PortWidths(k)
  <2>1. CASE k.tp \in Unary
    BY <2>1 DEF PortWidths, Unary, Binary, Comparator, Binop, ReduceOp, Unop
  <2>2. CASE k.tp \in Comparator
    BY <2>2 DEF PortWidths, Comparator, Binop, ReduceOp, Unop
  <2>3. CASE k.tp \in {"AND", "OR", "XOR", "ADD", "SUB"}
    BY <2>3 DEF PortWidths, Comparator, Binop, ReduceOp, Unop
  <2>4. CASE k.tp \in {"CONST", "MUX", "REG", "REG_ARST"}
    BY <2>4 DEF PortWidths, Comparator, Binop, ReduceOp, Unop
  <2> QED BY <1>0, <2>1, <2>2, <2>3, <2>4 DEF Simulated, Binary
<1>2. k # NoType
  BY NetlistAssumption DEF NoType
<1> QED BY <1>1, <1>2, SemanticsAssumption DEF Width, OutPort, Port

-----------------------------------------------------------------------------
(* The receivers of a cell c are given to another cell.                      *)

\* c is to be deleted from m, which came from n by moving the receivers of c,
\* perhaps to a new constant.
Folds(n, c, m) ==
  /\ WellFormed(n) /\ WellFormed(m)
  /\ c \in Cells(n) /\ ~DeleteCellAborts(m, c)
  /\ m.portCells = n.portCells
  /\ \A x \in Cells(n) : m.type[x] = n.type[x]
  /\ \A x \in Cells(m) \ Cells(n) : Tp(m, x) = "CONST"
  /\ \A r \in Bit : n.drivers[r].cell # c => m.drivers[r] = n.drivers[r]

\* The cells that are left keep their types, and what was not received from c
\* keeps its driver.
LEMMA FoldEffect ==
  ASSUME NEW n, NEW c, NEW m, Folds(n, c, m)
  PROVE  LET d == DeleteCell(m, c)
         IN  /\ WellFormed(d)
             /\ d.portCells = n.portCells
             /\ c \notin Cells(d)
             /\ \A x \in Cells(n) \ {c} : x \in Cells(d) /\ d.type[x] = n.type[x]
             /\ \A x \in Cells(d) \ Cells(n) : Tp(d, x) = "CONST"
             /\ \A r \in InBits(n) : r.cell # c /\ n.drivers[r].cell # c =>
                  d.drivers[r] = n.drivers[r]
<1> DEFINE d == DeleteCell(m, c)
<1>0. /\ n \in Net /\ m \in Net /\ EndsAgreeIn(m) /\ c \in CellId
      /\ n.type \in [CellId -> Kind \cup {NoType}] /\ m.type \in [CellId -> Kind \cup {NoType}]
  BY NetFields DEF Folds, WellFormed, Cells
<1>1. c \in Cells(m) \ m.portCells
  BY <1>0 DEF Folds, Cells, DeleteCellAborts
<1>2. /\ d.type = [m.type EXCEPT ![c] = NoType] /\ d.portCells = m.portCells
      /\ d.drivers = [b \in Bit |->
                        IF b.cell = c \/ \E o \in CellOuts(m, c) : b \in m.receivers[o]
                        THEN NoBit ELSE m.drivers[b]]
  BY <1>0, NetFields DEF DeleteCell
<1>3. WellFormed(d)
  BY <1>1, DeleteCellWellFormed DEF Folds
<1> HIDE DEF d
<1>4. c \notin Cells(d) /\ \A x \in CellId \ {c} : d.type[x] = m.type[x]
  BY <1>0, <1>2 DEF Cells
<1>5. ASSUME NEW x \in Cells(n) \ {c}
      PROVE  x \in Cells(d) /\ d.type[x] = n.type[x]
  BY <1>4 DEF Folds, Cells
<1>6. ASSUME NEW x \in Cells(d) \ Cells(n)
      PROVE  Tp(d, x) = "CONST"
  BY <1>4 DEF Folds, Cells, Tp
<1>7. ASSUME NEW r \in InBits(n), r.cell # c, n.drivers[r].cell # c
      PROVE  d.drivers[r] = n.drivers[r]
  <2>1. r \in Bit /\ m.drivers[r] = n.drivers[r]
    BY <1>7 DEF Folds, InBits
  <2>2. ~\E o \in CellOuts(m, c) : r \in m.receivers[o]
    <3> SUFFICES ASSUME NEW o \in CellOuts(m, c), r \in m.receivers[o] PROVE FALSE
      OBVIOUS
    <3>1. o \in Bit /\ o.cell = c
      BY DEF CellOuts, OutBits
    <3>2. m.drivers[r] = o
      BY <1>0, <2>1, <3>1 DEF EndsAgreeIn
    <3> QED BY <1>7, <2>1, <3>1, <3>2
  <2> QED BY <1>2, <1>7, <2>1, <2>2
<1> QED BY <1>2, <1>3, <1>4, <1>5, <1>6, <1>7 DEF d, Folds

\* The receivers of an output port of c are driven by c.
LEMMA ReceiversAreDriven ==
  ASSUME NEW n, WellFormed(n), NEW c \in CellId, NEW p \in OutPort, NEW r \in Receivers(n, c, p)
  PROVE  r \in InBits(n) /\ n.drivers[r].cell = c
BY MovedTo DEF PortOuts

LEMMA MovingFolds ==
  ASSUME NEW n, WellFormed(n), NEW c \in Cells(n), NEW p \in OutPort, NEW with,
         ~MoveReceiversAborts(n, c, p, with), ~DeleteCellAborts(MoveReceivers(n, c, p, with), c)
  PROVE  Folds(n, c, MoveReceivers(n, c, p, with))
<1> DEFINE R == Receivers(n, c, p)
           f == Moved(n, c, p, with)
           m == SetDrivers(n, R, f)
<1>0. n \in Net /\ c \in CellId
  BY DEF WellFormed, Cells
<1>1. R \in SUBSET InBits(n) /\ \A r \in R : f[r] \in OutBits(n)
  BY DEF MoveReceiversAborts, SetDriversAborts
<1>2. m.drivers = [b \in Bit |-> IF b \in R THEN f[b] ELSE n.drivers[b]]
  BY <1>0, NetFields DEF SetDrivers
<1> HIDE DEF R, f
<1>3. WellFormed(m) /\ m.type = n.type /\ m.portCells = n.portCells
  BY <1>1, SetDriversWellFormed
<1>4. \A r \in Bit : n.drivers[r].cell # c => m.drivers[r] = n.drivers[r]
  BY <1>0, <1>2, ReceiversAreDriven DEF R
<1>5. m = MoveReceivers(n, c, p, with)
  BY DEF R, f, MoveReceivers
<1> HIDE DEF m
<1>6. Cells(m) = Cells(n)
  BY <1>3 DEF Cells
<1> QED BY <1>3, <1>4, <1>5, <1>6 DEF Folds

\* In d the receivers of c are driven by e, which is a cell of n or a new constant.
HandedTo(n, c, d, e) ==
  /\ WellFormed(d) /\ FullyDriven(d) /\ d.portCells = n.portCells
  /\ e \in Cells(d) /\ e # c /\ (c \in Cells(d) => d.type[c] = n.type[c])
  /\ \A x \in Cells(n) \ {c} : x \in Cells(d) /\ d.type[x] = n.type[x]
  /\ \A x \in Cells(d) \ Cells(n) : x = e /\ Tp(d, x) = "CONST"
  /\ \A b \in InBits(d) :
       /\ b \in InBits(n)
       /\ d.drivers[b].cell = IF n.drivers[b].cell = c THEN e ELSE n.drivers[b].cell

\* After that c is deleted.
FoldedInto(n, c, d, e) == HandedTo(n, c, d, e) /\ c \notin Cells(d)

LEMMA FoldsInto ==
  ASSUME NEW n, FullyDriven(n), NEW c, NEW m, Folds(n, c, m), NEW e \in Cells(m) \ {c},
         Cells(m) \ Cells(n) \subseteq {e},
         \A b \in InBits(n) : n.drivers[b].cell = c => m.drivers[b] # NoBit /\ m.drivers[b].cell = e
  PROVE  FoldedInto(n, c, DeleteCell(m, c), e)
<1> DEFINE d == DeleteCell(m, c)
<1>0. /\ WellFormed(n) /\ WellFormed(m) /\ n \in Net /\ m \in Net /\ c \in CellId /\ e \in CellId
      /\ \A r \in Bit : n.drivers[r].cell # c => m.drivers[r] = n.drivers[r]
  BY DEF Folds, WellFormed, Cells
<1>1. /\ WellFormed(d) /\ d.portCells = n.portCells /\ c \notin Cells(d)
      /\ \A x \in Cells(n) \ {c} : x \in Cells(d) /\ d.type[x] = n.type[x]
      /\ \A x \in Cells(d) \ Cells(n) : Tp(d, x) = "CONST"
  BY FoldEffect
<1>2. /\ d.type = [m.type EXCEPT ![c] = NoType]
      /\ d.drivers = [b \in Bit |->
                        IF b.cell = c \/ \E o \in CellOuts(m, c) : b \in m.receivers[o]
                        THEN NoBit ELSE m.drivers[b]]
  BY <1>0, NetFields DEF DeleteCell
<1> HIDE DEF d
<1>3. e \in Cells(d) /\ \A x \in Cells(d) \ Cells(n) : x = e
  BY <1>0, <1>2, NetFields DEF Cells
<1>4. ASSUME NEW b \in InBits(d)
      PROVE  /\ b \in InBits(n) /\ d.drivers[b] # NoBit
             /\ d.drivers[b].cell = IF n.drivers[b].cell = c THEN e ELSE n.drivers[b].cell
  <2>1. b \in Bit /\ b.cell \in CellId /\ CellIns(d, b.cell) # {}
    BY DEF InBits, Bit, CellIns
  <2>2. b.cell \in Cells(d) /\ Tp(d, b.cell) # "CONST"
    BY <1>1, <2>1, ReadingCell
  <2>3. b.cell \in Cells(n) /\ b.cell # c
    BY <1>1, <2>2
  <2>4. b \in InBits(n)
    BY <1>1, <2>3 DEF InBits
  <2>5. n.drivers[b] # NoBit
    BY <2>4 DEF FullyDriven
  <2>6. /\ m.drivers[b] # NoBit
        /\ m.drivers[b].cell = IF n.drivers[b].cell = c THEN e ELSE n.drivers[b].cell
    BY <1>0, <2>1, <2>4, <2>5
  <2>7. ~ \E o \in CellOuts(m, c) : b \in m.receivers[o]
    <3> SUFFICES ASSUME NEW o \in CellOuts(m, c), b \in m.receivers[o] PROVE FALSE
      OBVIOUS
    <3>1. o \in Bit /\ o.cell = c
      BY DEF CellOuts, OutBits
    <3>2. m.drivers[b] = o
      BY <1>0, <2>1, <3>1 DEF WellFormed, EndsAgreeIn
    <3> QED BY <2>6, <3>1, <3>2
  <2>8. d.drivers[b] = m.drivers[b]
    BY <1>2, <2>1, <2>3, <2>7
  <2> QED BY <2>4, <2>6, <2>8
<1> QED BY <1>1, <1>3, <1>4 DEF FoldedInto, HandedTo, FullyDriven, d

\* The assertions of deleteCell hold, as every input has a driver, and another cell.
LEMMA DeletesSafely ==
  ASSUME NEW n, WellFormed(n), FullyDriven(n), NEW c \in Cells(n) \ n.portCells,
         NEW m, WellFormed(m), m.portCells = n.portCells, m.type[c] = n.type[c],
         \A b \in InBits(n) : m.drivers[b] # NoBit /\ m.drivers[b].cell # c
  PROVE  ~DeleteCellAborts(m, c)
<1>1. CellIns(m, c) = CellIns(n, c)
  BY DEF CellIns, InBits
<1>2. \A b \in CellIns(m, c) : /\ b \in Bit /\ b.cell = c /\ m.drivers[b] # NoBit
                                /\ m.drivers[b].cell # c /\ m.drivers[b] \in OutBits(m)
  BY <1>1 DEF CellIns, InBits, WellFormed, WiresExistIn
<1>3. \A o \in CellOuts(m, c) : m.receivers[o] \subseteq InBits(m)
  BY DEF CellOuts, OutBits, WellFormed, WiresExistIn
<1> QED BY <1>2, <1>3 DEF DeleteCellAborts, MissingDriver, UnhookedFirst

\* The bits that a cell with one output drives are the receivers of the output.
LEMMA DrivenAreReceived ==
  ASSUME NEW n, WellFormed(n), NEW c \in CellId, NEW p, \A d \in OutBits(n) : d.cell = c => d.port = p,
         NEW b \in InBits(n), n.drivers[b].cell = c
  PROVE  b \in Receivers(n, c, p)
<1> DEFINE d == n.drivers[b]
<1>1. n \in Net /\ b \in Bit /\ d # NoBit
  BY NetlistAssumption DEF WellFormed, InBits, CellId, NoBit
<1>2. d \in OutBits(n) /\ d \in Bit
  BY <1>1, NetFields DEF WellFormed, WiresExistIn
<1>3. b \in n.receivers[d]
  BY <1>1, <1>2 DEF WellFormed, EndsAgreeIn
<1> QED BY <1>2, <1>3 DEF Receivers, PortOuts

\* Of a memory that is RDATA, of any other cell OUT.
LEMMA OneOutput ==
  ASSUME NEW n, WellFormed(n), NEW c, NEW d \in OutBits(n), d.cell = c
  PROVE  d.port = IF Tp(n, c) = "MEM" THEN "RDATA" ELSE "OUT"
<1>1. d \in Bit /\ n.type[c] # NoType /\ d.port \in {"OUT", "RDATA"} /\ d.offset \in Nat
      /\ d.offset < Width(n.type[c], d.port)
  BY NoCellNoBits, NetlistAssumption DEF WellFormed, OutBits, OutPort, Bit, Offset
<1>2. CASE Tp(n, c) = "MEM"
  <2>1. "OUT" \notin DOMAIN PortWidths(n.type[c])
    BY <1>2 DEF PortWidths, Tp, Comparator, Binop, ReduceOp, Unop
  <2>2. Width(n.type[c], "OUT") = 0
    BY <2>1 DEF Width
  <2> QED BY <1>1, <1>2, <2>2
<1>3. CASE Tp(n, c) # "MEM"
  BY <1>3, SingleOutput DEF PinOf
<1> QED BY <1>2, <1>3

\* No cycle comes about: a constant reads nothing, and the driver of a multiplexer
\* already reaches all that the multiplexer reaches.
LEMMA HandingStaysAcyclic ==
  ASSUME NEW n, WellFormed(n), FullyDriven(n), Acyclic(n), NEW c, NEW d, NEW e,
         HandedTo(n, c, d, e),
         \/ e \notin Evaluated(d)
         \/ /\ c \notin Cells(d) /\ c \in Evaluated(n)
            /\ \E q \in Reads(Tp(n, c)) : e = Driver(n, c, q)
  PROVE  Acyclic(d)
<1>1. SUFFICES ASSUME NEW S \in SUBSET Evaluated(d), S # {}
               PROVE  \E x \in S : \A p \in Reads(Tp(d, x)) : Driver(d, x, p) \notin S
  BY DEF Acyclic
<1>2. ASSUME NEW x \in S
      PROVE  /\ x \in Evaluated(n) /\ x \in Cells(d) /\ Tp(d, x) = Tp(n, x)
             /\ \A p \in Reads(Tp(d, x)) :
                  Driver(d, x, p) = IF Driver(n, x, p) = c THEN e ELSE Driver(n, x, p)
  <2>1. x \in Cells(d) /\ Tp(d, x) # "CONST"
    BY DEF Evaluated
  <2>2. x \in Cells(n) /\ d.type[x] = n.type[x]
    BY <2>1 DEF HandedTo
  <2>3. x \in Evaluated(n) /\ Tp(d, x) = Tp(n, x)
    BY <2>2 DEF Evaluated, Inputs, Registers, Tp
  <2>4. \A p \in Reads(Tp(d, x)) : PinOf(x, p) \in InBits(d)
    BY ReadsCells DEF HandedTo
  <2> QED BY <2>1, <2>2, <2>3, <2>4 DEF HandedTo, Driver
<1>3. CASE e \notin S
  <2>1. PICK x \in S : \A p \in Reads(Tp(n, x)) : Driver(n, x, p) \notin S
    BY <1>1, <1>2 DEF Acyclic
  <2> QED BY <1>2, <1>3, <2>1
<1>4. CASE e \in S
  <2>1. PICK q \in Reads(Tp(n, c)) : c \in Evaluated(n) /\ e = Driver(n, c, q) /\ c \notin Cells(d)
    BY <1>4
  <2>2. PICK x \in S \cup {c} : \A p \in Reads(Tp(n, x)) : Driver(n, x, p) \notin S \cup {c}
    <3>1. S \cup {c} \in SUBSET Evaluated(n)
      BY <1>2, <2>1
    <3> QED BY <3>1 DEF Acyclic
  <2>3. x # c
    BY <1>4, <2>1, <2>2
  <2> QED BY <1>2, <2>2, <2>3
<1> QED BY <1>3, <1>4

\* A multiplexer is deleted after its receivers were given to what one of its inputs reads.
LEMMA PassingFoldsInto ==
  ASSUME NEW n, WellFormed(n), FullyDriven(n), Acyclic(n), NEW c \in Cells(n) \ n.portCells,
         Tp(n, c) = "MUX", NEW p \in {"IN0", "IN1"}, NEW with, with[0] = n.drivers[PinOf(c, p)]
  PROVE  LET m == MoveReceivers(n, c, "OUT", with)
             d == DeleteCell(m, c)
             e == Driver(n, c, p)
         IN  /\ ~MoveReceiversAborts(n, c, "OUT", with) /\ ~DeleteCellAborts(m, c)
             /\ FoldedInto(n, c, d, e)
             /\ Cells(d) \subseteq Cells(n) /\ d.next = n.next /\ d.constNames = n.constNames
             /\ c \in Evaluated(n) /\ e \in Cells(n)
             /\ p \in Reads(Tp(n, c)) /\ PinOf(c, p) \in InBits(n)
<1> DEFINE pin == PinOf(c, p)
           e == Driver(n, c, p)
           m == MoveReceivers(n, c, "OUT", with)
           d == DeleteCell(m, c)
<1>0. n \in Net /\ c \in CellId /\ c \in Cells(n)
  BY DEF WellFormed, Cells
<1>1. c \in Evaluated(n) /\ p \in Reads(Tp(n, c))
  BY DEF Evaluated, Inputs, Registers, Reads, Binary, Comparator
<1>2. pin \in InBits(n) /\ e \in Cells(n) /\ pin \in Bit
  BY <1>1, ReadsCells DEF InBits
<1>3. e # c
  <2>1. \E x \in {c} : \A q \in Reads(Tp(n, x)) : Driver(n, x, q) \notin {c}
    BY <1>1 DEF Acyclic
  <2> QED BY <1>1, <2>1
<1>5. with[0] = n.drivers[pin] /\ n.drivers[pin].cell = e
  BY DEF Driver
<1>6. n.drivers[pin] # NoBit /\ n.drivers[pin] \in OutBits(n)
  BY <1>0, <1>2 DEF FullyDriven, WellFormed, WiresExistIn
<1>7. "OUT" \in OutPort
  <2>1. n.type[c] \in Kind
    BY <1>0, NetFields DEF Cells
  <2> QED BY <2>1, OutputPort DEF Tp
<1>8. \A x \in PortOuts(n, c, "OUT") : x.offset = 0
  BY SemanticsAssumption DEF PortOuts, OutBits, Bit, Offset
<1> HIDE DEF e
<1>9. /\ WellFormed(m) /\ ~MoveReceiversAborts(n, c, "OUT", with)
      /\ m.type = n.type /\ m.next = n.next
      /\ m.portCells = n.portCells /\ m.constNames = n.constNames
      /\ \A r \in Bit : m.drivers[r] =
            IF r \in Receivers(n, c, "OUT") THEN with[n.drivers[r].offset] ELSE n.drivers[r]
  <2>1. \A x \in PortOuts(n, c, "OUT") : with[x.offset] \in OutBits(n)
    BY <1>5, <1>6, <1>8
  <2> QED BY <1>0, <1>7, <2>1, MoveReceiversWellFormed
<1> HIDE DEF m
<1>10. ASSUME NEW b \in InBits(n)
       PROVE  /\ m.drivers[b] # NoBit
              /\ n.drivers[b].cell = c => m.drivers[b].cell = e
              /\ n.drivers[b].cell # c => m.drivers[b] = n.drivers[b]
  <2>1. b \in Bit /\ n.drivers[b] # NoBit
    BY DEF InBits, FullyDriven
  <2>2. CASE b \in Receivers(n, c, "OUT")
    <3>1. n.drivers[b].offset = 0 /\ n.drivers[b].cell = c
      BY <1>0, <1>7, <1>8, <2>2, MovedTo DEF PortOuts
    <3> QED BY <1>5, <1>6, <1>9, <2>1, <2>2, <3>1
  <2>3. CASE b \notin Receivers(n, c, "OUT")
    <3>1. n.drivers[b].cell # c
      BY <1>0, <2>3, DrivenAreReceived, OneOutput
    <3> QED BY <1>9, <2>1, <2>3, <3>1
  <2> QED BY <2>2, <2>3
<1>11. Cells(m) = Cells(n)
  BY <1>9 DEF Cells
<1>12. ~DeleteCellAborts(m, c)
  BY <1>3, <1>9, <1>10, DeletesSafely
<1>13. Folds(n, c, m)
  <2>1. \A r \in Bit : n.drivers[r].cell # c => m.drivers[r] = n.drivers[r]
    BY <1>0, <1>7, <1>9, MovedTo DEF PortOuts
  <2> QED BY <1>0, <1>9, <1>11, <1>12, <2>1 DEF Folds
<1>14. FoldedInto(n, c, d, e)
  BY <1>2, <1>3, <1>10, <1>11, <1>13, FoldsInto
<1>15. d.next = n.next /\ d.constNames = n.constNames /\ Cells(d) \subseteq Cells(n)
  <2>1. m \in Net
    BY <1>9 DEF WellFormed
  <2>2. d.next = m.next /\ d.constNames = m.constNames /\ d.type = [m.type EXCEPT ![c] = NoType]
    BY <2>1, NetFields DEF DeleteCell
  <2> HIDE DEF d
  <2> QED BY <1>9, <1>11, <2>1, <2>2, NetFields DEF Cells
<1> QED BY <1>1, <1>2, <1>9, <1>12, <1>14, <1>15 DEF e, m

OnlyOutput(n, c, p) == \A x \in OutBits(n) : x.cell = c => x.port = p

\* In m the new constant k has taken the place of port p of c, which is left.
Constantly(m, n, c, p, k) ==
  /\ HandedTo(n, c, m, n.next) /\ c \in Cells(m)
  /\ m.type[n.next] = k /\ n.next < m.next /\ n.next \notin Cells(n)
  /\ Replaced(m, n, c, p)
  /\ \A b \in InBits(n) :
       /\ m.drivers[b] # NoBit
       /\ m.drivers[b].cell = IF n.drivers[b].cell = c THEN n.next ELSE n.drivers[b].cell

LEMMA ReplacingHandsOver ==
  ASSUME NEW n, WellFormed(n), FullyDriven(n), n.next <= MaxId, NEW c \in Cells(n),
         NEW p \in OutPort, Width(n.type[c], p) = 1, OnlyOutput(n, c, p),
         NEW k \in Kind, k.tp = "CONST", k.width = 1
  PROVE  Constantly(ReplaceWithConstant(n, c, p, k), n, c, p, k)
<1> DEFINE m == ReplaceWithConstant(n, c, p, k)
<1>1. k # NoType
  BY NetlistAssumption DEF NoType
<1>2. n \in Net /\ c \in CellId /\ n.next \notin Cells(n) /\ n.next \in CellId /\ n.next # c
  BY AddCellWellFormed, NetFields, NetlistAssumption DEF WellFormed, Cells, CellId
<1>3. /\ WellFormed(m) /\ Replaced(m, n, c, p)
      /\ m.type = [n.type EXCEPT ![n.next] = k] /\ m.portCells = n.portCells
  BY ReplaceWithConstantWellFormed
<1> HIDE DEF m
<1>4. /\ \A x \in Cells(n) : x \in Cells(m) /\ m.type[x] = n.type[x]
      /\ \A x \in Cells(m) \ Cells(n) : x = n.next /\ Tp(m, x) = "CONST"
      /\ n.next \in Cells(m) /\ m.type[n.next] = k
  BY <1>1, <1>2, <1>3, NetFields DEF Cells, Tp
<1>5. ASSUME NEW b \in InBits(n)
      PROVE  /\ m.drivers[b] # NoBit
             /\ m.drivers[b].cell = IF n.drivers[b].cell = c THEN n.next ELSE n.drivers[b].cell
  <2>1. b \in Bit /\ n.drivers[b] # NoBit
    BY DEF InBits, FullyDriven
  <2>2. CASE b \in Receivers(n, c, p)
    <3>1. n.drivers[b].cell = c /\ m.drivers[b].cell = n.next
      BY <1>2, <1>3, <2>2, ReceiversAreDriven DEF Replaced
    <3> QED BY <1>2, <3>1 DEF NoBit, CellId
  <2>3. CASE b \notin Receivers(n, c, p)
    <3>1. n.drivers[b].cell # c
      BY <1>2, <2>3, DrivenAreReceived DEF OnlyOutput
    <3> QED BY <1>3, <2>1, <2>3, <3>1 DEF Replaced
  <2> QED BY <2>2, <2>3
<1>6. ASSUME NEW b \in InBits(m)
      PROVE  b \in InBits(n)
  <2>1. b \in Bit /\ b.cell \in CellId /\ CellIns(m, b.cell) # {}
    BY DEF InBits, Bit, CellIns
  <2>2. b.cell \in Cells(m) /\ Tp(m, b.cell) # "CONST"
    BY <1>3, <2>1, ReadingCell
  <2>3. m.type[b.cell] = n.type[b.cell]
    BY <1>4, <2>2
  <2> QED BY <2>3 DEF InBits
<1>7. FullyDriven(m)
  BY <1>5, <1>6 DEF FullyDriven
<1>8. HandedTo(n, c, m, n.next)
  BY <1>2, <1>3, <1>4, <1>5, <1>6, <1>7 DEF HandedTo
<1>9. n.next < m.next
  <2>1. n.next \in Nat /\ m.next \in Nat /\ m \in Net
    BY <1>2, <1>3, NetFields, NetlistAssumption DEF WellFormed
  <2>2. ~(n.next >= m.next)
    BY <1>1, <1>2, <1>3, <1>4 DEF WellFormed, CellsNumbered
  <2> QED BY <2>1, <2>2
<1> QED BY <1>2, <1>3, <1>4, <1>5, <1>8, <1>9 DEF m, Constantly

-----------------------------------------------------------------------------
(* What a definition that is being rewritten has to do with the original.    *)

\* n is what is left of o, and new constants.
Remains(n, o) ==
  /\ WellFormed(n) /\ FullyDriven(n) /\ Acyclic(n)
  /\ \A c \in Cells(n) : IF c \in Cells(o) THEN n.type[c] = o.type[c] ELSE Tp(n, c) = "CONST"
  /\ \A c \in Cells(o) : c < n.next

LEMMA HandingRemains ==
  ASSUME NEW n, NEW o, Remains(n, o), o \in Net, NEW c \in Cells(n), NEW d, NEW e,
         HandedTo(n, c, d, e), Acyclic(d), n.next <= d.next, d.next \in Nat,
         e \in Cells(n) \/ e = n.next
  PROVE  /\ Remains(d, o)
         /\ e \in Cells(o) => e \in Cells(n)
         /\ \A x \in Cells(d) \cap Cells(o) : x \in Cells(n) /\ d.type[x] = n.type[x]
         /\ Cells(o) \ Cells(d) = (Cells(o) \ Cells(n)) \cup (Cells(o) \cap ({c} \ Cells(d)))
<1>0. n \in Net /\ n.next \in Nat /\ \A x \in Cells(o) : x \in Nat
  BY NetFields, NetlistAssumption DEF Remains, WellFormed, Cells, CellId
<1>1. e \in Cells(o) => e \in Cells(n)
  BY <1>0 DEF Remains
<1>2. \A x \in Cells(d) \cap Cells(o) : x \in Cells(n) /\ d.type[x] = n.type[x]
  BY <1>1 DEF HandedTo
<1>3. \A x \in Cells(d) : IF x \in Cells(o) THEN d.type[x] = o.type[x] ELSE Tp(d, x) = "CONST"
  <2> SUFFICES ASSUME NEW x \in Cells(d)
               PROVE  IF x \in Cells(o) THEN d.type[x] = o.type[x] ELSE Tp(d, x) = "CONST"
    OBVIOUS
  <2>1. CASE x \in Cells(o)
    BY <1>2, <2>1 DEF Remains
  <2>2. CASE x \notin Cells(o) /\ x \in Cells(n)
    BY <2>2 DEF Remains, HandedTo, Tp
  <2>3. CASE x \notin Cells(n) /\ x \notin Cells(o)
    BY <2>3 DEF HandedTo
  <2> QED BY <2>1, <2>2, <2>3
<1>4. \A x \in Cells(o) : x < d.next
  BY <1>0 DEF Remains
<1>5. Cells(o) \ Cells(d) = (Cells(o) \ Cells(n)) \cup (Cells(o) \cap ({c} \ Cells(d)))
  <2> SUFFICES ASSUME NEW x \in Cells(o)
               PROVE  x \notin Cells(d) <=> x \notin Cells(n) \/ (x = c /\ c \notin Cells(d))
    OBVIOUS
  <2> QED BY <1>2 DEF HandedTo
<1> QED BY <1>1, <1>2, <1>3, <1>4, <1>5 DEF Remains, HandedTo

\* Values w that solve the equations of the original definition when the memories hold m.
Solution(o, w, m) ==
  /\ \A c \in Cells(o) : w[c] \in Val
  /\ \A c \in Evaluated(o) : w[c] = Eval(o, w, m, c)
  /\ \A c \in Cells(o) : Tp(o, c) = "CONST" => w[c] = o.type[c].init[1]

LEMMA WiresAreSolutions ==
  ASSUME NEW o, WellFormed(o), FullyDriven(o), Acyclic(o),
         NEW in \in [Inputs(o) -> Val], NEW r \in [Registers(o) -> Val],
         NEW m \in [CellId -> [Addr -> Val]]
  PROVE  /\ Solution(o, Wires(o, in, r, m), m)
         /\ \A c \in Registers(o) : Wires(o, in, r, m)[c] = r[c]
<1> DEFINE w == Wires(o, in, r, m)
<1>1. Agree(o, in, r, m, w, CellId)
  BY WiresSolve
<1> HIDE DEF w
<1>2. o \in Net /\ Cells(o) \subseteq CellId
  BY DEF WellFormed, Cells
<1>3. \A c \in Evaluated(o) : w[c] = Eval(o, w, m, c)
  BY <1>1, <1>2 DEF Agree, WireValue, Evaluated
<1>4. \A c \in Registers(o) : w[c] = r[c]
  BY <1>1, <1>2 DEF Agree, WireValue, Registers, Evaluated, Inputs, Tp
<1>5. \A c \in Inputs(o) : w[c] = in[c]
  BY <1>1, <1>2 DEF Agree, WireValue, Evaluated, Inputs
<1>6. ASSUME NEW c \in Cells(o), Tp(o, c) = "CONST"
      PROVE  w[c] = o.type[c].init[1] /\ w[c] \in Val
  <2>1. w[c] = InitialValue(o, c)
    BY <1>1, <1>2, <1>6 DEF Agree, WireValue, Registers, Evaluated, Inputs, Tp
  <2>2. w[c] = o.type[c].init[1]
    BY <1>6, <2>1 DEF InitialValue, Memories
  <2>3. o.type[c] \in Kind
    BY <1>2, NetFields DEF Cells
  <2> QED BY <1>6, <2>2, <2>3, SemanticsAssumption DEF Tp
<1>7. \A c \in Cells(o) \ Evaluated(o) : w[c] \in Val
  BY <1>4, <1>5, <1>6 DEF Evaluated
<1>8. \A c \in Evaluated(o) : w[c] \in Val
  <2> DEFINE S == {c \in Evaluated(o) : w[c] \notin Val}
  <2>1. SUFFICES ASSUME S # {} PROVE FALSE
    OBVIOUS
  <2>2. PICK c \in S : \A p \in Reads(Tp(o, c)) : Driver(o, c, p) \notin S
    BY <2>1 DEF Acyclic
  <2>3. \A p \in Reads(Tp(o, c)) : In(o, w, c, p) \in Val
    BY <1>7, <2>2, ReadsCells DEF In
  <2>4. m[c] \in [Addr -> Val]
    BY <1>2 DEF Evaluated
  <2>5. Tp(o, c) \in CombTypes
    BY <1>2, EvaluatedTypes
  <2>6. Eval(o, w, m, c) \in Val
    BY <2>3, <2>4, <2>5, EvalType
  <2> QED BY <1>3, <2>2, <2>6
<1> QED BY <1>3, <1>4, <1>6, <1>7, <1>8 DEF Solution, w

\* The value of an output of definition n, which has constants the original has not.
Value(n, o, w, c) == IF c \in Cells(o) THEN w[c] ELSE InitialValue(n, c)

\* Every input that is left reads what it reads in the original definition.
ReadsAs(n, o, w) ==
  \A b \in InBits(n) : Value(n, o, w, n.drivers[b].cell) = w[o.drivers[b].cell]

LEMMA HandingKeepsReads ==
  ASSUME NEW n, NEW o, Remains(n, o), NEW w, ReadsAs(n, o, w), NEW c \in Cells(n) \cap Cells(o),
         NEW d, NEW e, HandedTo(n, c, d, e), Value(d, o, w, e) = w[c]
  PROVE  ReadsAs(d, o, w)
<1> SUFFICES ASSUME NEW b \in InBits(d)
             PROVE  Value(d, o, w, d.drivers[b].cell) = w[o.drivers[b].cell]
  BY DEF ReadsAs
<1> DEFINE x == n.drivers[b].cell
<1>1. b \in InBits(n) /\ d.drivers[b].cell = IF x = c THEN e ELSE x
  BY DEF HandedTo
<1>2. Value(n, o, w, x) = w[o.drivers[b].cell]
  BY <1>1 DEF ReadsAs
<1>3. x \in Cells(n)
  <2>1. b \in Bit /\ n.drivers[b] # NoBit /\ n \in Net
    BY <1>1 DEF Remains, FullyDriven, WellFormed, InBits
  <2>2. n.drivers[b] \in OutBits(n)
    BY <2>1 DEF Remains, WellFormed, WiresExistIn
  <2> QED BY <2>1, <2>2, NoCellNoBits DEF Cells
<1>4. CASE x = c
  BY <1>1, <1>2, <1>4 DEF Value
<1>5. CASE x # c
  <2>1. x \in Cells(d) /\ d.type[x] = n.type[x]
    BY <1>3, <1>5 DEF HandedTo
  <2>2. InitialValue(d, x) = InitialValue(n, x)
    BY <1>3, <2>1 DEF InitialValue, Memories, Tp
  <2> QED BY <1>1, <1>2, <1>5, <2>2 DEF Value
<1> QED BY <1>4, <1>5

\* The values of what remains are those of the original and the new constants.
LEMMA RemainsReadTheSame ==
  ASSUME NEW n, NEW o, Remains(n, o), WellFormed(o), FullyDriven(o), Acyclic(o),
         NEW in \in [Inputs(o) -> Val], NEW r \in [Registers(o) -> Val], NEW m,
         ReadsAs(n, o, Wires(o, in, r, m)), NEW b \in InBits(n)
  PROVE  Wires(n, in, r, m)[n.drivers[b].cell] = Wires(o, in, r, m)[o.drivers[b].cell]
<1> DEFINE w == Wires(o, in, r, m)
           v == [c \in CellId |-> IF c \in Cells(n) THEN Value(n, o, w, c) ELSE InitialValue(n, c)]
<1>1. WellFormed(n) /\ FullyDriven(n) /\ Acyclic(n)
  BY DEF Remains
<1>2. Agree(o, in, r, m, w, CellId)
  BY WiresSolve
<1>3. ReadsAs(n, o, w)
  OBVIOUS
<1> HIDE DEF w
<1>4. /\ v = [c \in CellId |-> v[c]]
      /\ \A c \in Cells(n) : v[c] = Value(n, o, w, c)
      /\ \A c \in CellId \ Cells(n) : v[c] = InitialValue(n, c)
  BY DEF Cells
<1> HIDE DEF v
<1>5. ASSUME NEW x \in InBits(n)
      PROVE  v[n.drivers[x].cell] = w[o.drivers[x].cell]
  <2>1. x \in Bit /\ n.drivers[x] # NoBit /\ n \in Net
    BY <1>1 DEF FullyDriven, WellFormed, InBits
  <2>2. n.drivers[x].cell \in Cells(n)
    BY <1>1, <2>1, NoCellNoBits DEF WellFormed, WiresExistIn, Cells
  <2> QED BY <1>3, <1>4, <2>2 DEF ReadsAs
<1>6. ASSUME NEW c \in Cells(n) \cap Cells(o)
      PROVE  v[c] = WireValue(n, in, r, m, v, c)
  <2>1. c \in CellId /\ n.type[c] = o.type[c] /\ Tp(n, c) = Tp(o, c) /\ v[c] = w[c]
    BY <1>4 DEF Remains, Cells, Tp, Value
  <2>2. /\ c \in Evaluated(n) <=> c \in Evaluated(o)
        /\ c \in Inputs(n) <=> c \in Inputs(o)
        /\ c \in Registers(n) <=> c \in Registers(o)
        /\ InitialValue(n, c) = InitialValue(o, c)
    BY <2>1 DEF Evaluated, Inputs, Registers, Memories, InitialValue, Tp
  <2>3. w[c] = WireValue(o, in, r, m, w, c)
    BY <1>2, <2>1 DEF Agree
  <2>4. CASE c \in Evaluated(n)
    <3>1. Tp(n, c) \in CombTypes
      BY <1>1, <2>4, EvaluatedTypes DEF WellFormed
    <3>2. ASSUME NEW p \in Reads(Tp(n, c))
          PROVE  In(n, v, c, p) = In(o, w, c, p)
      <4>1. PinOf(c, p) \in InBits(n)
        BY <1>1, <2>4, ReadsCells
      <4> QED BY <1>5, <4>1 DEF In, Driver
    <3>3. Eval(n, v, m, c) = Eval(o, w, m, c)
      BY <2>1, <3>1, <3>2, SameEval
    <3> QED BY <2>1, <2>2, <2>3, <2>4, <3>3 DEF WireValue
  <2>5. CASE c \notin Evaluated(n)
    BY <2>1, <2>2, <2>3, <2>5 DEF WireValue
  <2> QED BY <2>4, <2>5
<1>7. ASSUME NEW c \in CellId, c \notin Cells(n) \/ c \notin Cells(o)
      PROVE  v[c] = WireValue(n, in, r, m, v, c)
  <2>1. v[c] = InitialValue(n, c)
    BY <1>4, <1>7 DEF Value
  <2>2. c \in Cells(n) => Tp(n, c) = "CONST"
    BY <1>7 DEF Remains
  <2> QED BY <2>1, <2>2 DEF WireValue, Evaluated, Inputs, Registers
<1>8. Agree(n, in, r, m, v, CellId)
  BY <1>6, <1>7 DEF Agree
<1>9. Wires(n, in, r, m) = v
  BY <1>1, <1>4, <1>8, WiresAreUnique
<1> QED BY <1>5, <1>9 DEF w

\* An input is determined by its cell and port, and so is what is known of it.
LEMMA InputPins ==
  ASSUME NEW n, NEW b \in InBits(n)
  PROVE  b = PinOf(b.cell, b.port)
BY SemanticsAssumption DEF InBits, Bit, Offset, PinOf
=============================================================================
