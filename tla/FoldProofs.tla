----------------------------- MODULE FoldProofs -----------------------------
(***************************************************************************)
(* foldConstants keeps the definition well formed and, if it is orderly,   *)
(* every input it leaves reads what it read before; what it folds of the   *)
(* state is frozen.  Without memories it loses no candidate, so that its   *)
(* closing check passes.  All for every definition with one-bit ports and  *)
(* every state of its registers.                                           *)
(***************************************************************************)
EXTENDS FoldConstants, CellProofs, TLAPS

-----------------------------------------------------------------------------
(* Cells and their ports.                                                  *)

\* The ports foldConstants looks at, of a cell of each type.
Examined(tp) ==
  IF tp = "MUX" THEN {"SEL"}
  ELSE IF tp = "MEM" THEN {"WEN", "CLK", "RADDR", "WADDR", "WDATA"}
  ELSE IF tp \in Binary THEN {"IN0", "IN1"}
  ELSE IF tp = "REG_ARST" THEN {"IN", "ARST"}
  ELSE IF tp = "PORT" THEN {} ELSE {"IN"}

LEMMA ExaminedArePorts ==
  ASSUME NEW k \in Kind, k.tp # "CONST"
  PROVE  Examined(k.tp) \subseteq DOMAIN PortWidths(k) \cap InPort
<1>0. k.tp \in Simulated
  BY SemanticsAssumption
<1>1. Examined(k.tp) \subseteq DOMAIN PortWidths(k)
  <2>1. CASE k.tp \in {"ORR", "ANDR"}
    BY <2>1 DEF PortWidths, Examined, Binary, Comparator, Binop, ReduceOp, Unop
  <2>2. CASE k.tp \in {"NOT", "PASSTHROUGH"}
    BY <2>2 DEF PortWidths, Examined, Binary, Comparator, Binop, ReduceOp, Unop
  <2>3. CASE k.tp \in {"ZEXT", "SLICE"}
    BY <2>3 DEF PortWidths, Examined, Binary, Comparator, Binop, ReduceOp, Unop
  <2>4. CASE k.tp \in Comparator
    BY <2>4 DEF PortWidths, Examined, Binary, Comparator, Binop, ReduceOp, Unop
  <2>5. CASE k.tp \in {"AND", "OR", "XOR", "ADD", "SUB"}
    BY <2>5 DEF PortWidths, Examined, Binary, Comparator, Binop, ReduceOp, Unop
  <2>6. CASE k.tp \in {"MUX", "MEM"}
    BY <2>6 DEF PortWidths, Examined, Binary, Comparator, Binop, ReduceOp, Unop
  <2>7. CASE k.tp \in {"REG", "REG_ARST"}
    BY <2>7 DEF PortWidths, Examined, Binary, Comparator, Binop, ReduceOp, Unop
  <2>8. CASE k.tp = "PORT"
    BY <2>8 DEF Examined, Binary, Comparator
  <2> QED BY <1>0, <2>1, <2>2, <2>3, <2>4, <2>5, <2>6, <2>7, <2>8
          DEF Simulated, Unary, Binary
<1>2. Examined(k.tp) \subseteq {"IN", "IN0", "IN1", "SEL", "CLK", "ARST", "RADDR", "WADDR",
                               "WDATA", "WEN"}
  BY DEF Examined
<1> QED BY <1>1, <1>2 DEF InPort, Port

-----------------------------------------------------------------------------
(* What a fold does to the other cells.                                    *)

\* Both ways to fold a cell.
LEMMA ReplacingFolds ==
  ASSUME NEW n, WellFormed(n), n.next <= MaxId, NEW c \in Cells(n), NEW p \in OutPort,
         NEW v \in Val, Width(n.type[c], p) = 1,
         ~DeleteCellAborts(ReplaceWithConstant(n, c, p, Const(v)), c)
  PROVE  Folds(n, c, ReplaceWithConstant(n, c, p, Const(v)))
<1> DEFINE k == Const(v)
           m == ReplaceWithConstant(n, c, p, k)
<1>1. k \in Kind /\ k.tp = "CONST" /\ k.width = 1
  BY FoldAssumption DEF Const
<1>2. n \in Net /\ c \in CellId /\ n.next \notin Cells(n)
  BY <1>1, AddCellWellFormed DEF WellFormed, Cells
<1> HIDE DEF k
<1>4. /\ WellFormed(m)
      /\ m.type = [n.type EXCEPT ![n.next] = k] /\ m.portCells = n.portCells
      /\ \A r \in Bit : r \notin Receivers(n, c, p) => m.drivers[r] = n.drivers[r]
  BY <1>1, ReplaceWithConstantWellFormed DEF Replaced
<1> HIDE DEF m
<1>5. /\ \A x \in Cells(n) : m.type[x] = n.type[x]
      /\ \A x \in Cells(m) \ Cells(n) : Tp(m, x) = "CONST"
  BY <1>1, <1>2, <1>4, NetFields DEF Cells, Tp
<1>6. \A r \in Bit : n.drivers[r].cell # c => m.drivers[r] = n.drivers[r]
  BY <1>2, <1>4, ReceiversAreDriven
<1> QED BY <1>4, <1>5, <1>6 DEF Folds, k, m

-----------------------------------------------------------------------------
(* What is known of an output is a value.                                  *)

Known == Val \cup {NotConst}

LEMMA ConstPortType ==
  ASSUME NEW n, WellFormed(n), NEW c \in CellId, NEW p \in Port
  PROVE  MaterializeConstPort(n, c, p) \in Known
<1> DEFINE d == n.drivers[PinOf(c, p)]
<1>1. PinOf(c, p) \in Bit
  BY NetlistAssumption DEF PinOf, Bit, Offset
<1>2. d \in Bit \cup {NoBit}
  BY <1>1, NetFields DEF WellFormed
<1>3. d.cell \in CellId \cup {0}
  BY <1>2 DEF Bit, NoBit
<1>4. d.cell # 0 /\ Tp(n, d.cell) = "CONST" => n.type[d.cell].init[1] \in Val
  BY <1>3, NetFields, SemanticsAssumption DEF WellFormed, Tp, NoType
<1> QED BY <1>4 DEF MaterializeConstPort, Driver, Known

LEMMA DoBinopType ==
  ASSUME NEW tp \in Binary, NEW a \in Val, NEW b \in Val
  PROVE  DoBinop(tp, a, b) \in Val
<1>1. QAnd(a, b) \in Val /\ QOr(a, b) \in Val /\ QXor(a, b) \in Val
  BY OutputTypes
<1>2. \A q : Bool(q) \in Val
  BY DEF Bool, Val
<1>3. CASE tp \in {"AND", "OR", "XOR", "ADD", "SUB"}
  BY <1>1, <1>3 DEF DoBinop
<1>4. CASE tp \in Comparator
  BY <1>2, <1>4 DEF DoBinop, Comparator
<1> QED BY <1>3, <1>4 DEF Binary

LEMMA DoUnopType ==
  ASSUME NEW tp \in Unop \ {"XORR"}, NEW a \in Val
  PROVE  DoUnop(tp, a) \in Val
<1>1. QNot(a) \in Val /\ Bool(a = 1) \in Val
  BY OutputTypes
<1> QED BY <1>1 DEF DoUnop, Unop, ReduceOp

\* A cell with inputs, in a definition where registerValues knows every register.
LEMMA GetOutputType ==
  ASSUME NEW n, WellFormed(n), NEW c \in CellId, CellIns(n, c) # {},
         Tp(n, c) \notin {"MUX", "MEM"}, NEW r, Tp(n, c) \in {"REG", "REG_ARST"} => r[c] \in Val
  PROVE  GetOutput(n, c, r) \in Known
<1> DEFINE tp   == Tp(n, c)
           k(p) == MaterializeConstPort(n, c, p)
<1>1. c \in Cells(n) /\ n.type[c] \in Kind /\ tp \in Simulated \ {"CONST"}
  BY ReadingCell
<1>2. \A p \in Examined(tp) : k(p) \in Known
  BY <1>1, ExaminedArePorts, ConstPortType DEF Tp, InPort
<1>3. CASE tp = "PORT"
  BY <1>3 DEF GetOutput, Known, Unop, ReduceOp, Binary, Comparator
<1>4. CASE tp \in {"ZEXT", "SLICE"}
  <2>1. k("IN") \in Known
    BY <1>2, <1>4 DEF Examined, Binary, Comparator
  <2>2. GetOutput(n, c, r) = k("IN")
    BY <1>4 DEF GetOutput, Unop, ReduceOp, Binary, Comparator
  <2> QED BY <2>1, <2>2
<1>5. CASE tp \in Unary \ {"ZEXT", "SLICE"}
  <2>1. k("IN") \in Known
    BY <1>2, <1>5 DEF Examined, Binary, Comparator, Unary
  <2>2. tp \in Unop \ {"XORR"} /\ tp \notin {"ZEXT", "SLICE", "PORT"}
    BY <1>5 DEF Unary, Unop, ReduceOp
  <2>3. GetOutput(n, c, r) = IF k("IN") = NotConst THEN NotConst ELSE DoUnop(tp, k("IN"))
    BY <1>5, <2>2 DEF GetOutput, Unary, Binary, Comparator
  <2>4. CASE k("IN") = NotConst
    BY <2>3, <2>4 DEF Known
  <2>5. CASE k("IN") # NotConst
    <3>1. k("IN") \in Val
      BY <2>1, <2>5 DEF Known
    <3> HIDE DEF k, tp
    <3>2. DoUnop(tp, k("IN")) \in Val
      BY <2>2, <3>1, DoUnopType
    <3> QED BY <2>3, <2>5, <3>2 DEF Known
  <2> QED BY <2>4, <2>5
<1>6. CASE tp \in Binary
  <2>1. k("IN0") \in Known /\ k("IN1") \in Known
    BY <1>2, <1>6 DEF Examined, Binary, Comparator
  <2>2. GetOutput(n, c, r) \in {NotConst, 0, 1}
          \/ (NotConst \notin {k("IN0"), k("IN1")}
              /\ GetOutput(n, c, r) = DoBinop(tp, k("IN0"), k("IN1")))
    BY <1>6 DEF GetOutput, Binary, Comparator, Unop, ReduceOp
  <2> QED BY <1>6, <2>1, <2>2, DoBinopType DEF Known, Val
<1>7. CASE tp \in {"REG", "REG_ARST"}
  <2>1. k("IN") \in Known
    BY <1>2, <1>7 DEF Examined, Binary, Comparator
  <2>2. MaterializeRegisterInput(n, c, r) \in Known
    BY <1>7, <2>1 DEF MaterializeRegisterInput, Known
  <2>3. GetOutput(n, c, r) \in {NotConst, MaterializeRegisterInput(n, c, r)}
    BY <1>7 DEF GetOutput, Binary, Comparator, Unop, ReduceOp
  <2> QED BY <2>2, <2>3 DEF Known
<1> QED BY <1>1, <1>3, <1>4, <1>5, <1>6, <1>7 DEF Simulated

-----------------------------------------------------------------------------
(* Types.  The invariant says of a candidate that it has inputs, so it is   *)
(* no constant, and of a register that registerValues knows it.             *)

IInv ==
  /\ WellFormed(def)
  /\ candidates \subseteq Cells(def) /\ \A c \in candidates : CellIns(def, c) # {}
  /\ \A c \in Registers(def) : regs[c] \in Val
  /\ frozen \in [CellId -> Val \cup {NotConst}]
  /\ phase \in {"folding", "done", "no cell", "unfolded"}

\* registerValues are the states of the registers of the original.
StatesKnown == regs \in [Registers(orig) -> Val]

LEMMA InitIInv == Init => IInv
<1> SUFFICES ASSUME Init PROVE IInv
  OBVIOUS
<1>1. WellFormed(def)
  BY FoldAssumption DEF Init
<1>2. \A c \in candidates : CellIns(def, c) # {}
  BY DEF Init, ReadsConstant
<1>3. frozen \in [CellId -> Val \cup {NotConst}] /\ candidates \subseteq Cells(def)
  BY DEF Init
<1> QED BY <1>1, <1>2, <1>3 DEF Init, IInv

\* The receivers of a cell have inputs.
LEMMA ReceiversRead ==
  ASSUME NEW n, WellFormed(n), NEW c \in CellId, NEW x \in ReceiverCells(n, c)
  PROVE  x \in CellId /\ CellIns(n, x) # {}
<1>1. Const(0) \in Kind /\ Const(0).tp = "CONST"
  BY FoldAssumption DEF Const, Val
<1>2. "OUT" \in OutPort
  BY <1>1, OutputPort
<1>3. PICK r \in Receivers(n, c, "OUT") : r.cell = x
  BY DEF ReceiverCells
<1>4. r \in InBits(n)
  BY <1>2, ReceiversAreDriven
<1> QED BY <1>3, <1>4 DEF CellIns, InBits, Bit

\* A turn that deletes a cell, or stops.
LEMMA DeleteTyped ==
  ASSUME IInv, NEW c \in candidates, NEW m, NEW aborts \in BOOLEAN, NEW again,
         \A x \in again : x \in CellId /\ CellIns(def, x) # {},
         ~aborts /\ ~DeleteCellAborts(m, c) => Folds(def, c, m),
         Delete(c, m, aborts, again), UNCHANGED <<regs, orig>>,
         frozen' \in [CellId -> Val \cup {NotConst}]
  PROVE  IInv'
<1>1. CASE aborts \/ DeleteCellAborts(m, c)
  BY <1>1 DEF Delete, IInv, CellIns, Registers, Cells
<1>2. CASE ~(aborts \/ DeleteCellAborts(m, c))
  <2>1. Folds(def, c, m) /\ def' = DeleteCell(m, c)
        /\ candidates' = (candidates \cup again) \ {c} /\ phase' = phase
    BY <1>2 DEF Delete
  <2>2. /\ WellFormed(def') /\ c \notin Cells(def')
        /\ \A x \in Cells(def) \ {c} : x \in Cells(def') /\ def'.type[x] = def.type[x]
        /\ \A x \in Cells(def') \ Cells(def) : Tp(def', x) = "CONST"
    BY <2>1, FoldEffect
  <2>3. WellFormed(def)
    BY DEF IInv
  <2>4. ASSUME NEW x \in candidates'
        PROVE  x \in Cells(def') /\ CellIns(def', x) # {}
    <3>1. x \in CellId /\ CellIns(def, x) # {} /\ x # c
      BY <2>1 DEF IInv, Cells
    <3>2. x \in Cells(def)
      BY <2>3, <3>1, ReadingCell
    <3>3. CellIns(def', x) = CellIns(def, x)
      BY <2>2, <3>1, <3>2 DEF CellIns, InBits
    <3> QED BY <2>2, <3>1, <3>2, <3>3
  <2>5. Registers(def') \subseteq Registers(def)
    BY <2>2 DEF Registers, Tp
  <2> QED BY <2>1, <2>2, <2>4, <2>5 DEF IInv
<1> QED BY <1>1, <1>2

LEMMA FoldMuxFolds ==
  ASSUME NEW n, WellFormed(n), NEW c \in Cells(n), SelectKnown(n, c),
         ~MoveReceiversAborts(n, c, "OUT", ChosenBus(n, c)),
         ~DeleteCellAborts(MoveReceivers(n, c, "OUT", ChosenBus(n, c)), c)
  PROVE  Folds(n, c, MoveReceivers(n, c, "OUT", ChosenBus(n, c)))
<1>1. n.type[c] \in Kind /\ n.type[c].tp \notin {"PORT", "MEM"}
  BY NetFields DEF WellFormed, Cells, SelectKnown, Tp
<1>2. "OUT" \in OutPort
  BY <1>1, OutputPort
<1> QED BY <1>2, MovingFolds

LEMMA FoldOutputFolds ==
  ASSUME NEW n, WellFormed(n), n.next <= MaxId, NEW c \in CellId, CellIns(n, c) # {},
         NEW r, Tp(n, c) \in {"REG", "REG_ARST"} => r[c] \in Val, OutputKnown(n, c, r)
  PROVE  LET v == GetOutput(n, c, r)
             m == ReplaceWithConstant(n, c, "OUT", Const(v))
         IN  v \in Val /\ (~DeleteCellAborts(m, c) => Folds(n, c, m))
<1>1. GetOutput(n, c, r) \in Val
  BY GetOutputType DEF OutputKnown, Known
<1>2. c \in Cells(n) /\ n.type[c] \in Kind
  BY ReadingCell
<1>3. Tp(n, c) # "PORT"
  BY DEF OutputKnown, GetOutput, Unop, ReduceOp, Binary, Comparator
<1>4. "OUT" \in OutPort /\ Width(n.type[c], "OUT") = 1
  BY <1>2, <1>3, OutputPort DEF OutputKnown, Tp
<1> QED BY <1>1, <1>2, <1>4, ReplacingFolds

LEMMA FoldMemoryFolds ==
  ASSUME NEW n, WellFormed(n), n.next <= MaxId, NEW c \in Cells(n), MemoryKnown(n, c),
         ~DeleteCellAborts(ReplaceWithConstant(n, c, "RDATA", Const(0)), c)
  PROVE  Folds(n, c, ReplaceWithConstant(n, c, "RDATA", Const(0)))
<1> DEFINE k == n.type[c]
<1>1. k \in Kind /\ k.tp = "MEM" /\ k # NoType
  BY NetFields, NetlistAssumption DEF WellFormed, Cells, MemoryKnown, Tp
<1>2. "RDATA" \in DOMAIN PortWidths(k)
  BY <1>1 DEF PortWidths, Comparator, Binop, ReduceOp, Unop
<1>3. "RDATA" \in OutPort /\ Width(k, "RDATA") = 1
  BY <1>1, <1>2, SemanticsAssumption DEF OutPort, Port, Width
<1>4. 0 \in Val
  BY DEF Val
<1> QED BY <1>3, <1>4, ReplacingFolds

LEMMA NextIInv == IInv /\ [Next]_vars => IInv'
<1> SUFFICES ASSUME IInv, [Next]_vars PROVE IInv'
  OBVIOUS
<1>0. /\ WellFormed(def) /\ frozen \in [CellId -> Val \cup {NotConst}]
      /\ \A c \in candidates : c \in Cells(def) /\ c \in CellId /\ CellIns(def, c) # {}
      /\ \A c \in CellId : Tp(def, c) \in {"REG", "REG_ARST"} /\ c \in Cells(def) => regs[c] \in Val
  BY DEF IInv, Cells, Registers
<1>1. CASE Turn
  <2>1. PICK c \in candidates : /\ FoldMux(c) \/ FoldMemory(c) \/ FoldOutput(c) \/ PassOver(c)
                                /\ UNCHANGED <<regs, orig>>
    BY <1>1 DEF Turn
  <2>2. \A x \in ReceiverCells(def, c) : x \in CellId /\ CellIns(def, x) # {}
    BY <1>0, ReceiversRead
  <2>3. CASE FoldMux(c)
    <3> DEFINE m == MoveReceivers(def, c, "OUT", ChosenBus(def, c))
               a == MoveReceiversAborts(def, c, "OUT", ChosenBus(def, c))
    <3>1. ~a /\ ~DeleteCellAborts(m, c) => Folds(def, c, m)
      BY <1>0, <2>3, FoldMuxFolds DEF FoldMux
    <3>2. Delete(c, m, a, ReceiverCells(def, c)) /\ frozen' = frozen
      BY <2>3 DEF FoldMux
    <3>3. a \in BOOLEAN
      BY DEF MoveReceiversAborts, SetDriversAborts
    <3> HIDE DEF m, a
    <3> QED BY <1>0, <2>1, <2>2, <3>1, <3>2, <3>3, DeleteTyped
  <2>4. CASE FoldMemory(c)
    <3> DEFINE m == ReplaceWithConstant(def, c, "RDATA", Const(0))
               a == ReplaceWithConstantAborts(def, c, "RDATA", Const(0))
    <3>1. ~a /\ ~DeleteCellAborts(m, c) => Folds(def, c, m)
      BY <1>0, <2>4, FoldMemoryFolds DEF FoldMemory
    <3>2. Delete(c, m, a, {}) /\ frozen' = frozen
      BY <2>4 DEF FoldMemory
    <3>3. a \in BOOLEAN
      BY DEF ReplaceWithConstantAborts, MoveReceiversAborts, SetDriversAborts, NameTaken
    <3> HIDE DEF m, a
    <3> QED BY <1>0, <2>1, <3>1, <3>2, <3>3, DeleteTyped
  <2>5. CASE FoldOutput(c)
    <3> DEFINE v == GetOutput(def, c, regs)
               m == ReplaceWithConstant(def, c, "OUT", Const(v))
               a == ReplaceWithConstantAborts(def, c, "OUT", Const(v))
    <3>1. v \in Val /\ (~DeleteCellAborts(m, c) => Folds(def, c, m))
      BY <1>0, <2>5, FoldOutputFolds DEF FoldOutput
    <3>2. Delete(c, m, a, ReceiverCells(def, c))
      BY <2>5 DEF FoldOutput
    <3>3. a \in BOOLEAN
      BY DEF ReplaceWithConstantAborts, MoveReceiversAborts, SetDriversAborts, NameTaken
    <3>4. Const(v).init[1] = v
      BY DEF Const
    <3>5. frozen' \in [CellId -> Val \cup {NotConst}]
      <4> frozen' = frozen \/ frozen' = [frozen EXCEPT ![c] = Const(v).init[1]]
        BY <2>5 DEF FoldOutput
      <4> HIDE DEF v
      <4> QED BY <1>0, <3>1, <3>4
    <3> HIDE DEF m, a, v
    <3> QED BY <2>1, <2>2, <3>1, <3>2, <3>3, <3>5, DeleteTyped
  <2>6. CASE PassOver(c)
    BY <2>1, <2>6 DEF PassOver, IInv, CellIns, Registers, Cells
  <2> QED BY <2>1, <2>3, <2>4, <2>5, <2>6
<1>2. CASE Finish
  BY <1>2 DEF Finish, IInv, CellIns, Registers, Cells
<1>3. CASE UNCHANGED vars
  BY <1>3 DEF vars, IInv, CellIns, Registers, Cells
<1> QED BY <1>1, <1>2, <1>3 DEF Next

THEOREM FoldingInvariant == Spec => []IInv
BY InitIInv, NextIInv, PTL DEF Spec

\* The definition stays well formed through every fold, and a candidate is a cell.
THEOREM FoldingTyped == Spec => []TypeOK
<1>1. Init => StatesKnown
  BY DEF Init, StatesKnown
<1>2. StatesKnown /\ [Next]_vars => StatesKnown'
  BY DEF StatesKnown, Next, Turn, Finish, vars
<1>3. IInv /\ StatesKnown => TypeOK
  BY DEF IInv, StatesKnown, TypeOK
<1> QED BY <1>1, <1>2, <1>3, FoldingInvariant, PTL DEF Spec

-----------------------------------------------------------------------------
(* No lost candidate.  Folding c changes what is known of the inputs of its  *)
(* receivers only, and they become candidates.                              *)

Memoryless == \A k \in Kind : k.tp # "MEM"

\* Whether a cell can be folded depends on the inputs foldConstants looks at.
LEMMA FoldableDependsOn ==
  ASSUME NEW n, NEW m, NEW x, NEW r, m.type[x] = n.type[x], Tp(n, x) \in Simulated \ {"CONST"},
         \A p \in Examined(Tp(n, x)) :
           MaterializeConstPort(m, x, p) = MaterializeConstPort(n, x, p),
         Tp(n, x) \in {"REG", "REG_ARST"} => m.drivers[PinOf(x, "IN")] = n.drivers[PinOf(x, "IN")]
  PROVE  Foldable(m, x, r) <=> Foldable(n, x, r)
<1> DEFINE tp == Tp(n, x)
<1>0. Tp(m, x) = tp
  BY DEF Tp
<1>1. SelectKnown(m, x) <=> SelectKnown(n, x)
  BY <1>0 DEF SelectKnown, Examined
<1>2. MemoryKnown(m, x) <=> MemoryKnown(n, x)
  BY <1>0 DEF MemoryKnown, Examined
<1>3. tp \notin {"MUX", "MEM"} => GetOutput(m, x, r) = GetOutput(n, x, r)
  <2>1. CASE tp = "PORT"
    BY <1>0, <2>1 DEF GetOutput, Unop, ReduceOp, Binary, Comparator
  <2>2. CASE tp \in Unary
    <3>1. MaterializeConstPort(m, x, "IN") = MaterializeConstPort(n, x, "IN")
      BY <2>2 DEF Examined, Unary, Binary, Comparator
    <3> QED BY <1>0, <2>2, <3>1 DEF GetOutput, Unary, Unop, ReduceOp, Binary, Comparator
  <2>3. CASE tp \in Binary
    <3>1. /\ MaterializeConstPort(m, x, "IN0") = MaterializeConstPort(n, x, "IN0")
          /\ MaterializeConstPort(m, x, "IN1") = MaterializeConstPort(n, x, "IN1")
      BY <2>3 DEF Examined, Binary, Comparator
    <3> QED BY <1>0, <2>3, <3>1 DEF GetOutput, Unop, ReduceOp, Binary, Comparator
  <2>4. CASE tp \in {"REG", "REG_ARST"}
    <3>1. /\ MaterializeConstPort(m, x, "IN") = MaterializeConstPort(n, x, "IN")
          /\ tp = "REG_ARST" =>
               MaterializeConstPort(m, x, "ARST") = MaterializeConstPort(n, x, "ARST")
      BY <2>4 DEF Examined, Binary, Comparator
    <3>2. MaterializeRegisterInput(m, x, r) = MaterializeRegisterInput(n, x, r)
      BY <2>4, <3>1 DEF MaterializeRegisterInput
    <3> QED BY <1>0, <2>4, <3>1, <3>2 DEF GetOutput, Unop, ReduceOp, Binary, Comparator
  <2> QED BY <2>1, <2>2, <2>3, <2>4 DEF Simulated
<1> QED BY <1>0, <1>1, <1>2, <1>3 DEF Foldable, OutputKnown

\* The ports foldConstants looks at are inputs of the cell.
LEMMA ExaminedPins ==
  ASSUME NEW n, WellFormed(n), NEW x \in CellId, CellIns(n, x) # {}, NEW p \in Examined(Tp(n, x))
  PROVE  PinOf(x, p) \in CellIns(n, x)
<1>1. n.type[x] \in Kind /\ n.type[x].tp # "CONST" /\ n.type[x] # NoType
  BY ReadingCell, NetlistAssumption DEF Tp, NoType
<1>2. p \in DOMAIN PortWidths(n.type[x]) /\ p \in InPort /\ p \in Port
  BY <1>1, ExaminedArePorts DEF Tp, InPort
<1>3. Width(n.type[x], p) = 1 /\ 0 \in Offset
  BY <1>1, <1>2, SemanticsAssumption DEF Width, Offset
<1> QED BY <1>2, <1>3 DEF CellIns, InBits, PinOf, Bit

\* In a definition without memories, a cell that c drives is a receiver of c.
LEMMA DrivenAreReceivers ==
  ASSUME NEW n, WellFormed(n), Memoryless, NEW b \in InBits(n), NEW c \in CellId,
         n.drivers[b].cell = c
  PROVE  b.cell \in ReceiverCells(n, c)
<1> DEFINE d == n.drivers[b]
<1>1. n \in Net /\ b \in Bit /\ d # NoBit /\ d \in OutBits(n) /\ d \in Bit
  BY NetlistAssumption, NetFields DEF WellFormed, WiresExistIn, InBits, OutBits, CellId, NoBit
<1>2. b \in n.receivers[d]
  BY <1>1 DEF WellFormed, EndsAgreeIn
<1>3. n.type[c] \in Kind
  BY <1>1, NoCellNoBits, NetFields
<1>4. d.port \in DOMAIN PortWidths(n.type[c]) /\ d.port \in {"OUT", "RDATA"}
  BY <1>1, <1>3 DEF OutBits, OutPort, Width, Bit, Offset
<1>5. d.port = "OUT"
  BY <1>3, <1>4, OnlyMemoriesRead DEF Memoryless
<1> QED BY <1>1, <1>2, <1>5 DEF ReceiverCells, Receivers, PortOuts

\* A cell that is left and was not a receiver of c is foldable only if it was.
LEMMA UntouchedCell ==
  ASSUME NEW n, NEW c, NEW m, Folds(n, c, m), Memoryless, NEW r,
         NEW x \in Cells(DeleteCell(m, c)), x \notin ReceiverCells(n, c),
         ReadsConstant(DeleteCell(m, c), x), Foldable(DeleteCell(m, c), x, r)
  PROVE  x \in Cells(n) \ {c} /\ ReadsConstant(n, x) /\ Foldable(n, x, r)
<1> DEFINE d == DeleteCell(m, c)
<1>0. WellFormed(n) /\ c \in CellId /\ x \in CellId
  BY DEF Folds, Cells
<1>1. /\ WellFormed(d) /\ c \notin Cells(d)
      /\ \A y \in Cells(n) \ {c} : y \in Cells(d) /\ d.type[y] = n.type[y]
      /\ \A y \in Cells(d) \ Cells(n) : Tp(d, y) = "CONST"
      /\ \A b \in InBits(n) : b.cell # c /\ n.drivers[b].cell # c => d.drivers[b] = n.drivers[b]
  BY FoldEffect
<1>2. ReadsConstant(d, x) /\ Foldable(d, x, r) /\ x \in Cells(d)
  OBVIOUS
<1> HIDE DEF d
<1>3. CellIns(d, x) # {} /\ Tp(d, x) \in Simulated \ {"CONST"}
  BY <1>0, <1>1, <1>2, ReadingCell DEF ReadsConstant
<1>4. x \in Cells(n) \ {c} /\ d.type[x] = n.type[x]
  BY <1>1, <1>2, <1>3
<1>5. CellIns(n, x) = CellIns(d, x) /\ Tp(n, x) = Tp(d, x)
  BY <1>4 DEF CellIns, InBits, Tp
<1>6. ASSUME NEW b \in CellIns(n, x)
      PROVE  /\ d.drivers[b] = n.drivers[b]
             /\ MaterializeConstPort(d, x, b.port) = MaterializeConstPort(n, x, b.port)
  <2>1. b \in InBits(n) /\ b \in Bit /\ b.cell = x /\ b = PinOf(x, b.port)
    BY InputPins DEF CellIns, InBits
  <2>2. n.drivers[b].cell # c
    BY <1>0, <2>1, DrivenAreReceivers
  <2>3. d.drivers[b] = n.drivers[b]
    BY <1>1, <1>4, <2>1, <2>2
  <2>4. n.drivers[b].cell # 0 => n.drivers[b].cell \in Cells(n) \ {c}
    <3> SUFFICES ASSUME n.drivers[b].cell # 0 PROVE n.drivers[b].cell \in Cells(n)
      BY <2>2
    <3>1. n.drivers[b] \in OutBits(n)
      BY <1>0, <2>1 DEF WellFormed, WiresExistIn, NoBit
    <3> QED BY <1>0, <3>1, NoCellNoBits DEF WellFormed, Cells
  <2> QED BY <1>1, <2>1, <2>3, <2>4 DEF MaterializeConstPort, Driver, Tp
<1>7. ReadsConstant(n, x)
  BY <1>2, <1>5, <1>6 DEF ReadsConstant
<1>8. Foldable(n, x, r)
  <2>1. \A p \in Examined(Tp(n, x)) :
          /\ MaterializeConstPort(d, x, p) = MaterializeConstPort(n, x, p)
          /\ d.drivers[PinOf(x, p)] = n.drivers[PinOf(x, p)]
    <3> SUFFICES ASSUME NEW p \in Examined(Tp(n, x))
                 PROVE  /\ MaterializeConstPort(d, x, p) = MaterializeConstPort(n, x, p)
                        /\ d.drivers[PinOf(x, p)] = n.drivers[PinOf(x, p)]
      OBVIOUS
    <3>1. PinOf(x, p) \in CellIns(n, x) /\ PinOf(x, p).port = p
      BY <1>0, <1>3, <1>5, ExaminedPins DEF PinOf
    <3> QED BY <1>6, <3>1
  <2>2. Tp(n, x) \in {"REG", "REG_ARST"} => "IN" \in Examined(Tp(n, x))
    BY DEF Examined, Binary, Comparator
  <2> QED BY <1>2, <1>3, <1>4, <1>5, <2>1, <2>2, FoldableDependsOn
<1> QED BY <1>4, <1>7, <1>8

\* A cell all of whose inputs are constant can be folded, unless it is a port.
LEMMA AllInputsConstFoldable ==
  ASSUME NEW n, WellFormed(n), NEW x \in CellId, AllInputsConst(n, x), Tp(n, x) # "PORT",
         NEW r, Tp(n, x) \in {"REG", "REG_ARST"} => r[x] \in Val
  PROVE  ReadsConstant(n, x) /\ Foldable(n, x, r)
<1> DEFINE tp   == Tp(n, x)
           k(p) == MaterializeConstPort(n, x, p)
<1>0. CellIns(n, x) # {}
  BY DEF AllInputsConst
<1>1. tp \in Simulated \ {"CONST", "PORT"} /\ n.type[x] \in Kind
  BY <1>0, ReadingCell
<1>2. \A p \in Examined(tp) : k(p) # NotConst /\ k(p) \in Known
  <2> SUFFICES ASSUME NEW p \in Examined(tp) PROVE k(p) # NotConst /\ k(p) \in Known
    OBVIOUS
  <2>1. PinOf(x, p) \in CellIns(n, x) /\ PinOf(x, p).port = p
    BY <1>0, ExaminedPins DEF PinOf
  <2>2. p \in Port
    BY <1>1, ExaminedArePorts DEF Tp, InPort
  <2> QED BY <2>1, <2>2, ConstPortType DEF AllInputsConst
<1>3. ReadsConstant(n, x)
  BY <1>0 DEF AllInputsConst, ReadsConstant
<1>4. Foldable(n, x, r)
  <2>1. CASE tp = "MUX"
    BY <1>2, <2>1 DEF Foldable, SelectKnown, Examined
  <2>2. CASE tp = "MEM"
    BY <1>2, <2>2 DEF Foldable, MemoryKnown, Examined
  <2>3. CASE tp \in {"ZEXT", "SLICE"}
    <3>1. k("IN") # NotConst
      BY <1>2, <2>3 DEF Examined, Binary, Comparator
    <3>2. GetOutput(n, x, r) = k("IN")
      BY <2>3 DEF GetOutput, Unop, ReduceOp, Binary, Comparator
    <3> QED BY <2>3, <3>1, <3>2 DEF Foldable, OutputKnown
  <2>4. CASE tp \in Unary \ {"ZEXT", "SLICE"}
    <3>1. k("IN") # NotConst /\ k("IN") \in Val
      BY <1>2, <2>4 DEF Examined, Binary, Comparator, Unary, Known
    <3>2. tp \in Unop \ {"XORR"} /\ tp \notin {"ZEXT", "SLICE", "PORT", "MUX", "MEM"}
      BY <2>4 DEF Unary, Unop, ReduceOp
    <3>3. GetOutput(n, x, r) = DoUnop(tp, k("IN"))
      BY <2>4, <3>1, <3>2 DEF GetOutput, Unary, Binary, Comparator
    <3> HIDE DEF k, tp
    <3>4. DoUnop(tp, k("IN")) \in Val
      BY <3>1, <3>2, DoUnopType
    <3> QED BY <3>2, <3>3, <3>4 DEF Foldable, OutputKnown, Val, NotConst, tp
  <2>5. CASE tp \in Binary
    <3>1. /\ k("IN0") # NotConst /\ k("IN0") \in Val
          /\ k("IN1") # NotConst /\ k("IN1") \in Val
      BY <1>2, <2>5 DEF Examined, Binary, Comparator, Known
    <3>2. GetOutput(n, x, r) = DoBinop(tp, k("IN0"), k("IN1"))
      BY <2>5, <3>1 DEF GetOutput, Binary, Comparator, Unop, ReduceOp
    <3>3. tp \notin {"MUX", "MEM"}
      BY <2>5 DEF Binary, Comparator
    <3> HIDE DEF k, tp
    <3>4. DoBinop(tp, k("IN0"), k("IN1")) \in Val
      BY <2>5, <3>1, DoBinopType
    <3> QED BY <3>2, <3>3, <3>4 DEF Foldable, OutputKnown, Val, NotConst, tp
  <2>6. CASE tp \in {"REG", "REG_ARST"}
    <3>1. k("IN") # NotConst /\ (tp = "REG_ARST" => k("ARST") # NotConst)
      BY <1>2, <2>6 DEF Examined, Binary, Comparator
    <3>2. MaterializeRegisterInput(n, x, r) = k("IN")
      BY <3>1 DEF MaterializeRegisterInput
    <3>3. GetOutput(n, x, r) = k("IN")
      BY <2>6, <3>1, <3>2 DEF GetOutput, Binary, Comparator, Unop, ReduceOp
    <3> QED BY <2>6, <3>1, <3>3 DEF Foldable, OutputKnown
  <2> QED BY <1>1, <2>1, <2>2, <2>3, <2>4, <2>5, <2>6 DEF Simulated
<1> QED BY <1>3, <1>4

PortsArePortCells == \A c \in Cells(def) : Tp(def, c) = "PORT" => c \in def.portCells

FullInv == IInv /\ PortsArePortCells /\ NoLostCandidate /\ ClosingCheckPasses

\* A turn that deletes a cell and looks at its receivers again, or stops.
LEMMA DeleteLosesNone ==
  ASSUME Memoryless, FullInv, IInv', NEW c \in candidates, NEW m, NEW aborts \in BOOLEAN,
         ~aborts /\ ~DeleteCellAborts(m, c) => Folds(def, c, m),
         Delete(c, m, aborts, ReceiverCells(def, c)), phase = "folding", UNCHANGED regs
  PROVE  FullInv'
<1>1. CASE aborts \/ DeleteCellAborts(m, c)
  BY <1>1 DEF Delete, FullInv, PortsArePortCells, NoLostCandidate, ClosingCheckPasses,
              ReadsConstant, Foldable, SelectKnown, MemoryKnown, OutputKnown, Cells, Tp
<1>2. CASE ~(aborts \/ DeleteCellAborts(m, c))
  <2>1. /\ Folds(def, c, m) /\ def' = DeleteCell(m, c) /\ phase' = phase
        /\ candidates' = (candidates \cup ReceiverCells(def, c)) \ {c}
    BY <1>2 DEF Delete
  <2>2. /\ def'.portCells = def.portCells /\ c \notin Cells(def')
        /\ \A x \in Cells(def) \ {c} : x \in Cells(def') /\ def'.type[x] = def.type[x]
        /\ \A x \in Cells(def') \ Cells(def) : Tp(def', x) = "CONST"
    BY <2>1, FoldEffect
  <2>3. PortsArePortCells'
    BY <2>2 DEF PortsArePortCells, FullInv, Tp
  <2>4. ASSUME NEW x \in Cells(def'), ReadsConstant(def', x), Foldable(def', x, regs')
        PROVE  x \in candidates'
    <3>1. CASE x \in ReceiverCells(def, c)
      BY <2>1, <2>2, <2>4, <3>1
    <3>2. CASE x \notin ReceiverCells(def, c)
      <4>1. x \in Cells(def) \ {c} /\ ReadsConstant(def, x) /\ Foldable(def, x, regs)
        BY <2>1, <2>4, <3>2, UntouchedCell
      <4> QED BY <2>1, <4>1 DEF FullInv, NoLostCandidate
    <3> QED BY <3>1, <3>2
  <2>5. NoLostCandidate'
    BY <2>4 DEF NoLostCandidate
  <2>6. ClosingCheckPasses'
    BY <2>1 DEF FullInv, ClosingCheckPasses
  <2> QED BY <2>3, <2>5, <2>6 DEF FullInv
<1> QED BY <1>1, <1>2

LEMMA InitFullInv == Init => FullInv
<1> SUFFICES ASSUME Init PROVE FullInv
  OBVIOUS
<1>1. NoLostCandidate
  BY DEF Init, NoLostCandidate
<1>2. PortsArePortCells /\ ClosingCheckPasses
  BY FoldAssumption DEF Init, PortsArePortCells, ClosingCheckPasses
<1> QED BY <1>1, <1>2, InitIInv DEF FullInv

LEMMA NextFullInv == ASSUME Memoryless PROVE FullInv /\ [Next]_vars => FullInv'
<1> SUFFICES ASSUME FullInv, [Next]_vars PROVE FullInv'
  OBVIOUS
<1>0. IInv /\ IInv'
  BY NextIInv DEF FullInv
<1>a. /\ WellFormed(def)
      /\ \A c \in candidates : c \in Cells(def) /\ c \in CellId /\ CellIns(def, c) # {}
      /\ \A c \in CellId : Tp(def, c) \in {"REG", "REG_ARST"} /\ c \in Cells(def) => regs[c] \in Val
  BY <1>0 DEF IInv, Cells, Registers
<1>1. CASE Turn
  <2>1. PICK c \in candidates : /\ FoldMux(c) \/ FoldMemory(c) \/ FoldOutput(c) \/ PassOver(c)
                                /\ phase = "folding" /\ UNCHANGED <<regs, orig>>
    BY <1>1 DEF Turn
  <2>2. CASE FoldMux(c)
    <3> DEFINE m == MoveReceivers(def, c, "OUT", ChosenBus(def, c))
               a == MoveReceiversAborts(def, c, "OUT", ChosenBus(def, c))
    <3>1. ~a /\ ~DeleteCellAborts(m, c) => Folds(def, c, m)
      BY <1>a, <2>2, FoldMuxFolds DEF FoldMux
    <3>2. Delete(c, m, a, ReceiverCells(def, c))
      BY <2>2 DEF FoldMux
    <3>3. a \in BOOLEAN
      BY DEF MoveReceiversAborts, SetDriversAborts
    <3> HIDE DEF m, a
    <3> QED BY <1>0, <2>1, <3>1, <3>2, <3>3, DeleteLosesNone
  <2>3. CASE FoldMemory(c)
    <3>1. def.type[c] \in Kind
      BY <1>a, ReadingCell
    <3> QED BY <2>3, <3>1 DEF FoldMemory, MemoryKnown, Memoryless, Tp
  <2>4. CASE FoldOutput(c)
    <3> DEFINE v == GetOutput(def, c, regs)
               m == ReplaceWithConstant(def, c, "OUT", Const(v))
               a == ReplaceWithConstantAborts(def, c, "OUT", Const(v))
    <3>1. ~DeleteCellAborts(m, c) => Folds(def, c, m)
      BY <1>a, <2>4, FoldOutputFolds DEF FoldOutput
    <3>2. Delete(c, m, a, ReceiverCells(def, c))
      BY <2>4 DEF FoldOutput
    <3>3. a \in BOOLEAN
      BY DEF ReplaceWithConstantAborts, MoveReceiversAborts, SetDriversAborts, NameTaken
    <3> HIDE DEF m, a, v
    <3> QED BY <1>0, <2>1, <3>1, <3>2, <3>3, DeleteLosesNone
  <2>5. CASE PassOver(c)
    <3>1. /\ ~Foldable(def, c, regs) /\ def' = def /\ regs' = regs /\ phase' = phase
          /\ candidates' = candidates \ {c}
      BY <2>1, <2>5 DEF PassOver
    <3>2. NoLostCandidate'
      BY <3>1 DEF NoLostCandidate, FullInv
    <3>3. PortsArePortCells' /\ ClosingCheckPasses'
      BY <3>1 DEF PortsArePortCells, ClosingCheckPasses, FullInv
    <3> QED BY <1>0, <3>2, <3>3 DEF FullInv
  <2> QED BY <2>1, <2>2, <2>3, <2>4, <2>5
<1>2. CASE Finish
  <2>1. candidates = {} /\ def' = def /\ regs' = regs /\ candidates' = candidates
    BY <1>2 DEF Finish
  <2>2. ASSUME NEW x \in Cells(def) \ def.portCells, AllInputsConst(def, x)
        PROVE  FALSE
    <3>1. x \in CellId /\ Tp(def, x) # "PORT"
      BY DEF Cells, FullInv, PortsArePortCells
    <3>2. ReadsConstant(def, x) /\ Foldable(def, x, regs)
      BY <1>a, <2>2, <3>1, AllInputsConstFoldable
    <3> QED BY <2>1, <3>2 DEF FullInv, NoLostCandidate
  <2>3. ClosingCheckPasses'
    BY <1>2, <2>2 DEF Finish, ClosingCheckPasses
  <2>4. NoLostCandidate' /\ PortsArePortCells'
    BY <2>1 DEF NoLostCandidate, PortsArePortCells, FullInv
  <2> QED BY <1>0, <2>3, <2>4 DEF FullInv
<1>3. CASE UNCHANGED vars
  <2>1. def' = def /\ regs' = regs /\ candidates' = candidates /\ phase' = phase
    BY <1>3 DEF vars
  <2>2. NoLostCandidate' /\ PortsArePortCells' /\ ClosingCheckPasses'
    BY <2>1 DEF NoLostCandidate, PortsArePortCells, ClosingCheckPasses, FullInv
  <2> QED BY <1>0, <2>2 DEF FullInv
<1> QED BY <1>1, <1>2, <1>3 DEF Next

\* In a definition without memories every cell that reads a constant and can be
\* folded is a candidate, at every turn of the loop.
THEOREM NoCandidateIsLost == ASSUME Memoryless PROVE Spec => []NoLostCandidate
<1>1. FullInv => NoLostCandidate
  BY DEF FullInv
<1>2. FullInv /\ [Next]_vars => FullInv'
  BY NextFullInv
<1> QED BY <1>1, <1>2, InitFullInv, PTL DEF Spec

\* So when it ends no cell is left all of whose inputs are constant: the closing
\* check of foldConstants passes.
THEOREM ClosingCheckHolds == ASSUME Memoryless PROVE Spec => []ClosingCheckPasses
<1>1. FullInv => ClosingCheckPasses
  BY DEF FullInv
<1>2. FullInv /\ [Next]_vars => FullInv'
  BY NextFullInv
<1> QED BY <1>1, <1>2, InitFullInv, PTL DEF Spec

-----------------------------------------------------------------------------
(* Folding keeps the function.  First what a fold makes of a definition: the *)
(* receivers of c are given to e and c is deleted, e being a new constant or *)
(* a cell that c reads.                                                      *)

\* The port of a multiplexer that its known select chooses.
ChosenPort(n, c) == IF MaterializeConstPort(n, c, "SEL") = 1 THEN "IN1" ELSE "IN0"

LEMMA MuxFoldsInto ==
  ASSUME NEW n, WellFormed(n), FullyDriven(n), Acyclic(n), NEW c \in Cells(n) \ n.portCells,
         Tp(n, c) = "MUX"
  PROVE  LET m == MoveReceivers(n, c, "OUT", ChosenBus(n, c))
             d == DeleteCell(m, c)
             e == Driver(n, c, ChosenPort(n, c))
         IN  /\ ~MoveReceiversAborts(n, c, "OUT", ChosenBus(n, c)) /\ ~DeleteCellAborts(m, c)
             /\ FoldedInto(n, c, d, e)
             /\ Cells(d) \subseteq Cells(n) /\ d.next = n.next /\ d.constNames = n.constNames
             /\ c \in Evaluated(n) /\ e \in Cells(n)
             /\ ChosenPort(n, c) \in Reads(Tp(n, c)) /\ PinOf(c, ChosenPort(n, c)) \in InBits(n)
<1> DEFINE p == ChosenPort(n, c)
           with == ChosenBus(n, c)
<1>1. /\ with = [o \in Offset |-> n.drivers[[cell |-> c, port |-> p, offset |-> o]]] /\ Offset = {0}
      /\ p \in {"IN0", "IN1"}
  BY SemanticsAssumption DEF ChosenBus, ChosenPort, Offset
<1> HIDE DEF p, with
<1>2. with[0] = n.drivers[PinOf(c, p)]
  BY <1>1 DEF PinOf
<1>3. p \in {"IN0", "IN1"}
  BY <1>1
<1> QED BY <1>2, <1>3, PassingFoldsInto DEF p, with

LEMMA ConstantFoldsInto ==
  ASSUME NEW n, WellFormed(n), FullyDriven(n), n.next <= MaxId, NEW c \in Cells(n) \ n.portCells,
         NEW p \in OutPort, ~NameTaken(n, c, p), Width(n.type[c], p) = 1,
         OnlyOutput(n, c, p), NEW v \in Val
  PROVE  LET m == ReplaceWithConstant(n, c, p, Const(v))
             d == DeleteCell(m, c)
         IN  /\ ~ReplaceWithConstantAborts(n, c, p, Const(v)) /\ ~DeleteCellAborts(m, c)
             /\ FoldedInto(n, c, d, n.next)
             /\ d.type[n.next] = Const(v) /\ n.next < d.next /\ n.next \notin Cells(n)
             /\ \A x \in d.constNames : x \in n.constNames \/ x = <<c, p>>
<1> DEFINE k == Const(v)
           m == ReplaceWithConstant(n, c, p, k)
           d == DeleteCell(m, c)
<1>1. k \in Kind /\ k.tp = "CONST" /\ k.width = 1 /\ k # NoType
  BY FoldAssumption, NetlistAssumption DEF Const, NoType
<1>2. n \in Net /\ c \in CellId /\ c \in Cells(n) /\ n.next \notin Cells(n) /\ n.next \in CellId /\ n.next # c
  BY <1>1, AddCellWellFormed, NetFields, NetlistAssumption DEF WellFormed, Cells, CellId
<1> HIDE DEF k
<1>3. ~ReplaceWithConstantAborts(n, c, p, k)
  BY <1>1, ReplaceWithConstantWellFormed
<1>4. Constantly(m, n, c, p, k)
  BY <1>1, <1>2, ReplacingHandsOver
<1> HIDE DEF m
<1>5. /\ WellFormed(m) /\ m \in Net /\ m.portCells = n.portCells /\ m.type[c] = n.type[c]
      /\ n.next \in Cells(m) \ {c} /\ Cells(m) \ Cells(n) \subseteq {n.next}
  BY <1>2, <1>4 DEF Constantly, HandedTo, WellFormed
<1>6. ~DeleteCellAborts(m, c)
  BY <1>4, <1>5, DeletesSafely DEF Constantly, HandedTo
<1>7. Folds(n, c, m)
  BY <1>1, <1>6, ReplacingFolds DEF k, m
<1>8. FoldedInto(n, c, d, n.next)
  BY <1>4, <1>5, <1>7, FoldsInto DEF Constantly
<1>9. /\ d.next = m.next /\ d.constNames = m.constNames /\ d.type = [m.type EXCEPT ![c] = NoType]
  BY <1>5, NetFields DEF DeleteCell
<1> HIDE DEF d
<1>10. d.type[n.next] = k
  BY <1>2, <1>4, <1>5, <1>9, NetFields DEF Constantly
<1>11. \A x \in d.constNames : x \in n.constNames \/ x = <<c, p>>
  BY <1>4, <1>9 DEF Constantly, Replaced
<1> QED BY <1>2, <1>3, <1>4, <1>6, <1>8, <1>9, <1>10, <1>11 DEF k, m, d, Constantly

-----------------------------------------------------------------------------
(* What a definition that is being folded has to do with the original.       *)

\* Besides, no name of a constant that is to replace a cell is taken.
Structure(n, o) ==
  /\ Remains(n, o)
  /\ \A c \in n.portCells : Tp(n, c) = "PORT"
  /\ \A c \in (Cells(n) \cap Cells(o)) \ n.portCells : \A p \in OutPort : ~NameTaken(n, c, p)

\* The only names a fold of c adds are those of constants that replace c.
NamesAdded(d, n, c) ==
  \A x \in d.constNames : x \in n.constNames \/ \E p \in OutPort : x = <<c, p>>

LEMMA FoldStructure ==
  ASSUME NEW n, NEW o, Structure(n, o), o \in Net, NEW c \in Cells(n), NEW d, NEW e,
         FoldedInto(n, c, d, e), Acyclic(d), n.next <= d.next, d.next \in Nat,
         e \in Cells(n) \/ e = n.next, NamesAdded(d, n, c)
  PROVE  /\ Structure(d, o)
         /\ e \in Cells(o) => e \in Cells(n)
         /\ Cells(o) \ Cells(d) = (Cells(o) \ Cells(n)) \cup (Cells(o) \cap {c})
<1>1. /\ Remains(d, o)
      /\ e \in Cells(o) => e \in Cells(n)
      /\ \A x \in Cells(d) \cap Cells(o) : x \in Cells(n) /\ x # c
      /\ Cells(o) \ Cells(d) = (Cells(o) \ Cells(n)) \cup (Cells(o) \cap {c})
  <2>1. Remains(n, o) /\ HandedTo(n, c, d, e) /\ c \notin Cells(d)
    BY DEF Structure, Remains, FoldedInto, HandedTo
  <2> QED BY <2>1, HandingRemains
<1>2. \A x \in d.portCells : Tp(d, x) = "PORT"
  <2> SUFFICES ASSUME NEW x \in d.portCells PROVE Tp(d, x) = "PORT"
    OBVIOUS
  <2>1. x \in n.portCells /\ x \in Cells(d) /\ x \in Cells(n) /\ x # c
    BY DEF FoldedInto, HandedTo, Structure, Remains, WellFormed, CellsNumbered
  <2>2. d.type[x] = n.type[x]
    BY <2>1 DEF FoldedInto, HandedTo
  <2> QED BY <2>1, <2>2 DEF Structure, Remains, Tp
<1>3. \A x \in (Cells(d) \cap Cells(o)) \ d.portCells : \A p \in OutPort : ~NameTaken(d, x, p)
  <2> SUFFICES ASSUME NEW x \in (Cells(d) \cap Cells(o)) \ d.portCells, NEW p \in OutPort,
                      <<x, p>> \in d.constNames
               PROVE  FALSE
    BY DEF NameTaken
  <2>1. x \in Cells(n) \cap Cells(o) /\ x \notin n.portCells /\ x # c
    BY <1>1 DEF FoldedInto, HandedTo
  <2>2. <<x, p>> \notin n.constNames
    BY <2>1 DEF Structure, Remains, NameTaken
  <2>3. PICK q \in OutPort : <<x, p>> = <<c, q>>
    BY <2>2 DEF NamesAdded
  <2> QED BY <2>1, <2>3
<1> QED BY <1>1, <1>2, <1>3 DEF Structure, Remains

-----------------------------------------------------------------------------
(* What folding knows is so in the original definition.                      *)

\* A cell with inputs is a cell of the original.
LEMMA ReadingCellIsKept ==
  ASSUME NEW n, NEW o, Structure(n, o), NEW c \in CellId, CellIns(n, c) # {}
  PROVE  c \in Cells(n) /\ c \in Cells(o) /\ n.type[c] = o.type[c] /\ Tp(n, c) = Tp(o, c)
<1>1. c \in Cells(n) /\ Tp(n, c) # "CONST"
  BY ReadingCell DEF Structure, Remains
<1> QED BY <1>1 DEF Structure, Remains, Tp

LEMMA ConstantInputIsRead ==
  ASSUME NEW n, NEW o, Structure(n, o), NEW w, Solution(o, w, Zeros), ReadsAs(n, o, w),
         NEW c, NEW p, PinOf(c, p) \in InBits(n), MaterializeConstPort(n, c, p) # NotConst
  PROVE  In(o, w, c, p) = MaterializeConstPort(n, c, p)
<1> DEFINE x == Driver(n, c, p)
<1>1. x # 0 /\ Tp(n, x) = "CONST" /\ MaterializeConstPort(n, c, p) = n.type[x].init[1]
  BY DEF MaterializeConstPort
<1>2. Value(n, o, w, x) = In(o, w, c, p)
  BY DEF ReadsAs, Driver, In
<1>3. x \in Cells(n)
  <2>1. PinOf(c, p) \in Bit /\ n.drivers[PinOf(c, p)] # NoBit /\ n \in Net
    BY DEF Structure, Remains, FullyDriven, WellFormed, InBits
  <2>2. n.drivers[PinOf(c, p)] \in OutBits(n)
    BY <2>1 DEF Structure, Remains, WellFormed, WiresExistIn
  <2> QED BY <2>1, <2>2, NoCellNoBits DEF Cells, Driver
<1>4. CASE x \in Cells(o)
  <2>1. n.type[x] = o.type[x]
    BY <1>3, <1>4 DEF Structure, Remains
  <2> QED BY <1>1, <1>2, <1>4, <2>1 DEF Solution, Value, Tp
<1>5. CASE x \notin Cells(o)
  <2>1. InitialValue(n, x) = n.type[x].init[1]
    BY <1>1, <1>3 DEF InitialValue, Memories
  <2> QED BY <1>1, <1>2, <1>5, <2>1 DEF Value
<1> QED BY <1>4, <1>5

LEMMA InputIsValue ==
  ASSUME NEW n, NEW o, Structure(n, o), WellFormed(o), FullyDriven(o), NEW w, Solution(o, w, Zeros),
         NEW c, NEW p, PinOf(c, p) \in InBits(n)
  PROVE  In(o, w, c, p) \in Val
<1> DEFINE b == PinOf(c, p)
<1>1. b \in Bit /\ b.cell = c /\ c \in CellId /\ CellIns(n, c) # {}
  BY DEF InBits, Bit, PinOf, CellIns
<1>2. c \in Cells(o) /\ n.type[c] = o.type[c]
  BY <1>1, ReadingCellIsKept
<1>3. b \in InBits(o)
  BY <1>1, <1>2 DEF InBits
<1>4. o.drivers[b] # NoBit /\ o.drivers[b] \in OutBits(o) /\ o \in Net
  BY <1>1, <1>3 DEF FullyDriven, WellFormed, WiresExistIn
<1>5. Driver(o, c, p) \in Cells(o)
  BY <1>4, NoCellNoBits DEF Cells, Driver
<1> QED BY <1>5 DEF Solution, In

\* A gate whose output is known.
LEMMA KnownOutputIsShown ==
  ASSUME NEW n, NEW o, Structure(n, o), WellFormed(o), FullyDriven(o),
         NEW w, Solution(o, w, Zeros), ReadsAs(n, o, w),
         NEW c \in CellId, CellIns(n, c) # {}, Tp(n, c) \in Unary \cup Binary,
         NEW r, GetOutput(n, c, r) # NotConst
  PROVE  w[c] = GetOutput(n, c, r)
<1> DEFINE tp   == Tp(n, c)
           k(p) == MaterializeConstPort(n, c, p)
<1>1. c \in Cells(o) /\ Tp(o, c) = tp /\ WellFormed(n)
  BY ReadingCellIsKept DEF Structure, Remains
<1>2. w[c] = Eval(o, w, Zeros, c)
  <2>1. c \in Evaluated(o)
    BY <1>1 DEF Evaluated, Inputs, Registers, Unary, Binary, Comparator
  <2> QED BY <2>1 DEF Solution
<1>3. \A p \in Examined(tp) : /\ k(p) # NotConst => In(o, w, c, p) = k(p)
                              /\ In(o, w, c, p) \in Val
  <2> SUFFICES ASSUME NEW p \in Examined(tp)
               PROVE  /\ k(p) # NotConst => In(o, w, c, p) = k(p)
                      /\ In(o, w, c, p) \in Val
    OBVIOUS
  <2>1. PinOf(c, p) \in InBits(n)
    BY <1>1, ExaminedPins DEF CellIns
  <2> QED BY <2>1, ConstantInputIsRead, InputIsValue
<1>4. CASE tp \in Unary
  <2>1. "IN" \in Examined(tp)
    BY <1>4 DEF Examined, Unary, Binary, Comparator
  <2>2. CASE tp \in {"ZEXT", "SLICE"}
    <3>1. GetOutput(n, c, r) = k("IN")
      BY <2>2 DEF GetOutput, Unop, ReduceOp, Binary, Comparator
    <3>2. Eval(o, w, Zeros, c) = In(o, w, c, "IN")
      BY <1>1, <2>2 DEF Eval, Comparator
    <3> QED BY <1>2, <1>3, <2>1, <3>1, <3>2
  <2>3. CASE tp \in Unary \ {"ZEXT", "SLICE"}
    <3>1. tp \in Unop /\ tp \notin {"ZEXT", "SLICE", "PORT"}
      BY <2>3 DEF Unary, Unop, ReduceOp
    <3>2. k("IN") # NotConst /\ GetOutput(n, c, r) = DoUnop(tp, k("IN"))
      BY <3>1 DEF GetOutput, Unop, ReduceOp, Binary, Comparator
    <3>3. Eval(o, w, Zeros, c) = DoUnop(tp, In(o, w, c, "IN"))
      BY <1>1, <2>3 DEF Eval, DoUnop, Unary, Comparator
    <3> QED BY <1>2, <1>3, <2>1, <3>2, <3>3
  <2> QED BY <1>4, <2>2, <2>3
<1>5. CASE tp \in Binary
  <2>1. {"IN0", "IN1"} \subseteq Examined(tp)
    BY <1>5 DEF Examined, Binary, Comparator
  <2>2. Eval(o, w, Zeros, c) = DoBinop(tp, In(o, w, c, "IN0"), In(o, w, c, "IN1"))
    BY <1>1, <1>5 DEF Eval, DoBinop, Binary, Comparator
  <2>3. \/ /\ NotConst \notin {k("IN0"), k("IN1")}
           /\ GetOutput(n, c, r) = DoBinop(tp, k("IN0"), k("IN1"))
        \/ tp = "AND" /\ 0 \in {k("IN0"), k("IN1")} /\ GetOutput(n, c, r) = 0
        \/ tp = "OR" /\ 1 \in {k("IN0"), k("IN1")} /\ GetOutput(n, c, r) = 1
    BY <1>5 DEF GetOutput, Unop, ReduceOp, Binary, Comparator
  <2>4. CASE NotConst \notin {k("IN0"), k("IN1")} /\ GetOutput(n, c, r) = DoBinop(tp, k("IN0"), k("IN1"))
    BY <1>2, <1>3, <2>1, <2>2, <2>4
  <2>5. CASE tp = "AND" /\ 0 \in {k("IN0"), k("IN1")} /\ GetOutput(n, c, r) = 0
    <3>1. 0 \in {In(o, w, c, "IN0"), In(o, w, c, "IN1")}
      BY <1>3, <2>1, <2>5 DEF NotConst
    <3>2. DoBinop(tp, In(o, w, c, "IN0"), In(o, w, c, "IN1"))
            = QAnd(In(o, w, c, "IN0"), In(o, w, c, "IN1"))
      BY <2>5 DEF DoBinop
    <3> QED BY <1>2, <1>3, <2>1, <2>2, <2>5, <3>1, <3>2 DEF QAnd
  <2>6. CASE tp = "OR" /\ 1 \in {k("IN0"), k("IN1")} /\ GetOutput(n, c, r) = 1
    <3>1. 1 \in {In(o, w, c, "IN0"), In(o, w, c, "IN1")}
      BY <1>3, <2>1, <2>6 DEF NotConst
    <3>2. DoBinop(tp, In(o, w, c, "IN0"), In(o, w, c, "IN1"))
            = QOr(In(o, w, c, "IN0"), In(o, w, c, "IN1"))
      BY <2>6 DEF DoBinop
    <3> QED BY <1>2, <1>3, <2>1, <2>2, <2>6, <3>1, <3>2 DEF QOr
  <2> QED BY <2>3, <2>4, <2>5, <2>6
<1> QED BY <1>4, <1>5

\* A multiplexer shows what the input its select chooses reads.
LEMMA ChosenInputIsShown ==
  ASSUME NEW n, NEW o, Structure(n, o), NEW w, Solution(o, w, Zeros), ReadsAs(n, o, w),
         NEW c \in CellId, CellIns(n, c) # {}, SelectKnown(n, c)
  PROVE  Value(n, o, w, Driver(n, c, ChosenPort(n, c))) = w[c]
<1> DEFINE p == ChosenPort(n, c)
<1>1. c \in Cells(n) /\ c \in Cells(o) /\ Tp(n, c) = "MUX" /\ Tp(o, c) = "MUX"
  BY ReadingCellIsKept DEF SelectKnown
<1>2. c \in Evaluated(n) /\ c \in Evaluated(o)
  BY <1>1 DEF Evaluated, Inputs, Registers
<1>3. PinOf(c, p) \in InBits(n) /\ PinOf(c, "SEL") \in InBits(n)
  <2>1. {p, "SEL"} \subseteq Reads(Tp(n, c))
    BY <1>1 DEF Reads, ChosenPort, Binary, Comparator
  <2> QED BY <1>2, <2>1, ReadsCells DEF Structure, Remains
<1>4. In(o, w, c, "SEL") = MaterializeConstPort(n, c, "SEL")
  BY <1>3, ConstantInputIsRead DEF SelectKnown
<1>5. w[c] = In(o, w, c, p)
  <2>1. w[c] = Eval(o, w, Zeros, c)
    BY <1>2 DEF Solution
  <2> QED BY <1>1, <1>4, <2>1 DEF Eval, ChosenPort, Comparator
<1>6. Value(n, o, w, Driver(n, c, p)) = In(o, w, c, p)
  BY <1>3 DEF ReadsAs, Driver, In
<1> QED BY <1>5, <1>6

\* A register that holds what it is replaced by would load it, and its reset is constant.
LEMMA FoldedRegisterKeeps ==
  ASSUME NEW n, NEW o, Structure(n, o), NEW w, Solution(o, w, Zeros), ReadsAs(n, o, w),
         NEW c \in CellId, CellIns(n, c) # {}, Tp(n, c) \in {"REG", "REG_ARST"},
         NEW r, GetOutput(n, c, r) # NotConst, w[c] = GetOutput(n, c, r)
  PROVE  /\ In(o, w, c, "IN") = w[c]
         /\ Tp(n, c) = "REG_ARST" =>
              /\ PinOf(c, "ARST") \in InBits(n)
              /\ In(o, w, c, "ARST") = MaterializeConstPort(n, c, "ARST")
<1> DEFINE k(p) == MaterializeConstPort(n, c, p)
<1>1. c \in Cells(o) /\ WellFormed(n)
  BY ReadingCellIsKept DEF Structure, Remains
<1>2. /\ PinOf(c, "IN") \in InBits(n)
      /\ Tp(n, c) = "REG_ARST" => PinOf(c, "ARST") \in InBits(n)
  <2>1. "IN" \in Examined(Tp(n, c)) /\ (Tp(n, c) = "REG_ARST" => "ARST" \in Examined(Tp(n, c)))
    BY DEF Examined, Binary, Comparator
  <2> QED BY <1>1, <2>1, ExaminedPins DEF CellIns
<1>3. /\ GetOutput(n, c, r) = MaterializeRegisterInput(n, c, r)
      /\ Tp(n, c) = "REG_ARST" => k("ARST") # NotConst
  BY DEF GetOutput, Unop, ReduceOp, Binary, Comparator
<1>4. In(o, w, c, "IN") = w[c]
  <2>1. CASE k("IN") # NotConst
    BY <1>2, <1>3, <2>1, ConstantInputIsRead DEF MaterializeRegisterInput
  <2>2. CASE k("IN") = NotConst
    <3>1. n.drivers[PinOf(c, "IN")].cell = c
      BY <1>3, <2>2 DEF MaterializeRegisterInput, PinOf
    <3> QED BY <1>1, <1>2, <3>1 DEF ReadsAs, Value, In, Driver
  <2> QED BY <2>1, <2>2
<1> QED BY <1>2, <1>3, <1>4, ConstantInputIsRead

\* A memory with constant inputs reads 0, if its address is known.
LEMMA FoldedMemoryReads ==
  ASSUME NEW n, NEW o, Structure(n, o), NEW w, Solution(o, w, Zeros), ReadsAs(n, o, w),
         NEW c \in CellId, CellIns(n, c) # {}, MemoryKnown(n, c)
  PROVE  /\ PinOf(c, "RADDR") \in InBits(n) /\ PinOf(c, "CLK") \in InBits(n)
         /\ In(o, w, c, "RADDR") = MaterializeConstPort(n, c, "RADDR")
         /\ In(o, w, c, "CLK") = MaterializeConstPort(n, c, "CLK")
         /\ IsBinary(In(o, w, c, "RADDR")) => w[c] = 0
<1>1. c \in Cells(o) /\ WellFormed(n) /\ Tp(o, c) = "MEM" /\ Tp(n, c) = "MEM"
  BY ReadingCellIsKept DEF Structure, Remains, MemoryKnown
<1>2. PinOf(c, "RADDR") \in InBits(n) /\ PinOf(c, "CLK") \in InBits(n)
  <2>1. {"RADDR", "CLK"} \subseteq Examined(Tp(n, c))
    BY <1>1 DEF Examined
  <2> QED BY <1>1, <2>1, ExaminedPins DEF CellIns
<1>3. /\ In(o, w, c, "RADDR") = MaterializeConstPort(n, c, "RADDR")
      /\ In(o, w, c, "CLK") = MaterializeConstPort(n, c, "CLK")
  BY <1>2, ConstantInputIsRead DEF MemoryKnown
<1>4. w[c] = Eval(o, w, Zeros, c)
  <2>1. c \in Evaluated(o)
    BY <1>1 DEF Evaluated, Inputs, Registers
  <2> QED BY <2>1 DEF Solution
<1>5. IsBinary(In(o, w, c, "RADDR")) => w[c] = 0
  <2> SUFFICES ASSUME IsBinary(In(o, w, c, "RADDR")) PROVE w[c] = 0
    OBVIOUS
  <2>1. In(o, w, c, "RADDR") \in Addr
    BY DEF IsBinary, Addr
  <2>2. Eval(o, w, Zeros, c) = Zeros[c][In(o, w, c, "RADDR")]
    BY <1>1 DEF Eval, Comparator
  <2> QED BY <1>4, <2>1, <2>2 DEF Zeros
<1> QED BY <1>2, <1>3, <1>5

-----------------------------------------------------------------------------
(* The invariant: as long as no memory was folded whose address is unknown,  *)
(* the definition reads what the original reads and what was folded is       *)
(* frozen.  W are the values the original may show.                          *)

ShownBy(o, fr) ==
  {Wires(o, in, r, Zeros) :
     in \in [Inputs(o) -> Val],
     r \in {s \in [Registers(o) -> Val] : \A c \in Registers(o) : fr[c] \in {NotConst, s[c]}}}

AddressesRead(n, o, W) ==
  \A c \in Memories(o) \ Cells(n) : \A w \in W : In(o, w, c, "RADDR") # X

Still(o, W, c, p) == \E v \in Val : \A w \in W : In(o, w, c, p) = v

RegistersKeep(o, W, fr) ==
  \A c \in Registers(o) : fr[c] # NotConst =>
    /\ \A w \in W : In(o, w, c, "IN") = fr[c]
    /\ Tp(o, c) = "REG_ARST" => Still(o, W, c, "ARST")

MemoriesKeep(n, o, W) ==
  \A c \in Memories(o) \ Cells(n) :
    /\ Still(o, W, c, "RADDR")
    /\ Still(o, W, c, "CLK") \/ \A w \in W : In(o, w, c, "WEN") # 1

\* An address that is unknown under some values is unknown under all.
Faithful(n, o, W, fr) ==
  /\ \/ AddressesRead(n, o, W)
     \/ \E c \in Memories(o) \ Cells(n) : \A w \in W : In(o, w, c, "RADDR") = X
  /\ AddressesRead(n, o, W) =>
       (\A w \in W : ReadsAs(n, o, w)) /\ RegistersKeep(o, W, fr) /\ MemoriesKeep(n, o, W)

LEMMA ShownSolve ==
  ASSUME NEW o, WellFormed(o), FullyDriven(o), Acyclic(o), NEW fr,
         NEW w \in ShownBy(o, fr)
  PROVE  Solution(o, w, Zeros) /\ \A c \in Registers(o) : fr[c] \in {NotConst, w[c]}
<1>1. PICK in \in [Inputs(o) -> Val], r \in [Registers(o) -> Val] :
        w = Wires(o, in, r, Zeros) /\ \A c \in Registers(o) : fr[c] \in {NotConst, r[c]}
  BY DEF ShownBy
<1>2. Zeros \in [CellId -> [Addr -> Val]]
  BY DEF Zeros, Val
<1> QED BY <1>1, <1>2, WiresAreSolutions

LEMMA SomethingIsShown ==
  ASSUME NEW o, NEW fr \in [CellId -> Val \cup {NotConst}]
  PROVE  ShownBy(o, fr) # {}
<1> DEFINE r  == [c \in Registers(o) |-> IF fr[c] = NotConst THEN 0 ELSE fr[c]]
           in == [c \in Inputs(o) |-> 0]
<1>1. in \in [Inputs(o) -> Val] /\ r \in [Registers(o) -> Val]
  BY DEF Val, Registers, Cells
<1>2. \A c \in Registers(o) : fr[c] \in {NotConst, r[c]}
  OBVIOUS
<1>3. Wires(o, in, r, Zeros) \in ShownBy(o, fr)
  <2> HIDE DEF in, r
  <2> QED BY <1>1, <1>2 DEF ShownBy
<1> QED BY <1>3

LEMMA FreezingShowsLess ==
  ASSUME NEW o, NEW fr \in [CellId -> Val \cup {NotConst}], NEW c \in CellId,
         fr[c] = NotConst, NEW v
  PROVE  ShownBy(o, [fr EXCEPT ![c] = v]) \subseteq ShownBy(o, fr)
<1> DEFINE g == [fr EXCEPT ![c] = v]
<1>1. \A s : (\A x \in Registers(o) : g[x] \in {NotConst, s[x]})
               => \A x \in Registers(o) : fr[x] \in {NotConst, s[x]}
  BY DEF Registers, Cells
<1> HIDE DEF g
<1>2. ShownBy(o, g) \subseteq ShownBy(o, fr)
  BY <1>1 DEF ShownBy
<1> QED BY <1>2 DEF g

\* A fold of a cell that is no memory, into one that shows what it showed.
LEMMA FoldStaysFaithful ==
  ASSUME NEW n, NEW o, Structure(n, o), NEW W, NEW fr, Faithful(n, o, W, fr),
         NEW c \in Cells(n) \cap Cells(o), Tp(o, c) # "MEM", NEW d, NEW e, FoldedInto(n, c, d, e),
         Cells(o) \ Cells(d) = (Cells(o) \ Cells(n)) \cup (Cells(o) \cap {c}),
         NEW V \in SUBSET W, V # {}, NEW gr,
         AddressesRead(n, o, W) => /\ \A w \in V : Value(d, o, w, e) = w[c]
                                   /\ RegistersKeep(o, V, gr)
  PROVE  Faithful(d, o, V, gr)
<1>1. Memories(o) \ Cells(d) = Memories(o) \ Cells(n)
  BY DEF Memories
<1>2. CASE AddressesRead(n, o, W)
  <2>1. AddressesRead(d, o, V)
    BY <1>1, <1>2 DEF AddressesRead
  <2>2. \A w \in V : ReadsAs(d, o, w)
    <3> SUFFICES ASSUME NEW w \in V PROVE ReadsAs(d, o, w)
      OBVIOUS
    <3>1. ReadsAs(n, o, w) /\ Value(d, o, w, e) = w[c]
      BY <1>2 DEF Faithful
    <3> QED BY <3>1, HandingKeepsReads DEF Structure, FoldedInto
  <2>3. MemoriesKeep(d, o, V)
    <3>1. MemoriesKeep(n, o, W)
      BY <1>2 DEF Faithful
    <3> QED BY <1>1, <3>1 DEF MemoriesKeep, Still
  <2> QED BY <1>2, <2>1, <2>2, <2>3 DEF Faithful
<1>3. CASE ~AddressesRead(n, o, W)
  <2>1. PICK x \in Memories(o) \ Cells(d) : \A w \in V : In(o, w, x, "RADDR") = X
    BY <1>1, <1>3 DEF Faithful
  <2>2. ~AddressesRead(d, o, V)
    BY <2>1 DEF AddressesRead
  <2> QED BY <2>1, <2>2 DEF Faithful
<1> QED BY <1>2, <1>3

\* A fold of a memory, into a constant 0.
LEMMA MemoryFoldStaysFaithful ==
  ASSUME NEW n, NEW o, Structure(n, o), NEW W, NEW fr, Faithful(n, o, W, fr), W # {},
         \A w \in W : Solution(o, w, Zeros),
         NEW c \in Cells(n) \cap Cells(o), CellIns(n, c) # {}, MemoryKnown(n, c),
         NEW d, NEW e, FoldedInto(n, c, d, e),
         Cells(o) \ Cells(d) = (Cells(o) \ Cells(n)) \cup (Cells(o) \cap {c}),
         \A w \in W : Value(d, o, w, e) = 0
  PROVE  Faithful(d, o, W, fr)
<1> DEFINE k(p) == MaterializeConstPort(n, c, p)
<1>0. c \in CellId /\ Tp(o, c) = "MEM" /\ WellFormed(n)
  BY DEF Structure, Remains, MemoryKnown, Tp, Cells
<1>1. Memories(o) \ Cells(d) = (Memories(o) \ Cells(n)) \cup {c}
  BY <1>0 DEF Memories
<1>2. CASE AddressesRead(n, o, W)
  <2>1. \A w \in W : ReadsAs(n, o, w)
    BY <1>2 DEF Faithful
  <2>2. \A w \in W : /\ In(o, w, c, "RADDR") = k("RADDR") /\ In(o, w, c, "CLK") = k("CLK")
                     /\ IsBinary(In(o, w, c, "RADDR")) => w[c] = 0
    <3> SUFFICES ASSUME NEW w \in W
                 PROVE  /\ In(o, w, c, "RADDR") = k("RADDR") /\ In(o, w, c, "CLK") = k("CLK")
                        /\ IsBinary(In(o, w, c, "RADDR")) => w[c] = 0
      OBVIOUS
    <3> QED BY <1>0, <2>1, FoldedMemoryReads
  <2>3. k("RADDR") \in Val /\ k("CLK") \in Val
    <3>1. PICK w \in W : TRUE
      OBVIOUS
    <3>2. {"RADDR", "CLK"} \subseteq Port
      BY <1>0, <2>1, <3>1, FoldedMemoryReads DEF InBits, Bit, PinOf
    <3> QED BY <1>0, <3>2, ConstPortType DEF MemoryKnown, Known
  <2>4. CASE k("RADDR") = X
    <3>1. ~AddressesRead(d, o, W) /\ \A w \in W : In(o, w, c, "RADDR") = X
      BY <1>1, <2>2, <2>4 DEF AddressesRead
    <3> QED BY <1>1, <3>1 DEF Faithful
  <2>5. CASE k("RADDR") # X
    <3>1. AddressesRead(d, o, W)
      BY <1>1, <1>2, <2>2, <2>5 DEF AddressesRead
    <3>2. \A w \in W : Value(d, o, w, e) = w[c]
      BY <2>2, <2>3, <2>5 DEF IsBinary, Val, X
    <3>3. \A w \in W : ReadsAs(d, o, w)
      <4> SUFFICES ASSUME NEW w \in W PROVE ReadsAs(d, o, w)
        OBVIOUS
      <4> QED BY <2>1, <3>2, HandingKeepsReads DEF Structure, FoldedInto
    <3>4. MemoriesKeep(d, o, W)
      <4>1. Still(o, W, c, "RADDR") /\ Still(o, W, c, "CLK")
        BY <2>2, <2>3 DEF Still
      <4>2. MemoriesKeep(n, o, W)
        BY <1>2 DEF Faithful
      <4> QED BY <1>1, <4>1, <4>2 DEF MemoriesKeep
    <3> QED BY <1>2, <3>1, <3>3, <3>4 DEF Faithful
  <2> QED BY <2>4, <2>5
<1>3. CASE ~AddressesRead(n, o, W)
  <2>1. PICK x \in Memories(o) \ Cells(d) : \A w \in W : In(o, w, x, "RADDR") = X
    BY <1>1, <1>3 DEF Faithful
  <2>2. ~AddressesRead(d, o, W)
    BY <2>1 DEF AddressesRead
  <2> QED BY <2>1, <2>2 DEF Faithful
<1> QED BY <1>2, <1>3

\* The registers that are folded are no longer there, and no assertion has failed.
FaithInv ==
  /\ IInv /\ orig \in Circuits /\ Structure(def, orig) /\ phase # "no cell"
  /\ \A c \in CellId : frozen[c] # NotConst => c \notin Cells(def) /\ c \in Cells(orig)
  /\ Faithful(def, orig, ShownBy(orig, frozen), frozen)

LEMMA InitFaithInv == Orderly /\ Init => FaithInv
<1> SUFFICES ASSUME Orderly, Init PROVE FaithInv
  OBVIOUS
<1>1. /\ WellFormed(orig) /\ FullyDriven(orig) /\ Acyclic(orig) /\ def = orig
      /\ \A c \in CellId : frozen[c] = NotConst
  BY FoldAssumption DEF Init, Orderly
<1>2. \A c \in Cells(orig) : c < orig.next
  <2> SUFFICES ASSUME NEW c \in Cells(orig) PROVE c < orig.next
    OBVIOUS
  <2>1. c \in Nat /\ c \in CellId /\ orig.next \in Nat /\ orig.type[c] # NoType
    BY <1>1, NetFields, NetlistAssumption DEF WellFormed, Cells, CellId
  <2>2. ~(c >= orig.next)
    BY <1>1, <2>1 DEF WellFormed, CellsNumbered
  <2> QED BY <2>1, <2>2
<1>3. Structure(def, orig)
  BY <1>1, <1>2 DEF Structure, Remains, Init, Orderly
<1>4. \A w \in ShownBy(orig, frozen) : ReadsAs(def, orig, w)
  <2> SUFFICES ASSUME NEW w, NEW b \in InBits(orig)
               PROVE  Value(orig, orig, w, orig.drivers[b].cell) = w[orig.drivers[b].cell]
    BY <1>1 DEF ReadsAs
  <2>1. b \in Bit /\ orig.drivers[b] # NoBit /\ orig \in Net
    BY <1>1 DEF FullyDriven, WellFormed, InBits
  <2>2. orig.drivers[b] \in OutBits(orig)
    BY <1>1, <2>1 DEF WellFormed, WiresExistIn
  <2>3. orig.drivers[b].cell \in Cells(orig)
    BY <2>1, <2>2, NoCellNoBits DEF Cells
  <2> QED BY <2>3 DEF Value
<1>5. /\ RegistersKeep(orig, ShownBy(orig, frozen), frozen)
      /\ MemoriesKeep(def, orig, ShownBy(orig, frozen))
      /\ AddressesRead(def, orig, ShownBy(orig, frozen))
  BY <1>1 DEF RegistersKeep, MemoriesKeep, AddressesRead, Registers, Memories, Cells
<1>6. Faithful(def, orig, ShownBy(orig, frozen), frozen)
  BY <1>4, <1>5 DEF Faithful
<1> QED BY <1>1, <1>3, <1>6, InitIInv DEF FaithInv, Init

\* What every fold starts from.
LEMMA FoldingFacts ==
  ASSUME Orderly, FaithInv, NEW c \in candidates
  PROVE  /\ WellFormed(orig) /\ FullyDriven(orig) /\ Acyclic(orig) /\ orig \in Net
         /\ WellFormed(def) /\ FullyDriven(def) /\ Acyclic(def) /\ def \in Net
         /\ c \in CellId /\ CellIns(def, c) # {}
         /\ c \in Cells(def) /\ c \in Cells(orig) /\ def.type[c] = orig.type[c]
         /\ Tp(def, c) = Tp(orig, c)
         /\ Tp(def, c) # "PORT" => c \notin def.portCells
         /\ c \notin def.portCells => \A p \in OutPort : ~NameTaken(def, c, p)
         /\ Tp(def, c) \in {"REG", "REG_ARST"} => regs[c] \in Val
         /\ frozen \in [CellId -> Val \cup {NotConst}] /\ frozen[c] = NotConst
         /\ \A w \in ShownBy(orig, frozen) : Solution(orig, w, Zeros)
         /\ ShownBy(orig, frozen) # {}
<1>1. WellFormed(orig) /\ FullyDriven(orig) /\ Acyclic(orig) /\ orig \in Net
  BY FoldAssumption DEF FaithInv, Orderly, WellFormed
<1>2. WellFormed(def) /\ FullyDriven(def) /\ Acyclic(def) /\ def \in Net
  BY DEF FaithInv, Structure, Remains, WellFormed
<1>3. /\ c \in CellId /\ CellIns(def, c) # {} /\ c \in Cells(def)
      /\ frozen \in [CellId -> Val \cup {NotConst}]
      /\ \A x \in Registers(def) : regs[x] \in Val
  BY DEF FaithInv, IInv, Cells
<1>4. /\ c \in Cells(orig) /\ def.type[c] = orig.type[c] /\ Tp(def, c) = Tp(orig, c)
  BY <1>3, ReadingCellIsKept DEF FaithInv
<1>5. /\ Tp(def, c) # "PORT" => c \notin def.portCells
      /\ c \notin def.portCells => \A p \in OutPort : ~NameTaken(def, c, p)
  BY <1>3, <1>4 DEF FaithInv, Structure, Remains
<1>6. Tp(def, c) \in {"REG", "REG_ARST"} => regs[c] \in Val
  BY <1>3, <1>4 DEF Registers
<1>7. frozen[c] = NotConst
  BY <1>3 DEF FaithInv
<1>8. \A w \in ShownBy(orig, frozen) : Solution(orig, w, Zeros)
  BY <1>1, ShownSolve
<1>9. ShownBy(orig, frozen) # {}
  BY <1>3, SomethingIsShown
<1> QED BY <1>1, <1>2, <1>3, <1>4, <1>5, <1>6, <1>7, <1>8, <1>9

LEMMA FoldMuxFaith ==
  ASSUME Orderly, FaithInv, IInv', NEW c \in candidates, FoldMux(c), UNCHANGED <<regs, orig>>
  PROVE  FaithInv'
<1> DEFINE with == ChosenBus(def, c)
           m == MoveReceivers(def, c, "OUT", with)
           e == Driver(def, c, ChosenPort(def, c))
           W == ShownBy(orig, frozen)
<1>1. /\ WellFormed(orig) /\ FullyDriven(orig) /\ orig \in Net
      /\ WellFormed(def) /\ FullyDriven(def) /\ Acyclic(def) /\ def \in Net
      /\ c \in CellId /\ CellIns(def, c) # {} /\ c \in Cells(def) /\ c \in Cells(orig)
      /\ Tp(def, c) = Tp(orig, c) /\ (Tp(def, c) # "PORT" => c \notin def.portCells)
      /\ Structure(def, orig) /\ W # {} /\ \A w \in W : Solution(orig, w, Zeros)
  BY FoldingFacts DEF FaithInv
<1>2. SelectKnown(def, c) /\ Tp(def, c) = "MUX"
  BY DEF FoldMux, SelectKnown
<1>3. /\ ~MoveReceiversAborts(def, c, "OUT", with) /\ ~DeleteCellAborts(m, c)
      /\ FoldedInto(def, c, DeleteCell(m, c), e)
      /\ Cells(DeleteCell(m, c)) \subseteq Cells(def)
      /\ DeleteCell(m, c).next = def.next /\ DeleteCell(m, c).constNames = def.constNames
      /\ c \in Evaluated(def) /\ e \in Cells(def)
      /\ ChosenPort(def, c) \in Reads(Tp(def, c))
  BY <1>1, <1>2, MuxFoldsInto
<1>4. def' = DeleteCell(m, c) /\ phase' = phase /\ frozen' = frozen /\ orig' = orig
  BY <1>3 DEF FoldMux, Delete
<1> HIDE DEF m, with, e, W
<1>5. /\ FoldedInto(def, c, def', e) /\ Cells(def') \subseteq Cells(def)
      /\ def'.next = def.next /\ def'.constNames = def.constNames
  BY <1>3, <1>4
<1>6. Acyclic(def')
  BY <1>1, <1>3, <1>5, HandingStaysAcyclic DEF e, FoldedInto, HandedTo
<1>7. /\ Structure(def', orig)
      /\ Cells(orig) \ Cells(def') = (Cells(orig) \ Cells(def)) \cup (Cells(orig) \cap {c})
  <2>1. def.next \in Nat /\ def.next <= def'.next /\ def'.next \in Nat
    BY <1>1, <1>5, NetFields, NetlistAssumption
  <2>2. NamesAdded(def', def, c)
    BY <1>5 DEF NamesAdded
  <2> QED BY <1>1, <1>3, <1>5, <1>6, <2>1, <2>2, FoldStructure
<1>8. AddressesRead(def, orig, W) =>
        /\ \A w \in W : Value(def', orig, w, e) = w[c]
        /\ RegistersKeep(orig, W, frozen)
  <2> SUFFICES ASSUME AddressesRead(def, orig, W), NEW w \in W
               PROVE  Value(def', orig, w, e) = w[c] /\ RegistersKeep(orig, W, frozen)
    BY <1>1
  <2>1. ReadsAs(def, orig, w) /\ RegistersKeep(orig, W, frozen)
    BY DEF FaithInv, Faithful, W
  <2>2. Value(def, orig, w, e) = w[c]
    BY <1>1, <1>2, <2>1, ChosenInputIsShown DEF e
  <2>3. e \in Cells(def') /\ e # c
    BY <1>5 DEF FoldedInto, HandedTo
  <2>4. InitialValue(def', e) = InitialValue(def, e)
    <3>1. def'.type[e] = def.type[e]
      BY <1>3, <1>5, <2>3 DEF FoldedInto, HandedTo
    <3> QED BY <1>3, <2>3, <3>1 DEF InitialValue, Memories, Tp
  <2> QED BY <2>1, <2>2, <2>4 DEF Value
<1>9. Faithful(def', orig, W, frozen)
  <2>1. Faithful(def, orig, W, frozen) /\ W \in SUBSET W
    BY DEF FaithInv, W
  <2>2. Tp(orig, c) # "MEM"
    BY <1>1, <1>2
  <2> QED BY <1>1, <1>5, <1>7, <1>8, <2>1, <2>2, FoldStaysFaithful
<1> QED BY <1>4, <1>5, <1>7, <1>9 DEF FaithInv, W

\* Definition d, where a constant v has taken the place of cell c of n, is as faithful.
FaithfulWith(n, o, c, d, v, fr) ==
  \A e : /\ FoldedInto(n, c, d, e)
         /\ Cells(o) \ Cells(d) = (Cells(o) \ Cells(n)) \cup (Cells(o) \cap {c})
         /\ \A w : Value(d, o, w, e) = v
         => Faithful(d, o, ShownBy(o, fr), fr)

\* Both folds that make a constant: what is left to show is what it shows.
LEMMA FoldConstantFaith ==
  ASSUME Orderly, FaithInv, IInv', NEW c \in candidates, NEW p \in OutPort, NEW v \in Val,
         Tp(def, c) # "PORT", p = IF Tp(def, c) = "MEM" THEN "RDATA" ELSE "OUT",
         Width(def.type[c], p) = 1, def.next <= MaxId, NEW again,
         Delete(c, ReplaceWithConstant(def, c, p, Const(v)),
                ReplaceWithConstantAborts(def, c, p, Const(v)), again),
         UNCHANGED orig, (frozen' = frozen) \/ (frozen' = [frozen EXCEPT ![c] = v]),
         FaithfulWith(def, orig, c, def', v, frozen')
  PROVE  FaithInv'
<1> DEFINE m == ReplaceWithConstant(def, c, p, Const(v))
           e == def.next
<1>1. /\ orig \in Net /\ WellFormed(def) /\ FullyDriven(def) /\ Acyclic(def) /\ def \in Net
      /\ c \in CellId /\ c \in Cells(def) /\ c \in Cells(orig) /\ c \notin def.portCells
      /\ ~NameTaken(def, c, p) /\ Structure(def, orig)
      /\ frozen \in [CellId -> Val \cup {NotConst}]
  BY FoldingFacts DEF FaithInv
<1>2. /\ ~ReplaceWithConstantAborts(def, c, p, Const(v)) /\ ~DeleteCellAborts(m, c)
      /\ FoldedInto(def, c, DeleteCell(m, c), e)
      /\ DeleteCell(m, c).type[e] = Const(v) /\ e < DeleteCell(m, c).next /\ e \notin Cells(def)
      /\ \A x \in DeleteCell(m, c).constNames : x \in def.constNames \/ x = <<c, p>>
  <2>1. OnlyOutput(def, c, p)
    BY <1>1, OneOutput DEF OnlyOutput
  <2> QED BY <1>1, <2>1, ConstantFoldsInto
<1>3. def' = DeleteCell(m, c) /\ phase' = phase /\ orig' = orig
  BY <1>2 DEF Delete
<1> HIDE DEF m
<1>4. /\ FoldedInto(def, c, def', e) /\ def'.type[e] = Const(v) /\ e < def'.next
      /\ \A x \in def'.constNames : x \in def.constNames \/ x = <<c, p>>
  BY <1>2, <1>3
<1>5. e \in Cells(def') /\ Tp(def', e) = "CONST" /\ WellFormed(def') /\ def' \in Net
  BY <1>4 DEF FoldedInto, HandedTo, Tp, Const, WellFormed
<1>6. Acyclic(def')
  <2>1. e \notin Evaluated(def')
    BY <1>5 DEF Evaluated
  <2> QED BY <1>1, <1>4, <2>1, HandingStaysAcyclic DEF FoldedInto
<1>7. /\ Structure(def', orig) /\ e \notin Cells(orig)
      /\ Cells(orig) \ Cells(def') = (Cells(orig) \ Cells(def)) \cup (Cells(orig) \cap {c})
  <2>1. def.next \in Nat /\ def'.next \in Nat /\ def.next <= def'.next
    BY <1>1, <1>4, <1>5, NetFields, NetlistAssumption
  <2>2. NamesAdded(def', def, c)
    BY <1>4 DEF NamesAdded
  <2>3. def.next \notin Cells(def)
    BY <1>2
  <2> QED BY <1>1, <1>4, <1>6, <2>1, <2>2, <2>3, FoldStructure
<1>8. \A w : Value(def', orig, w, e) = v
  BY <1>4, <1>5, <1>7 DEF Value, InitialValue, Memories, Const, Tp
<1>9. Faithful(def', orig, ShownBy(orig, frozen'), frozen')
  BY <1>4, <1>7, <1>8 DEF FaithfulWith
<1>10. ASSUME NEW x \in CellId, frozen'[x] # NotConst
       PROVE  x \notin Cells(def') /\ x \in Cells(orig)
  <2>1. (x \notin Cells(def) /\ x \in Cells(orig)) \/ x = c
    BY <1>1, <1>10 DEF FaithInv
  <2> QED BY <1>1, <1>4, <1>7, <2>1 DEF FoldedInto, HandedTo
<1> QED BY <1>3, <1>7, <1>9, <1>10 DEF FaithInv

LEMMA FoldMemoryFaith ==
  ASSUME Orderly, FaithInv, IInv', NEW c \in candidates, FoldMemory(c), UNCHANGED <<regs, orig>>
  PROVE  FaithInv'
<1> DEFINE W == ShownBy(orig, frozen)
<1>1. /\ Structure(def, orig) /\ Faithful(def, orig, W, frozen) /\ W # {}
      /\ \A w \in W : Solution(orig, w, Zeros)
      /\ c \in Cells(def) \cap Cells(orig) /\ CellIns(def, c) # {} /\ def.type[c] \in Kind
  BY FoldingFacts, NetFields DEF FaithInv, Cells
<1>2. MemoryKnown(def, c) /\ Tp(def, c) = "MEM" /\ def.next <= MaxId /\ frozen' = frozen /\ orig' = orig
  BY DEF FoldMemory, MemoryKnown
<1>3. FaithfulWith(def, orig, c, def', 0, frozen')
  <2> SUFFICES ASSUME NEW e, FoldedInto(def, c, def', e),
                      Cells(orig) \ Cells(def') = (Cells(orig) \ Cells(def)) \cup (Cells(orig) \cap {c}),
                      \A w : Value(def', orig, w, e) = 0
               PROVE  Faithful(def', orig, W, frozen)
    BY <1>2 DEF FaithfulWith
  <2> HIDE DEF W
  <2>1. \A w \in W : Value(def', orig, w, e) = 0
    OBVIOUS
  <2> QED BY <1>1, <1>2, <2>1, MemoryFoldStaysFaithful
<1>4. "RDATA" \in OutPort /\ Width(def.type[c], "RDATA") = 1
  <2>1. def.type[c] # NoType /\ def.type[c].tp = "MEM"
    BY <1>1, <1>2 DEF Cells, Tp
  <2>2. "RDATA" \in DOMAIN PortWidths(def.type[c])
    BY <2>1 DEF PortWidths, Comparator, Binop, ReduceOp, Unop
  <2> QED BY <1>1, <2>1, <2>2, SemanticsAssumption DEF OutPort, Port, Width
<1>5. Delete(c, ReplaceWithConstant(def, c, "RDATA", Const(0)),
             ReplaceWithConstantAborts(def, c, "RDATA", Const(0)), {})
  BY DEF FoldMemory
<1>6. 0 \in Val
  BY DEF Val
<1> QED BY <1>2, <1>3, <1>4, <1>5, <1>6, FoldConstantFaith

\* A register becomes what it holds or loads; the others stay frozen with fewer values.
LEMMA FoldOutputFaith ==
  ASSUME Orderly, FaithInv, IInv', NEW c \in candidates, FoldOutput(c), UNCHANGED <<regs, orig>>
  PROVE  FaithInv'
<1> DEFINE v == GetOutput(def, c, regs)
           W == ShownBy(orig, frozen)
           V == ShownBy(orig, frozen')
<1>1. /\ Structure(def, orig) /\ Faithful(def, orig, W, frozen) /\ W # {}
      /\ WellFormed(orig) /\ FullyDriven(orig) /\ Acyclic(orig) /\ WellFormed(def)
      /\ c \in Cells(def) \cap Cells(orig) /\ c \in CellId /\ CellIns(def, c) # {}
      /\ def.type[c] \in Kind /\ Tp(def, c) = Tp(orig, c)
      /\ Tp(def, c) \in {"REG", "REG_ARST"} => regs[c] \in Val
      /\ frozen \in [CellId -> Val \cup {NotConst}] /\ frozen[c] = NotConst
  BY FoldingFacts, NetFields DEF FaithInv, Cells
<1>2. OutputKnown(def, c, regs) /\ v # NotConst /\ def.next <= MaxId /\ orig' = orig
  BY DEF FoldOutput, OutputKnown
<1>3. Tp(def, c) \notin {"PORT", "MUX", "MEM"}
  BY <1>2 DEF OutputKnown, GetOutput, Unop, ReduceOp, Binary, Comparator
<1>4. v \in Val
  BY <1>1, <1>2, FoldOutputFolds
<1>5. "OUT" \in OutPort /\ Width(def.type[c], "OUT") = 1
  BY <1>1, <1>3, OutputPort DEF Tp
<1>6. frozen' = IF c \in Registers(def) THEN [frozen EXCEPT ![c] = v] ELSE frozen
  BY DEF FoldOutput, Const
<1>7. /\ V \in SUBSET W /\ V # {} /\ \A w \in V : Solution(orig, w, Zeros)
      /\ \A w \in V : \A x \in Registers(orig) : frozen'[x] \in {NotConst, w[x]}
  <2>1. frozen' \in [CellId -> Val \cup {NotConst}]
    BY <1>1, <1>4, <1>6
  <2>2. V \subseteq W
    BY <1>1, <1>6, FreezingShowsLess
  <2>3. V # {}
    BY <2>1, SomethingIsShown
  <2> QED BY <1>1, <2>2, <2>3, ShownSolve
<1> HIDE DEF W, V
<1>8. AddressesRead(def, orig, W) =>
        (\A w \in V : w[c] = v) /\ RegistersKeep(orig, V, frozen')
  <2> SUFFICES ASSUME AddressesRead(def, orig, W)
               PROVE  (\A w \in V : w[c] = v) /\ RegistersKeep(orig, V, frozen')
    OBVIOUS
  <2>1. (\A w \in V : ReadsAs(def, orig, w)) /\ RegistersKeep(orig, W, frozen)
    BY <1>1, <1>7 DEF Faithful
  <2>2. RegistersKeep(orig, V, frozen)
    BY <1>7, <2>1 DEF RegistersKeep, Still
  <2>3. CASE c \notin Registers(def)
    <3>1. Tp(def, c) \in Unary \cup Binary
      BY <1>1, <1>3, <2>3, ReadingCell DEF Registers, Simulated, Tp
    <3>2. \A w \in V : w[c] = v
      BY <1>1, <1>2, <1>7, <2>1, <3>1, KnownOutputIsShown
    <3> QED BY <1>6, <2>2, <2>3, <3>2
  <2>4. CASE c \in Registers(def)
    <3>1. c \in Registers(orig) /\ Tp(def, c) \in {"REG", "REG_ARST"} /\ frozen'[c] = v
      BY <1>1, <1>6, <2>4 DEF Registers
    <3>2. \A w \in V : w[c] = v
      BY <1>2, <1>7, <3>1
    <3>3. \A w \in V : /\ In(orig, w, c, "IN") = v
                       /\ Tp(def, c) = "REG_ARST" =>
                            /\ PinOf(c, "ARST") \in InBits(def)
                            /\ In(orig, w, c, "ARST") = MaterializeConstPort(def, c, "ARST")
      BY <1>1, <1>2, <1>7, <2>1, <3>1, <3>2, FoldedRegisterKeeps
    <3>4. Tp(def, c) = "REG_ARST" => Still(orig, V, c, "ARST")
      <4> SUFFICES ASSUME Tp(def, c) = "REG_ARST" PROVE Still(orig, V, c, "ARST")
        OBVIOUS
      <4>1. PICK w \in V : TRUE
        BY <1>7
      <4>2. In(orig, w, c, "ARST") \in Val
        BY <1>1, <1>7, <3>3, InputIsValue
      <4> QED BY <3>3, <4>1, <4>2 DEF Still
    <3> QED BY <1>1, <1>6, <2>2, <2>4, <3>1, <3>2, <3>3, <3>4 DEF RegistersKeep
  <2> QED BY <2>3, <2>4
<1>9. FaithfulWith(def, orig, c, def', v, frozen')
  <2> SUFFICES ASSUME NEW e, FoldedInto(def, c, def', e),
                      Cells(orig) \ Cells(def') = (Cells(orig) \ Cells(def)) \cup (Cells(orig) \cap {c}),
                      \A w : Value(def', orig, w, e) = v
               PROVE  Faithful(def', orig, V, frozen')
    BY DEF FaithfulWith, V
  <2>1. AddressesRead(def, orig, W) =>
          (\A w \in V : Value(def', orig, w, e) = w[c]) /\ RegistersKeep(orig, V, frozen')
    BY <1>8
  <2>2. Tp(orig, c) # "MEM"
    BY <1>1, <1>3
  <2> HIDE DEF v
  <2> QED BY <1>1, <1>7, <2>1, <2>2, FoldStaysFaithful
<1>10. Delete(c, ReplaceWithConstant(def, c, "OUT", Const(v)),
              ReplaceWithConstantAborts(def, c, "OUT", Const(v)), ReceiverCells(def, c))
  BY DEF FoldOutput
<1> HIDE DEF v
<1>11. frozen' = frozen \/ frozen' = [frozen EXCEPT ![c] = v]
  BY <1>6
<1> QED BY <1>2, <1>3, <1>4, <1>5, <1>9, <1>10, <1>11, FoldConstantFaith

LEMMA NextFaithInv == ASSUME Orderly PROVE FaithInv /\ [Next]_vars => FaithInv'
<1> SUFFICES ASSUME FaithInv, [Next]_vars PROVE FaithInv'
  OBVIOUS
<1>1. IInv'
  BY NextIInv DEF FaithInv
<1>2. ASSUME NEW c \in candidates, FoldMux(c), UNCHANGED <<regs, orig>>
      PROVE  FaithInv'
  BY <1>1, <1>2, FoldMuxFaith
<1>3. ASSUME NEW c \in candidates, FoldMemory(c), UNCHANGED <<regs, orig>>
      PROVE  FaithInv'
  BY <1>1, <1>3, FoldMemoryFaith
<1>4. ASSUME NEW c \in candidates, FoldOutput(c), UNCHANGED <<regs, orig>>
      PROVE  FaithInv'
  BY <1>1, <1>4, FoldOutputFaith
<1>5. ASSUME UNCHANGED <<def, orig, frozen>>, phase' \in {phase, "done", "unfolded"}
      PROVE  FaithInv'
  BY <1>1, <1>5 DEF FaithInv
<1>6. CASE Turn
  <2>1. PICK c \in candidates : /\ FoldMux(c) \/ FoldMemory(c) \/ FoldOutput(c) \/ PassOver(c)
                                /\ UNCHANGED <<regs, orig>>
    BY <1>6 DEF Turn
  <2>2. CASE PassOver(c)
    BY <1>5, <2>1, <2>2 DEF PassOver
  <2> QED BY <1>2, <1>3, <1>4, <2>1, <2>2
<1>7. CASE Finish
  BY <1>5, <1>7 DEF Finish
<1>8. CASE UNCHANGED vars
  BY <1>5, <1>8 DEF vars
<1> QED BY <1>6, <1>7, <1>8 DEF Next

\* What remains of the definition is faithful to the original.
THEOREM FoldingFaithful == ASSUME Orderly PROVE Spec => []FaithInv
<1>1. Init => FaithInv
  BY InitFaithInv
<1>2. FaithInv /\ [Next]_vars => FaithInv'
  BY NextFaithInv
<1> QED BY <1>1, <1>2, PTL DEF Spec

-----------------------------------------------------------------------------
(* What the invariant says of the values themselves.                         *)

LEMMA ShownIsShownBy ==
  /\ Shown = ShownBy(orig, frozen)
  /\ AddressesKnown <=> AddressesRead(def, orig, ShownBy(orig, frozen))
<1>1. Shown = ShownBy(orig, frozen)
  BY DEF Shown, ShownBy, RegStates
<1> QED BY <1>1 DEF AddressesKnown, AddressesRead

\* Folding loses no driver and fails no assertion; under every input, and every state of
\* the registers that agrees with what was folded, each input that is left reads what it
\* reads in the original definition.
THEOREM FoldingKeepsTheFunction == ASSUME Orderly PROVE Spec => []SameFunction
<1>1. FaithInv => SameFunction
  <2> SUFFICES ASSUME FaithInv PROVE SameFunction
    OBVIOUS
  <2>1. /\ Structure(def, orig) /\ FullyDriven(def) /\ phase # "no cell"
        /\ WellFormed(orig) /\ FullyDriven(orig) /\ Acyclic(orig)
    BY FoldAssumption DEF FaithInv, Structure, Remains, Orderly
  <2>2. ASSUME AddressesKnown, NEW in \in [Inputs(orig) -> Val], NEW r \in RegStates,
               NEW b \in InBits(def)
        PROVE  Wires(def, in, r, Zeros)[def.drivers[b].cell]
                 = Wires(orig, in, r, Zeros)[orig.drivers[b].cell]
    <3>1. r \in [Registers(orig) -> Val]
      BY DEF RegStates
    <3>2. Wires(orig, in, r, Zeros) \in ShownBy(orig, frozen)
      BY DEF ShownBy, RegStates
    <3>3. ReadsAs(def, orig, Wires(orig, in, r, Zeros))
      BY <2>2, <3>2, ShownIsShownBy DEF FaithInv, Faithful
    <3>4. /\ Remains(def, orig)
          /\ WellFormed(orig) /\ FullyDriven(orig) /\ Acyclic(orig)
      BY <2>1 DEF Structure
    <3> QED BY <2>2, <3>1, <3>3, <3>4, RemainsReadTheSame
  <2> QED BY <2>1, <2>2 DEF SameFunction
<1> QED BY <1>1, FoldingFaithful, PTL

\* A register that was folded would load the value it was replaced by and is never reset
\* again; a memory that was folded reads one word and is never written.
THEOREM FoldedStateStaysFrozen == ASSUME Orderly PROVE Spec => []FoldedStateIsFrozen
<1>1. FaithInv => FoldedStateIsFrozen
  <2> SUFFICES ASSUME FaithInv, AddressesKnown PROVE FoldedStateIsFrozen
    BY DEF FoldedStateIsFrozen
  <2>1. /\ Shown = ShownBy(orig, frozen)
        /\ RegistersKeep(orig, Shown, frozen) /\ MemoriesKeep(def, orig, Shown)
    BY ShownIsShownBy DEF FaithInv, Faithful
  <2> HIDE DEF Shown
  <2> QED BY <2>1 DEF FoldedStateIsFrozen, RegistersKeep, MemoriesKeep, Still
<1> QED BY <1>1, FoldingFaithful, PTL

-----------------------------------------------------------------------------
(* What a caller of foldConstants sees of a turn, in a definition without    *)
(* memories, whatever states it gives for the registers.                     *)

\* In d cell c of n has been folded into e, a new constant or what n has at some input, and
\* frozen, if it is a register, at gr[c]:
\* values of the original that n reads and that have c so are read by d.
Folded(n, o, fr, c, e, d, gr) ==
  /\ c \in (Cells(n) \cap Cells(o)) \ n.portCells /\ CellIns(n, c) # {}
  /\ Tp(n, c) \notin {"PORT", "CONST", "MEM"}
  /\ FoldedInto(n, c, d, e)
  /\ IF e \in Cells(n) THEN \E b \in InBits(n) : n.drivers[b].cell = e ELSE e \notin Cells(o)
  /\ IF c \in Registers(n) THEN \E v \in Val : gr = [fr EXCEPT ![c] = v] ELSE gr = fr
  /\ Tp(n, c) = "REG_ARST" => MaterializeConstPort(n, c, "ARST") # NotConst
  /\ \A w : Solution(o, w, Zeros) /\ ReadsAs(n, o, w) /\ (c \in Registers(n) => w[c] = gr[c]) =>
       ReadsAs(d, o, w) /\ (c \in Registers(n) => In(o, w, c, "IN") = gr[c])

TurnFacts ==
  /\ IInv /\ Structure(def, orig) /\ WellFormed(orig) /\ FullyDriven(orig)

LEMMA CandidateFacts ==
  ASSUME TurnFacts, NEW c \in candidates
  PROVE  /\ orig \in Net /\ WellFormed(def) /\ FullyDriven(def) /\ Acyclic(def) /\ def \in Net
         /\ c \in CellId /\ CellIns(def, c) # {} /\ c \in Cells(def) /\ def.type[c] \in Kind
         /\ c \in Cells(orig) /\ def.type[c] = orig.type[c] /\ Tp(def, c) = Tp(orig, c)
         /\ Tp(def, c) \in Simulated \ {"CONST"}
         /\ Tp(def, c) # "PORT" => c \notin def.portCells /\ \A p \in OutPort : ~NameTaken(def, c, p)
         /\ Tp(def, c) \in {"REG", "REG_ARST"} => regs[c] \in Val
<1>1. orig \in Net /\ WellFormed(def) /\ FullyDriven(def) /\ Acyclic(def) /\ def \in Net
  BY DEF TurnFacts, Structure, Remains, WellFormed
<1>2. c \in CellId /\ CellIns(def, c) # {} /\ c \in Cells(def)
  BY DEF TurnFacts, IInv, Cells
<1>3. c \in Cells(orig) /\ def.type[c] = orig.type[c] /\ Tp(def, c) = Tp(orig, c)
  BY <1>2, ReadingCellIsKept DEF TurnFacts
<1>4. def.type[c] \in Kind /\ Tp(def, c) \in Simulated \ {"CONST"}
  BY <1>1, <1>2, ReadingCell DEF TurnFacts, Tp
<1>5. Tp(def, c) # "PORT" => c \notin def.portCells /\ \A p \in OutPort : ~NameTaken(def, c, p)
  BY <1>2, <1>3 DEF TurnFacts, Structure
<1>6. Tp(def, c) \in {"REG", "REG_ARST"} => regs[c] \in Val
  BY <1>2 DEF TurnFacts, IInv, Registers
<1> QED BY <1>1, <1>2, <1>3, <1>4, <1>5, <1>6

LEMMA FoldMuxTurn ==
  ASSUME TurnFacts, NEW c \in candidates, FoldMux(c), UNCHANGED <<regs, orig>>
  PROVE  /\ Structure(def', orig) /\ phase' = phase
         /\ \E e : Folded(def, orig, frozen, c, e, def', frozen')
<1> DEFINE with == ChosenBus(def, c)
           m == MoveReceivers(def, c, "OUT", with)
           e == Driver(def, c, ChosenPort(def, c))
<1>1. /\ orig \in Net /\ WellFormed(def) /\ FullyDriven(def) /\ Acyclic(def) /\ def \in Net
      /\ c \in CellId /\ CellIns(def, c) # {} /\ c \in Cells(def) /\ c \in Cells(orig)
      /\ Tp(def, c) = Tp(orig, c) /\ (Tp(def, c) # "PORT" => c \notin def.portCells)
      /\ Structure(def, orig)
  BY CandidateFacts DEF TurnFacts
<1>2. SelectKnown(def, c) /\ Tp(def, c) = "MUX"
  BY DEF FoldMux, SelectKnown
<1>3. /\ ~MoveReceiversAborts(def, c, "OUT", with) /\ ~DeleteCellAborts(m, c)
      /\ FoldedInto(def, c, DeleteCell(m, c), e)
      /\ Cells(DeleteCell(m, c)) \subseteq Cells(def)
      /\ DeleteCell(m, c).next = def.next /\ DeleteCell(m, c).constNames = def.constNames
      /\ c \in Evaluated(def) /\ e \in Cells(def)
      /\ ChosenPort(def, c) \in Reads(Tp(def, c))
  BY <1>1, <1>2, MuxFoldsInto
<1>4. def' = DeleteCell(m, c) /\ phase' = phase /\ frozen' = frozen /\ orig' = orig
  BY <1>3 DEF FoldMux, Delete
<1> HIDE DEF m, with, e
<1>5. /\ FoldedInto(def, c, def', e) /\ Cells(def') \subseteq Cells(def)
      /\ def'.next = def.next /\ def'.constNames = def.constNames
  BY <1>3, <1>4
<1>6. Acyclic(def')
  BY <1>1, <1>3, <1>5, HandingStaysAcyclic DEF e, FoldedInto, HandedTo
<1>7. Structure(def', orig)
  <2>1. def.next \in Nat /\ def.next <= def'.next /\ def'.next \in Nat
    BY <1>1, <1>5, NetFields, NetlistAssumption
  <2>2. NamesAdded(def', def, c)
    BY <1>5 DEF NamesAdded
  <2> QED BY <1>1, <1>3, <1>5, <1>6, <2>1, <2>2, FoldStructure
<1>8. ASSUME NEW w, Solution(orig, w, Zeros), ReadsAs(def, orig, w)
      PROVE  ReadsAs(def', orig, w)
  <2>1. Value(def, orig, w, e) = w[c]
    BY <1>1, <1>2, <1>8, ChosenInputIsShown DEF e
  <2>2. e \in Cells(def') /\ e # c
    BY <1>5 DEF FoldedInto, HandedTo
  <2>3. InitialValue(def', e) = InitialValue(def, e)
    <3>1. def'.type[e] = def.type[e]
      BY <1>3, <1>5, <2>2 DEF FoldedInto, HandedTo
    <3> QED BY <1>3, <2>2, <3>1 DEF InitialValue, Memories, Tp
  <2>4. Value(def', orig, w, e) = w[c]
    BY <2>1, <2>3 DEF Value
  <2>5. Remains(def, orig) /\ HandedTo(def, c, def', e)
    BY <1>1, <1>5 DEF Structure, FoldedInto
  <2> QED BY <1>1, <1>8, <2>4, <2>5, HandingKeepsReads
<1>9. \E b \in InBits(def) : def.drivers[b].cell = e
  BY <1>1, <1>3, ReadsCells DEF e, Driver
<1>10. Folded(def, orig, frozen, c, e, def', frozen')
  BY <1>1, <1>2, <1>3, <1>4, <1>5, <1>8, <1>9 DEF Folded, Registers
<1> QED BY <1>4, <1>7, <1>10

\* The receivers of c are moved to a new constant v, and c is deleted.
LEMMA ReplacingTurn ==
  ASSUME TurnFacts, NEW c \in candidates, NEW p \in OutPort, Width(def.type[c], p) = 1,
         Tp(def, c) # "PORT", p = IF Tp(def, c) = "MEM" THEN "RDATA" ELSE "OUT", NEW v \in Val,
         def.next <= MaxId, NEW again,
         Delete(c, ReplaceWithConstant(def, c, p, Const(v)),
                ReplaceWithConstantAborts(def, c, p, Const(v)), again)
  PROVE  LET e == def.next
         IN  /\ Structure(def', orig) /\ phase' = phase
             /\ FoldedInto(def, c, def', e) /\ e \notin Cells(orig) /\ e \notin Cells(def)
             /\ \A w : Value(def', orig, w, e) = v
<1> DEFINE m == ReplaceWithConstant(def, c, p, Const(v))
           e == def.next
<1>1. /\ orig \in Net /\ WellFormed(def) /\ FullyDriven(def) /\ Acyclic(def) /\ def \in Net
      /\ c \in Cells(def) /\ c \notin def.portCells /\ ~NameTaken(def, c, p)
      /\ Structure(def, orig)
  BY CandidateFacts DEF TurnFacts
<1>2. /\ ~ReplaceWithConstantAborts(def, c, p, Const(v)) /\ ~DeleteCellAborts(m, c)
      /\ FoldedInto(def, c, DeleteCell(m, c), e)
      /\ DeleteCell(m, c).type[e] = Const(v) /\ e < DeleteCell(m, c).next /\ e \notin Cells(def)
      /\ \A x \in DeleteCell(m, c).constNames : x \in def.constNames \/ x = <<c, p>>
  <2>1. OnlyOutput(def, c, p)
    BY <1>1, OneOutput DEF OnlyOutput
  <2> QED BY <1>1, <2>1, ConstantFoldsInto
<1>3. def' = DeleteCell(m, c) /\ phase' = phase
  BY <1>2 DEF Delete
<1> HIDE DEF m
<1>4. /\ FoldedInto(def, c, def', e) /\ def'.type[e] = Const(v) /\ e < def'.next
      /\ \A x \in def'.constNames : x \in def.constNames \/ x = <<c, p>>
  BY <1>2, <1>3
<1>5. e \in Cells(def') /\ Tp(def', e) = "CONST" /\ WellFormed(def') /\ def' \in Net
  BY <1>4 DEF FoldedInto, HandedTo, Tp, Const, WellFormed
<1>6. Acyclic(def')
  <2>1. e \notin Evaluated(def')
    BY <1>5 DEF Evaluated
  <2> QED BY <1>1, <1>4, <2>1, HandingStaysAcyclic DEF FoldedInto
<1>7. Structure(def', orig) /\ e \notin Cells(orig)
  <2>1. def.next \in Nat /\ def'.next \in Nat /\ def.next <= def'.next
    BY <1>1, <1>4, <1>5, NetFields, NetlistAssumption
  <2>2. NamesAdded(def', def, c)
    BY <1>4 DEF NamesAdded
  <2>3. def.next \notin Cells(def)
    BY <1>2
  <2> QED BY <1>1, <1>4, <1>6, <2>1, <2>2, <2>3, FoldStructure
<1>8. \A w : Value(def', orig, w, e) = v
  BY <1>4, <1>5, <1>7 DEF Value, InitialValue, Memories, Const, Tp
<1> QED BY <1>2, <1>3, <1>4, <1>7, <1>8

LEMMA FoldMemoryTurn ==
  ASSUME TurnFacts, NEW c \in candidates, FoldMemory(c), UNCHANGED <<regs, orig>>
  PROVE  /\ Structure(def', orig) /\ phase' = phase /\ frozen' = frozen
         /\ FoldedInto(def, c, def', def.next)
<1>1. MemoryKnown(def, c) /\ Tp(def, c) = "MEM" /\ def.next <= MaxId /\ frozen' = frozen
  BY DEF FoldMemory, MemoryKnown
<1>2. "RDATA" \in OutPort /\ Width(def.type[c], "RDATA") = 1
  <2>1. def.type[c] \in Kind /\ def.type[c] # NoType /\ def.type[c].tp = "MEM"
    BY <1>1, CandidateFacts DEF Cells, Tp
  <2>2. "RDATA" \in DOMAIN PortWidths(def.type[c])
    BY <2>1 DEF PortWidths, Comparator, Binop, ReduceOp, Unop
  <2> QED BY <2>1, <2>2, SemanticsAssumption DEF OutPort, Port, Width
<1>3. Delete(c, ReplaceWithConstant(def, c, "RDATA", Const(0)),
             ReplaceWithConstantAborts(def, c, "RDATA", Const(0)), {})
  BY DEF FoldMemory
<1>4. 0 \in Val
  BY DEF Val
<1> QED BY <1>1, <1>2, <1>3, <1>4, ReplacingTurn

LEMMA FoldOutputTurn ==
  ASSUME TurnFacts, NEW c \in candidates, FoldOutput(c), UNCHANGED <<regs, orig>>
  PROVE  /\ Structure(def', orig) /\ phase' = phase
         /\ \E e : Folded(def, orig, frozen, c, e, def', frozen')
<1> DEFINE v == GetOutput(def, c, regs)
           m == ReplaceWithConstant(def, c, "OUT", Const(v))
           e == def.next
<1>1. /\ orig \in Net /\ WellFormed(def) /\ FullyDriven(def) /\ Acyclic(def) /\ def \in Net
      /\ WellFormed(orig) /\ FullyDriven(orig)
      /\ c \in CellId /\ CellIns(def, c) # {} /\ c \in Cells(def) /\ c \in Cells(orig)
      /\ def.type[c] \in Kind /\ Tp(def, c) = Tp(orig, c)
      /\ Structure(def, orig)
      /\ Tp(def, c) \in {"REG", "REG_ARST"} => regs[c] \in Val
  BY CandidateFacts DEF TurnFacts
<1>2. OutputKnown(def, c, regs) /\ v # NotConst /\ def.next <= MaxId /\ orig' = orig
  BY DEF FoldOutput, OutputKnown
<1>3. Tp(def, c) \notin {"PORT", "MUX", "MEM", "CONST"} /\ Tp(def, c) \in Simulated
  BY <1>2, CandidateFacts DEF OutputKnown, GetOutput, Unop, ReduceOp, Binary, Comparator
<1>4. v \in Val
  BY <1>1, <1>2, FoldOutputFolds
<1>5. "OUT" \in OutPort /\ Width(def.type[c], "OUT") = 1
  BY <1>1, <1>3, OutputPort DEF Tp
<1>6. frozen' = IF c \in Registers(def) THEN [frozen EXCEPT ![c] = v] ELSE frozen
  BY DEF FoldOutput, Const
<1>7. frozen \in [CellId -> Val \cup {NotConst}]
  BY DEF TurnFacts, IInv
<1>8. Delete(c, m, ReplaceWithConstantAborts(def, c, "OUT", Const(v)), ReceiverCells(def, c))
  BY DEF FoldOutput
<1>9. ASSUME NEW w, Solution(orig, w, Zeros), ReadsAs(def, orig, w),
             c \in Registers(def) => w[c] = frozen'[c]
      PROVE  w[c] = v /\ (c \in Registers(def) => In(orig, w, c, "IN") = v)
  <2>1. CASE c \notin Registers(def)
    <3>1. Tp(def, c) \in Unary \cup Binary
      BY <1>1, <1>3, <2>1 DEF Registers, Simulated, Tp
    <3> QED BY <1>1, <1>2, <1>9, <2>1, <3>1, KnownOutputIsShown
  <2>2. CASE c \in Registers(def)
    <3>1. Tp(def, c) \in {"REG", "REG_ARST"} /\ w[c] = v
      BY <1>1, <1>6, <1>7, <1>9, <2>2 DEF Registers
    <3>2. In(orig, w, c, "IN") = w[c]
      BY <1>1, <1>2, <1>9, <3>1, FoldedRegisterKeeps
    <3> QED BY <3>1, <3>2
  <2> QED BY <2>1, <2>2
<1>10. Tp(def, c) = "REG_ARST" => MaterializeConstPort(def, c, "ARST") # NotConst
  BY <1>2 DEF GetOutput, Unop, ReduceOp, Binary, Comparator
<1> HIDE DEF v
<1>11. /\ Structure(def', orig) /\ phase' = phase
       /\ FoldedInto(def, c, def', e) /\ \A w : Value(def', orig, w, e) = v
       /\ e \notin Cells(def) /\ e \notin Cells(orig)
  BY <1>2, <1>3, <1>4, <1>5, <1>8, ReplacingTurn
<1>12. c \notin def.portCells
  BY <1>3, CandidateFacts
<1>13. ASSUME NEW w, ReadsAs(def, orig, w), w[c] = v
       PROVE  ReadsAs(def', orig, w)
  <2>1. Remains(def, orig) /\ HandedTo(def, c, def', e) /\ Value(def', orig, w, e) = w[c]
    BY <1>1, <1>11, <1>13 DEF Structure, FoldedInto
  <2> QED BY <1>1, <1>13, <2>1, HandingKeepsReads
<1>14. c \in Registers(def) => frozen'[c] = v
  BY <1>1, <1>6, <1>7
<1>15. Folded(def, orig, frozen, c, e, def', frozen')
  BY <1>1, <1>3, <1>4, <1>6, <1>9, <1>10, <1>12, <1>11, <1>13, <1>14 DEF Folded
<1> QED BY <1>11, <1>15

\* A turn folds one cell or none, and fails no assertion before the closing one.
FoldsOne ==
  \/ UNCHANGED <<def, frozen>>
  \/ \E c \in candidates : \E e : Folded(def, orig, frozen, c, e, def', frozen')

FoldsMemory ==
  /\ frozen' = frozen
  /\ \E c \in candidates : Tp(def, c) = "MEM" /\ \E e : FoldedInto(def, c, def', e)

LEMMA TurnFolds ==
  ASSUME TurnFacts, Next
  PROVE  /\ Structure(def', orig) /\ UNCHANGED <<regs, orig>>
         /\ phase = "folding" /\ phase' \in {"folding", "done", "unfolded"}
         /\ FoldsOne \/ FoldsMemory
<1>1. Structure(def, orig)
  BY DEF TurnFacts
<1>2. CASE Finish
  BY <1>1, <1>2 DEF Finish, FoldsOne
<1>3. CASE Turn
  <2>1. PICK c \in candidates : /\ FoldMux(c) \/ FoldMemory(c) \/ FoldOutput(c) \/ PassOver(c)
                                /\ phase = "folding" /\ UNCHANGED <<regs, orig>>
    BY <1>3 DEF Turn
  <2>2. CASE FoldMux(c)
    BY <2>1, <2>2, FoldMuxTurn DEF FoldsOne
  <2>3. CASE FoldMemory(c)
    <3>1. Tp(def, c) = "MEM"
      BY <2>3 DEF FoldMemory, MemoryKnown
    <3> QED BY <2>1, <2>3, <3>1, FoldMemoryTurn DEF FoldsMemory
  <2>4. CASE FoldOutput(c)
    BY <2>1, <2>4, FoldOutputTurn DEF FoldsOne
  <2>5. CASE PassOver(c)
    BY <1>1, <2>1, <2>5 DEF PassOver, FoldsOne
  <2> QED BY <2>1, <2>2, <2>3, <2>4, <2>5
<1> QED BY <1>2, <1>3 DEF Next
=============================================================================
