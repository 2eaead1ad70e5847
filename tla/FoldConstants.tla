--------------------------- MODULE FoldConstants ---------------------------
(***************************************************************************)
(* foldConstants of src/transformations.cpp, run on a definition whose     *)
(* ports are one bit wide: cells whose output a constant input determines  *)
(* are replaced by a constant, multiplexers whose select is constant by    *)
(* their chosen input, and registers that can only keep their value by     *)
(* that value.  Every cell that reads a new constant is a candidate.  Each *)
(* turn of the loop is a step.                                             *)
(***************************************************************************)
EXTENDS CellSemantics

CONSTANT Circuits     \* the definitions it is called for

VARIABLES
  def,          \* the definition
  regs,         \* registerValues, the states of the registers when it is called
  candidates,   \* the cells to look at
  phase,        \* "folding", "done", or the assertion that stopped it
  orig,         \* history: the definition it was called for
  frozen        \* history: what each folded register was replaced by

vars == <<def, regs, candidates, phase, orig, frozen>>

NotConst == 3     \* in place of a value: nothing is known

Const(v) == [tp |-> "CONST", width |-> 1, init |-> <<v>>]

\* Cells of type PORT are made by addPort.
ASSUME FoldAssumption ==
  /\ \A v \in Val : Const(v) \in Kind
  /\ \A n \in Circuits :
       /\ WellFormed(n) /\ FullyDriven(n)
       /\ \A c \in Cells(n) : Tp(n, c) = "PORT" => c \in n.portCells

-----------------------------------------------------------------------------
(* What is known of a port and of an output.                               *)

MaterializeConstPort(n, c, p) ==
  LET d == Driver(n, c, p)
  IN  IF d # 0 /\ Tp(n, d) = "CONST" THEN n.type[d].init[1] ELSE NotConst

\* fault: a register is taken to read itself
MaterializeRegisterInputUnchecked(n, c, r) ==
  LET in == MaterializeConstPort(n, c, "IN") IN IF in = NotConst THEN r[c] ELSE in

\* A register without a constant input keeps its value if it reads itself.
MaterializeRegisterInput(n, c, r) ==
  LET in == MaterializeConstPort(n, c, "IN")
  IN  IF in = NotConst /\ n.drivers[PinOf(c, "IN")] = PinOf(c, "OUT") THEN r[c] ELSE in

\* fault: equality is forgotten
DoBinopStrict(tp, a, b) ==
  [AND |-> QAnd(a, b), OR |-> QOr(a, b), XOR |-> QXor(a, b), ADD |-> QXor(a, b),
   SUB |-> QXor(a, b), EQ |-> Bool(QEquals(a, b)), NEQ |-> Bool(~QEquals(a, b)),
   ULT |-> Bool(QLess(a, b)), ULE |-> Bool(QLess(a, b)),
   UGT |-> Bool(QLess(b, a)), UGE |-> Bool(QLess(b, a))][tp]

DoUnop(tp, a) ==
  [PASSTHROUGH |-> a, NOT |-> QNot(a), ORR |-> Bool(a = 1), ANDR |-> Bool(a = 1)][tp]

DoBinop(tp, a, b) ==
  [AND |-> QAnd(a, b), OR |-> QOr(a, b), XOR |-> QXor(a, b), ADD |-> QXor(a, b),
   SUB |-> QXor(a, b), EQ |-> Bool(QEquals(a, b)), NEQ |-> Bool(~QEquals(a, b)),
   ULT |-> Bool(QLess(a, b)), ULE |-> Bool(QLess(a, b) \/ QEquals(a, b)),
   UGT |-> Bool(QLess(b, a)), UGE |-> Bool(QLess(b, a) \/ QEquals(a, b))][tp]

GetOutput(n, c, r) ==
  LET tp   == Tp(n, c)
      k(p) == MaterializeConstPort(n, c, p)
  IN  CASE tp = "PORT"             -> NotConst
        [] tp \in {"ZEXT", "SLICE"} -> k("IN")
        [] tp \in Unop   -> IF k("IN") = NotConst THEN NotConst ELSE DoUnop(tp, k("IN"))
        [] tp \in Binary -> IF NotConst \notin {k("IN0"), k("IN1")}
                              THEN DoBinop(tp, k("IN0"), k("IN1"))
                            ELSE IF tp = "AND" /\ 0 \in {k("IN0"), k("IN1")} THEN 0
                            ELSE IF tp = "OR" /\ 1 \in {k("IN0"), k("IN1")} THEN 1
                            ELSE NotConst
        [] tp = "REG"      -> MaterializeRegisterInput(n, c, r)
        [] tp = "REG_ARST" -> IF k("ARST") = NotConst THEN NotConst
                              ELSE MaterializeRegisterInput(n, c, r)

-----------------------------------------------------------------------------
(* The loop.  A cell is deleted once its receivers have been moved; whoever   *)
(* received it is looked at again.                                           *)

ReceiverCells(n, c) == {r.cell : r \in Receivers(n, c, "OUT")}

\* faults: a cell that receives itself stays a candidate, and its receivers are not
\* looked at
DeleteKeepsCandidate(c, moved, aborts, again) ==
  /\ ~aborts
  /\ def' = DeleteCell(moved, c)
  /\ candidates' = (candidates \ {c}) \cup again
  /\ UNCHANGED phase

DeleteForgets(c, moved, aborts, again) ==
  /\ ~aborts
  /\ def' = DeleteCell(moved, c)
  /\ candidates' = candidates \ {c}
  /\ UNCHANGED phase

\* getCellRef asserts that the drivers of a deleted cell exist.
Delete(c, moved, aborts, again) ==
  IF aborts \/ DeleteCellAborts(moved, c)
  THEN phase' = "no cell" /\ UNCHANGED <<def, candidates>>
  ELSE /\ def' = DeleteCell(moved, c)
       /\ candidates' = (candidates \cup again) \ {c}
       /\ UNCHANGED phase

SelectKnown(n, c) == Tp(n, c) = "MUX" /\ MaterializeConstPort(n, c, "SEL") # NotConst

\* fault: only the addresses are looked at
MemoryKnownByAddress(n, c) ==
  /\ Tp(n, c) = "MEM"
  /\ \A p \in {"RADDR", "WADDR"} : MaterializeConstPort(n, c, p) # NotConst

MemoryKnown(n, c) ==
  /\ Tp(n, c) = "MEM"
  /\ \A p \in {"WEN", "CLK", "RADDR", "WADDR", "WDATA"} : MaterializeConstPort(n, c, p) # NotConst

\* fault: an output known to be X does not count as known
OutputKnownBinary(n, c, r) == Tp(n, c) \notin {"MUX", "MEM"} /\ GetOutput(n, c, r) \in {0, 1}

OutputKnown(n, c, r) == Tp(n, c) \notin {"MUX", "MEM"} /\ GetOutput(n, c, r) # NotConst

\* A select that is not binary passes IN0.
ChosenBus(n, c) ==
  LET p == IF MaterializeConstPort(n, c, "SEL") = 1 THEN "IN1" ELSE "IN0"
  IN  [o \in Offset |-> n.drivers[[cell |-> c, port |-> p, offset |-> o]]]

FoldMux(c) ==
  /\ SelectKnown(def, c)
  /\ Delete(c, MoveReceivers(def, c, "OUT", ChosenBus(def, c)),
            MoveReceiversAborts(def, c, "OUT", ChosenBus(def, c)), ReceiverCells(def, c))
  /\ UNCHANGED frozen

\* A memory reads 0, whatever it holds; nobody looks at its receivers.
FoldMemory(c) ==
  /\ MemoryKnown(def, c)
  /\ def.next <= MaxId
  /\ Delete(c, ReplaceWithConstant(def, c, "RDATA", Const(0)),
            ReplaceWithConstantAborts(def, c, "RDATA", Const(0)), {})
  /\ UNCHANGED frozen

FoldOutput(c) ==
  LET k == Const(GetOutput(def, c, regs))
  IN  /\ OutputKnown(def, c, regs)
      /\ def.next <= MaxId
      /\ Delete(c, ReplaceWithConstant(def, c, "OUT", k),
                ReplaceWithConstantAborts(def, c, "OUT", k), ReceiverCells(def, c))
      /\ frozen' = IF c \in Registers(def) THEN [frozen EXCEPT ![c] = k.init[1]] ELSE frozen

Foldable(n, c, r) == SelectKnown(n, c) \/ MemoryKnown(n, c) \/ OutputKnown(n, c, r)

\* fault: a cell that is passed over stays a candidate
PassOverKeeps(c) == ~Foldable(def, c, regs) /\ UNCHANGED <<def, candidates, phase, frozen>>

PassOver(c) ==
  /\ ~Foldable(def, c, regs)
  /\ candidates' = candidates \ {c}
  /\ UNCHANGED <<def, phase, frozen>>

\* The closing check: a cell that has inputs reads something that is not constant.
AllInputsConst(n, c) ==
  CellIns(n, c) # {} /\ \A r \in CellIns(n, c) : MaterializeConstPort(n, c, r.port) # NotConst

ReadsConstant(n, c) == \E r \in CellIns(n, c) : MaterializeConstPort(n, c, r.port) # NotConst

Finish ==
  /\ phase = "folding" /\ candidates = {}
  /\ phase' = IF \E c \in Cells(def) \ def.portCells : AllInputsConst(def, c)
              THEN "unfolded" ELSE "done"
  /\ UNCHANGED <<def, regs, candidates, orig, frozen>>

Init ==
  /\ orig \in Circuits
  /\ def = orig
  /\ regs \in [Registers(def) -> Val]
  /\ candidates = {c \in Cells(def) : ReadsConstant(def, c)}
  /\ phase = "folding"
  /\ frozen = [c \in CellId |-> NotConst]

Turn ==
  /\ phase = "folding" /\ candidates # {}
  /\ \E c \in candidates :
       /\ \A x \in candidates : c <= x
       /\ FoldMux(c) \/ FoldMemory(c) \/ FoldOutput(c) \/ PassOver(c)
  /\ UNCHANGED <<regs, orig>>

Next == Turn \/ Finish

\* The loop runs on its caller's thread.
Spec == Init /\ [][Next]_vars /\ WF_vars(Next)

\* The definitions SameFunction and FoldedStateIsFrozen are about: without combinational
\* cycles, addPort is all that enters a cell among the port cells, and no name of a
\* constant that replaces a cell is taken.
Orderly ==
  \A n \in Circuits :
    /\ Acyclic(n)
    /\ \A c \in n.portCells : Tp(n, c) = "PORT"
    /\ \A c \in Cells(n) \ n.portCells : \A p \in OutPort : ~NameTaken(n, c, p)

-----------------------------------------------------------------------------
\* The definition stays well formed, both ends of every wire in agreement, and
\* a candidate is a cell: the look-up at the head of the loop finds it.
TypeOK ==
  /\ WellFormed(def)
  /\ candidates \subseteq Cells(def)
  /\ regs \in [Registers(orig) -> Val]
  /\ frozen \in [CellId -> Val \cup {NotConst}]
  /\ phase \in {"folding", "done", "no cell", "unfolded"}

\* What the cells of the original definition may show, whatever the inputs are, while
\* the folded registers hold what they were replaced by and the memories hold 0.
RegStates == {r \in [Registers(orig) -> Val] :
                \A c \in Registers(orig) : frozen[c] \in {NotConst, r[c]}}
Zeros == [c \in CellId |-> [a \in Addr |-> 0]]

\* What the original definition may show.
Shown == {Wires(orig, in, r, Zeros) : in \in [Inputs(orig) -> Val], r \in RegStates}

\* A memory reads the number 21 at an unknown address and is folded to 0 if its address
\* is known to be unknown; the next two properties hold as long as that is not done.
AddressesKnown ==
  \A c \in Memories(orig) \ Cells(def) : \A w \in Shown : In(orig, w, c, "RADDR") # X

\* Folding changes nothing that remains: the receivers of a folded cell are moved to a
\* cell that is not itself deleted, so every input stays driven, and under all inputs and
\* states it reads what it reads in the original definition.
SameFunction ==
  /\ FullyDriven(def) /\ phase # "no cell"
  /\ AddressesKnown =>
       \A in \in [Inputs(orig) -> Val], r \in RegStates :
         LET before == Wires(orig, in, r, Zeros)
             after  == Wires(def, in, r, Zeros)
         IN  \A b \in InBits(def) :
               after[def.drivers[b].cell] = before[orig.drivers[b].cell]

\* What was folded can never hold another value: a register that holds the value it was
\* replaced by loads it whenever it is clocked, and its reset does not move; a memory
\* reads one word, and is never enabled or never clocked.
FoldedStateIsFrozen ==
  LET Still(c, p) == \E v \in Val : \A w \in Shown : In(orig, w, c, p) = v
  IN  AddressesKnown =>
        /\ \A c \in Registers(orig) : frozen[c] # NotConst =>
             /\ \A w \in Shown : In(orig, w, c, "IN") = frozen[c]
             /\ Tp(orig, c) = "REG_ARST" => Still(c, "ARST")
        /\ \A c \in Memories(orig) \ Cells(def) :
             /\ Still(c, "RADDR")
             /\ Still(c, "CLK") \/ \A w \in Shown : In(orig, w, c, "WEN") # 1

\* No cell is forgotten: one that reads a constant and can be folded is a candidate.
NoLostCandidate ==
  \A c \in Cells(def) : ReadsConstant(def, c) /\ Foldable(def, c, regs) => c \in candidates

\* The loop ends, because a turn folds a cell or takes a candidate away.
Terminates == <>(phase # "folding")

\* foldConstants closes by asserting that no cell is left all of whose inputs are
\* constant (transformations.cpp:485).
ClosingCheckPasses == phase # "unfolded"
=============================================================================
