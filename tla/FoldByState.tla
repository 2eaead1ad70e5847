---------------------------- MODULE FoldByState ----------------------------
(***************************************************************************)
(* foldConstantsWRTState of src/transformations.cpp, for one-bit           *)
(* definitions: a data-flow analysis labels the cells whose outputs can    *)
(* only be what a simulator has in its value store; then, in the order of  *)
(* identifiers, those other cells read are replaced by constants and       *)
(* multiplexers of a constant select by their chosen input; at last the    *)
(* labelled cells are deleted.  A turn of either loop is a step.           *)
(***************************************************************************)
EXTENDS CellSemantics

CONSTANT Circuits     \* the definitions it is called for

VARIABLES
  def,          \* the definition
  store,        \* valueStore: what the outputs showed when it was called
  label,        \* cellClassification
  cellsLeft,    \* the cells to label
  toDelete,     \* the cells to delete at the end
  at,           \* the next cell of the loop over the labels
  phase,        \* "labelling", "folding", "done", or what stopped the program
  orig          \* history: the definition it was called for

vars == <<def, store, label, cellsLeft, toDelete, at, phase, orig>>

Const(v) == [tp |-> "CONST", width |-> 1, init |-> <<v>>]

\* CELL_IS_NON_CONST, CELL_IS_CONST, CELL_IS_CONST_SEL_MUX; cells made later have none.
Label == {"none", "nonconst", "const", "select"}

ASSUME FoldByStateAssumption ==
  /\ \A v \in Val : Const(v) \in Kind
  /\ \A n \in Circuits :
       /\ WellFormed(n) /\ FullyDriven(n)
       /\ \A c \in Cells(n) : Tp(n, c) = "PORT" => c \in n.portCells

-----------------------------------------------------------------------------
(* labelConstantCells.                                                     *)

\* drivenByConstants: an input without a driver does not count.
DrivenByConstants(n, l, c, p) ==
  \A r \in CellIns(n, c) : r.port = p /\ n.drivers[r] # NoBit => l[n.drivers[r].cell] = "const"

ReadsItself(n, c) == n.drivers[PinOf(c, "IN")] = PinOf(c, "OUT")

\* fault: the chosen input is the other one
MuxLabelSwapped(n, v, l, c) ==
  LET sel == In(n, v, c, "SEL")
  IN  IF ~DrivenByConstants(n, l, c, "SEL") THEN l[c]
      ELSE IF \/ sel = 1 /\ DrivenByConstants(n, l, c, "IN0")
              \/ sel = 0 /\ DrivenByConstants(n, l, c, "IN1") THEN "const"
      ELSE "select"

MuxLabel(n, v, l, c) ==
  LET sel == In(n, v, c, "SEL")
  IN  IF ~DrivenByConstants(n, l, c, "SEL") THEN l[c]
      ELSE IF \/ sel = 0 /\ DrivenByConstants(n, l, c, "IN0")
              \/ sel = 1 /\ DrivenByConstants(n, l, c, "IN1") THEN "const"
      ELSE "select"

\* A register that can be reset is constant if it keeps its value and its reset still.
NewLabel(n, v, l, c) ==
  CASE Tp(n, c) = "MUX"      -> MuxLabel(n, v, l, c)
    [] Tp(n, c) = "REG_ARST" ->
         IF DrivenByConstants(n, l, c, "ARST") /\ ReadsItself(n, c) THEN "const" ELSE l[c]
    [] c \in Inputs(n)       -> l[c]
    [] OTHER -> IF \A p \in InPort : DrivenByConstants(n, l, c, p) THEN "const" ELSE "nonconst"

\* fault: every cell counts as constant until something else is known
InitialLabelOptimistic(n, c) == IF c \in Inputs(n) THEN "nonconst" ELSE "const"

InitialLabel(n, c) == IF Tp(n, c) = "CONST" THEN "const" ELSE "nonconst"

ReadersOf(n, c) == {r.cell : r \in OutReceivers(n, c)}

Lowest(S) == CHOOSE c \in S : \A d \in S : c <= d

\* faults: readers are queued without a change, or never
RelabelAlways ==
  /\ phase = "labelling" /\ cellsLeft # {}
  /\ LET c == Lowest(cellsLeft)
     IN  /\ label' = [label EXCEPT ![c] = NewLabel(def, store, label, c)]
         /\ cellsLeft' = (cellsLeft \ {c}) \cup ReadersOf(def, c)
  /\ UNCHANGED <<def, store, toDelete, at, phase, orig>>

RelabelOnce ==
  /\ phase = "labelling" /\ cellsLeft # {}
  /\ LET c == Lowest(cellsLeft)
     IN  /\ label' = [label EXCEPT ![c] = NewLabel(def, store, label, c)]
         /\ cellsLeft' = cellsLeft \ {c}
  /\ UNCHANGED <<def, store, toDelete, at, phase, orig>>

\* The readers of a cell whose label changed are looked at again.
Relabel ==
  /\ phase = "labelling" /\ cellsLeft # {}
  /\ LET c   == Lowest(cellsLeft)
         new == NewLabel(def, store, label, c)
     IN  /\ label' = [label EXCEPT ![c] = new]
         /\ cellsLeft' = (cellsLeft \ {c}) \cup IF new # label[c] THEN ReadersOf(def, c) ELSE {}
  /\ UNCHANGED <<def, store, toDelete, at, phase, orig>>

Labelled ==
  /\ phase = "labelling" /\ cellsLeft = {}
  /\ phase' = "folding"
  /\ UNCHANGED <<def, store, label, cellsLeft, toDelete, at, orig>>

-----------------------------------------------------------------------------
(* The loop over the labels.                                               *)

\* isBoundaryCell
IsBoundaryCell(n, l, c) == \E d \in ReadersOf(n, c) : l[d] = "nonconst" \/ d \in n.portCells

Turn(c) == phase = "folding" /\ at = c /\ at' = c + 1

Skip(c) ==
  /\ Turn(c)
  /\ label[c] \in {"none", "nonconst"} \/ c \in def.portCells
  /\ UNCHANGED <<def, toDelete, phase>>

\* Only labelled cells read it: it goes as it is.
Forget(c) ==
  /\ Turn(c)
  /\ label[c] = "const" /\ c \notin def.portCells /\ ~IsBoundaryCell(def, label, c)
  /\ toDelete' = toDelete \cup {c}
  /\ UNCHANGED <<def, phase>>

\* The value store has an entry for every output, and no other, from before: none for
\* the input of a multiplexer, of which its value would be taken.
Replace(c) ==
  /\ Turn(c)
  /\ label[c] = "const" /\ c \notin def.portCells /\ IsBoundaryCell(def, label, c)
  /\ toDelete' = toDelete \cup {c}
  /\ IF Tp(def, c) = "MUX"                             THEN phase' = "missing" /\ UNCHANGED def
     ELSE IF c \in Registers(def) \cup Memories(def)  THEN phase' = "state" /\ UNCHANGED def
     ELSE /\ def.next <= MaxId
          /\ ~ReplaceWithConstantAborts(def, c, "OUT", Const(store[c]))
          /\ def' = ReplaceWithConstant(def, c, "OUT", Const(store[c]))
          /\ UNCHANGED phase

\* faults: the wrong input is chosen
ChosenOther(v, n, c) == IF In(n, v, c, "SEL") = 1 THEN "IN0" ELSE "IN1"

Chosen(v, n, c) == IF In(n, v, c, "SEL") = 1 THEN "IN1" ELSE "IN0"

\* A select that has been replaced is driven by a cell the value store does not know.
Choose(c) ==
  LET with == [o \in Offset |-> def.drivers[PinOf(c, Chosen(store, def, c))]]
      moved == MoveReceivers(def, c, "OUT", with)
  IN  /\ Turn(c)
      /\ label[c] = "select"
      /\ IF Driver(def, c, "SEL") \notin Cells(orig) THEN phase' = "missing" /\ UNCHANGED def
         ELSE /\ ~MoveReceiversAborts(def, c, "OUT", with) /\ ~DeleteCellAborts(moved, c)
              /\ def' = DeleteCell(moved, c)
              /\ UNCHANGED phase
      /\ UNCHANGED toDelete

FoldTurn ==
  /\ \E c \in 1 .. orig.next - 1 : Skip(c) \/ Forget(c) \/ Replace(c) \/ Choose(c)
  /\ UNCHANGED <<store, label, cellsLeft, orig>>

Finish ==
  /\ phase = "folding" /\ at = orig.next
  /\ def' = BulkDelete(def, toDelete)
  /\ phase' = "done"
  /\ UNCHANGED <<store, label, cellsLeft, toDelete, at, orig>>

\* A simulator that has been updated shows what its inputs and its state make it show.
Zeros == [c \in CellId |-> [a \in Addr |-> 0]]

Init ==
  /\ orig \in Circuits
  /\ def = orig
  /\ \E in \in [Inputs(orig) -> Val], r \in [Registers(orig) -> Val] :
       store = Wires(orig, in, r, Zeros)
  /\ label = [c \in CellId |-> IF c \in Cells(orig) THEN InitialLabel(orig, c) ELSE "none"]
  /\ cellsLeft = Cells(orig)
  /\ toDelete = {} /\ at = 1 /\ phase = "labelling"

Next == Relabel \/ Labelled \/ FoldTurn \/ Finish

\* The loops run on their caller's thread.
Spec == Init /\ [][Next]_vars /\ WF_vars(Next)

\* The definitions SameFunction and LabelsAreSound are about: without combinational
\* cycles, and addPort is all that enters a cell among the port cells.
Orderly ==
  \A n \in Circuits : Acyclic(n) /\ \A c \in n.portCells : Tp(n, c) = "PORT"

-----------------------------------------------------------------------------
\* The definition stays well formed, both ends of every wire in agreement, at every
\* step; what is queued, or to be deleted, is a cell, and no port is to be deleted.
TypeOK ==
  /\ def = orig \/ WellFormed(def)     \* the original is, by assumption
  /\ store \in [CellId -> Val] /\ label \in [CellId -> Label]
  /\ cellsLeft \subseteq Cells(def) /\ toDelete \subseteq Cells(orig) \ orig.portCells
  /\ at \in 1 .. orig.next
  /\ phase \in {"labelling", "folding", "done", "missing", "state"}

JustLabelled == phase = "folding" /\ at = 1

\* The states the registers can be in from the call on, if labelled ones never move.
RegStates == {r \in [Registers(orig) -> Val] :
                \A c \in Registers(orig) : label[c] = "const" => r[c] = store[c]}

\* What the outputs can show from then on, and the inputs that do not move.
Shown == {Wires(orig, in, r, Zeros) : in \in [Inputs(orig) -> Val], r \in RegStates}

Still(c, p) == \E v \in Val : \A w \in Shown : In(orig, w, c, p) = v

\* A cell labelled constant shows what the value store has for it whatever the inputs
\* and the other registers do from then on, and if it is a register, it is never
\* clocked or loads what it holds, and its reset does not move.
LabelsAreSound ==
  JustLabelled =>
    \A c \in {k \in Cells(orig) : label[k] = "const"} :
      /\ \A w \in Shown : w[c] = store[c]
      /\ c \in Registers(orig) =>
           /\ Still(c, "CLK") \/ \A w \in Shown : In(orig, w, c, "IN") = store[c]
           /\ Tp(orig, c) = "REG_ARST" => Still(c, "ARST")

\* The work list forgets no cell: when the analysis ends every label is what the labels
\* of the drivers make it.
LabelsAreSettled ==
  JustLabelled => \A c \in Cells(orig) : label[c] = NewLabel(orig, store, label, c)

\* The analysis is monotonic (transformations.cpp:1089): what was found constant stays so.
LabelsOnlyRise == [][\A c \in CellId : label[c] = "const" => label'[c] = "const"]_vars

\* A select that is labelled constant but is unknown chooses IN0 without regard to its
\* label; the next property holds of the definitions where nothing labelled is chosen.
ChoicesVary ==
  \A c \in Cells(orig) :
    label[c] = "select" => label[Driver(orig, c, Chosen(store, orig, c))] # "const"

\* Deleting the labelled cells takes the driver away from no cell that is left, and under
\* all inputs, and all states the registers can still be in, every input reads what it
\* reads in the original definition.
SameFunction ==
  phase = "done" /\ ChoicesVary =>
    /\ FullyDriven(def)
    /\ \A in \in [Inputs(orig) -> Val], r \in RegStates :
         LET before == Wires(orig, in, r, Zeros)
             after  == Wires(def, in, r, Zeros)
         IN  \A b \in InBits(def) :
               after[def.drivers[b].cell] = before[orig.drivers[b].cell]

\* The work list runs empty and the loop comes to its end, or an assertion stops it.
Terminates == <>(phase \notin {"labelling", "folding"})

\* map_find asserts that what is looked up in the value store is there
\* (algorithm.h:505), so foldConstantsWRTState is to look up nothing else.
ValuesAreFound == phase # "missing"
=============================================================================
