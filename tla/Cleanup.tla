------------------------------ MODULE Cleanup ------------------------------
(***************************************************************************)
(* The transformations that remove what a definition does not need: pass-  *)
(* throughs and extensions to the same width (cullPassthroughs, cullZexts),*)
(* constants 0 but one (removeConstDuplicates), gates with the inputs of   *)
(* another (deDuplicate) and whatever reaches no output port               *)
(* (deleteDeadInstances).  A client runs them in any order, each to its    *)
(* end; a turn of a loop of one is a step.  Ports are one bit wide.        *)
(***************************************************************************)
EXTENDS CellSemantics

CONSTANT Circuits     \* the definitions they are called for

VARIABLES
  def,      \* the definition
  pass,     \* the transformation that is running, or the part of it
  todo,     \* what its loop has left: pairs of a cell to keep and one to bypass
  orig      \* history: the definition before all transformations

vars == <<def, pass, todo, orig>>

\* setDriver and deleteCell assert that every input they meet is driven.
ASSUME CleanupAssumption == \A n \in Circuits : WellFormed(n) /\ FullyDriven(n)

Init == orig \in Circuits /\ def = orig /\ pass = "none" /\ todo = {}

-----------------------------------------------------------------------------
(* The loops of the first four.                                            *)

OfType(n, tp) == {c \in Cells(n) : Tp(n, c) = tp}

Zeros(n) == {c \in OfType(n, "CONST") : n.type[c].width = 1 /\ n.type[c].init[1] = 0}

\* removeConstDuplicates keeps the last constant 0; constants 1 it only counts.  Of
\* the pairs deDuplicate goes through those are left out whose type it refuses.
Work(n, p) ==
  CASE p = "passthroughs" -> {<<c, c>> : c \in OfType(n, "PASSTHROUGH")}
    [] p = "zexts"  -> {<<c, c>> : c \in {z \in OfType(n, "ZEXT") : n.type[z].inWidth = n.type[z].width}}
    [] p = "zeros"  -> {w \in Zeros(n) \X Zeros(n) : w[2] < w[1] /\ \A z \in Zeros(n) : z <= w[1]}
    [] p = "duplicates" -> {w \in Cells(n) \X Cells(n) : w[1] < w[2] /\ Tp(n, w[1]) = Tp(n, w[2])
                                                             /\ Tp(n, w[1]) \in Binop}
    [] OTHER -> {}

Begin(p) ==
  /\ pass \in {"none", "dead deleted"}
  /\ pass' = p
  /\ todo' = Work(def, p)
  /\ UNCHANGED <<def, orig>>

End ==
  /\ pass \in {"passthroughs", "zexts", "zeros", "duplicates"} /\ todo = {}
  /\ pass' = "none"
  /\ UNCHANGED <<def, todo, orig>>

FirstPair == CHOOSE w \in todo : \A u \in todo : w[1] < u[1] \/ (w[1] = u[1] /\ w[2] <= u[2])

\* fault: the receivers are cleared before they are moved
BypassClearsFirst(n, c, with) == MoveReceivers(ClearReceivers(n, c, "OUT"), c, "OUT", with)

\* The receivers of cell c are given other drivers, and its list is emptied.
Bypass(n, c, with) == ClearReceivers(MoveReceivers(n, c, "OUT", with), c, "OUT")

\* elidePort, of a cell that passes its input on.
Elide ==
  /\ pass \in {"passthroughs", "zexts"} /\ todo # {}
  /\ LET c == FirstPair[2]
     IN  def' = Bypass(def, c, [o \in Offset |-> def.drivers[[cell |-> c, port |-> "IN", offset |-> o]]])
  /\ todo' = todo \ {FirstPair}
  /\ UNCHANGED <<pass, orig>>

MergeZeros ==
  /\ pass = "zeros" /\ todo # {}
  /\ def' = Bypass(def, FirstPair[2], Bus(FirstPair[1], "OUT"))
  /\ todo' = todo \ {FirstPair}
  /\ UNCHANGED <<pass, orig>>

\* driversMatch, of both inputs of two gates of one type.
SameDrivers(n, a, b, p) == n.drivers[PinOf(a, p)] = n.drivers[PinOf(b, p)]

\* fault: the second input is not compared
DuplicatesByFirst(n, a, b) ==
  /\ {a, b} \subseteq Cells(n) /\ Tp(n, a) = Tp(n, b) /\ Tp(n, a) \in Binop
  /\ SameDrivers(n, a, b, "IN0")

Duplicates(n, a, b) ==
  /\ {a, b} \subseteq Cells(n) /\ Tp(n, a) = Tp(n, b) /\ Tp(n, a) \in Binop
  /\ SameDrivers(n, a, b, "IN0") /\ SameDrivers(n, a, b, "IN1")

\* A cell deleted for an earlier pair is skipped.
DeDuplicate ==
  /\ pass = "duplicates" /\ todo # {}
  /\ LET a == FirstPair[1]
         b == FirstPair[2]
     IN  def' = IF Duplicates(def, a, b)
                THEN DeleteCell(MoveReceivers(def, b, "OUT", Bus(a, "OUT")), b) ELSE def
  /\ todo' = todo \ {FirstPair}
  /\ UNCHANGED <<pass, orig>>

-----------------------------------------------------------------------------
(* deleteDeadInstances: cells without receivers until there are none, then   *)
(* what is connected to no port, then what reaches no output port.           *)

OutputPorts(n) == OfType(n, "PORT") \ Inputs(n)

CellReceivers(n, c) == {r.cell : r \in OutReceivers(n, c)}
CellDrivers(n, c)   == {n.drivers[r].cell : r \in CellIns(n, c)}

\* innerCellsWithNoReceivers
NoReceivers(n) ==
  {c \in Cells(n) \ n.portCells : CellOuts(n, c) # {} /\ CellReceivers(n, c) = {}}

\* The cells that can be reached from those of S, a step at a time from a cell c to those
\* of along[c].
Reached(S, along) ==
  LET within[k \in 0 .. MaxId] ==
        IF k = 0 THEN S
        ELSE LET near == within[k - 1] IN near \cup UNION {along[c] : c \in near}
  IN  within[MaxId]

Neighbours(n) == [c \in CellId |-> (CellDrivers(n, c) \cup CellReceivers(n, c)) \cap Cells(n)]
Sources(n)    == [c \in CellId |-> {s \in Cells(n) : c \in CellReceivers(n, s)}]

\* isolatedCells
Isolated(n) == Cells(n) \ Reached(n.portCells, Neighbours(n))

\* fault: whatever is connected to an output port is kept
ReachingOutputsAnyhow(n) == Reached(OutputPorts(n), Neighbours(n))

\* connectedToOutputs
ReachingOutputs(n) == Reached(OutputPorts(n), Sources(n))

DeleteUnreceived ==
  /\ pass = "dead"
  /\ IF NoReceivers(def) # {}
     THEN def' = BulkDelete(def, NoReceivers(def)) /\ UNCHANGED pass
     ELSE pass' = "isolated" /\ UNCHANGED def
  /\ UNCHANGED <<todo, orig>>

\* It then asserts that no cell without receivers is left over.
DeleteIsolated ==
  /\ pass = "isolated"
  /\ def' = BulkDelete(def, Isolated(def))
  /\ pass' = IF NoReceivers(def') = {} THEN "unreached" ELSE "left over"
  /\ UNCHANGED <<todo, orig>>

DeleteUnreached ==
  /\ pass = "unreached"
  /\ def' = BulkDelete(def, Cells(def) \ (ReachingOutputs(def) \cup def.portCells))
  /\ pass' = "dead deleted"
  /\ UNCHANGED <<todo, orig>>

Turn == Elide \/ MergeZeros \/ DeDuplicate \/ End
          \/ DeleteUnreceived \/ DeleteIsolated \/ DeleteUnreached

Next ==
  \/ \E p \in {"passthroughs", "zexts", "zeros", "duplicates", "dead"} : Begin(p)
  \/ Turn

Spec == Init /\ [][Next]_vars

\* The definitions the properties are about: without combinational cycles, and addPort is
\* all that enters a cell among the port cells.
PortsAreMarked(n) == \A c \in n.portCells : Tp(n, c) = "PORT"

Removable == \A n \in Circuits : Acyclic(n) /\ PortsAreMarked(n)

-----------------------------------------------------------------------------
\* The definition stays well formed, both ends of every wire in agreement, at every
\* step of every transformation.
TypeOK ==
  /\ WellFormed(def)
  /\ todo \subseteq CellId \X CellId
  /\ pass \in {"none", "passthroughs", "zexts", "zeros", "duplicates", "dead", "isolated",
               "unreached", "dead deleted", "left over"}

\* What a definition is for: no transformation takes a driver away from a cell it leaves,
\* and under all inputs and register states every input of every cell that is left reads
\* what it reads in the original definition.  (Memories hold unknown values.)
SameFunction ==
  /\ FullyDriven(def)
  /\ \A in \in [Inputs(orig) -> Val], r \in [Registers(orig) -> Val] :
       LET none   == [c \in CellId |-> [a \in Addr |-> X]]
           before == Wires(orig, in, r, none)
           after  == Wires(def, in, r, none)
       IN  \A b \in InBits(def) :
             after[def.drivers[b].cell] = before[orig.drivers[b].cell]

\* Once dead cells are deleted every cell that is left matters to an output port.
NothingDeadIsLeft ==
  pass = "dead deleted" =>
    \A c \in Cells(def) \ def.portCells : \E o \in OutputPorts(def) :
      c \in Reached({o}, [x \in CellId |-> CellDrivers(def, x)])
=============================================================================
