------------------------------ MODULE Netlist ------------------------------
(***************************************************************************)
(* The netlist of SpecCircuit: the class CellDefinition of src/circuit.h   *)
(* and the Cells it holds, as a value and as pure operators on that value. *)
(* Every cell stores the driver of each bit of its input ports and the set *)
(* of receivers of each bit of its output ports, so one wire is recorded   *)
(* twice, at its two ends.  An operator below returns the netlist one call *)
(* leaves behind; <Op>Aborts says when an assertion of the code stops that *)
(* call instead.                                                           *)
(***************************************************************************)
EXTENDS Integers, FiniteSets

CONSTANTS
  Kind,      \* the cell types, with their parameters, a definition may use
  MaxId,     \* bound: cell identifiers handed out by one definition
  MaxWidth   \* bound: width of the widest port

ASSUME NetlistAssumption ==
  /\ MaxId \in Nat
  /\ MaxWidth \in Nat \ {0}
  /\ [tp |-> "NONE"] \notin Kind

CellId == 1 .. MaxId
Offset == 0 .. MaxWidth - 1

NoType == [tp |-> "NONE"]     \* of an identifier that names no cell

-----------------------------------------------------------------------------
(* The ports the constructor of Cell gives a cell of kind k, with widths.  *)

Comparator == {"EQ", "NEQ", "ULT", "ULE", "UGT", "UGE"}
Binop      == Comparator \cup {"AND", "OR", "XOR", "ADD", "SUB", "MUL",
                               "SHL", "LSHR", "ASHR"}
ReduceOp   == {"ORR", "ANDR", "XORR"}
Unop       == ReduceOp \cup {"NOT", "PASSTHROUGH"}

PortWidths(k) ==
  CASE k.tp = "PORT"  -> IF k.dir = "in" THEN [OUT |-> k.width]
                                         ELSE [IN |-> k.width]
    [] k.tp = "CONST" -> [OUT |-> k.width]
    [] k.tp \in Comparator -> [IN0 |-> k.width, IN1 |-> k.width, OUT |-> 1]
    [] k.tp \in Binop \ Comparator ->
         [IN0 |-> k.width, IN1 |-> k.width, OUT |-> k.width]
    [] k.tp \in ReduceOp -> [IN |-> k.width, OUT |-> 1]
    [] k.tp \in Unop \ ReduceOp -> [IN |-> k.width, OUT |-> k.width]
    [] k.tp = "MUX" ->
         [IN0 |-> k.width, IN1 |-> k.width, SEL |-> 1, OUT |-> k.width]
    [] k.tp = "ZEXT"  -> [IN |-> k.inWidth, OUT |-> k.width]
    [] k.tp = "SLICE" -> [IN |-> k.width, OUT |-> k.hi - k.lo]
    [] k.tp = "REG"   -> [IN |-> k.width, CLK |-> 1, OUT |-> k.width]
    [] k.tp = "REG_ARST" ->
         [IN |-> k.width, CLK |-> 1, ARST |-> 1, OUT |-> k.width]
    [] k.tp = "MEM" ->
         [RADDR |-> k.addr, WADDR |-> k.addr, WDATA |-> k.width,
          WEN |-> 1, CLK |-> 1, RDATA |-> k.width]

Width(k, p) == IF k # NoType /\ p \in DOMAIN PortWidths(k) THEN PortWidths(k)[p] ELSE 0

-----------------------------------------------------------------------------
(* The ports the cells of those kinds have, and their bits (SignalBit).     *)
(* Cell 0 is reserved: a bit of cell 0 means "no bit".                      *)

Port    == UNION {DOMAIN PortWidths(k) : k \in Kind}
InPort  == Port \cap {"IN", "IN0", "IN1", "SEL", "CLK", "ARST",
                      "RADDR", "WADDR", "WDATA", "WEN"}
OutPort == Port \cap {"OUT", "RDATA"}

Bit   == [cell : CellId, port : Port, offset : Offset]
NoBit == [cell |-> 0, port |-> "IN", offset |-> 0]

-----------------------------------------------------------------------------
(* The definition.  type, drivers and receivers are total: an identifier   *)
(* without a cell has no type, and a bit that does not exist no driver and *)
(* no receivers.  constNames are the names given by                        *)
(* replaceCellPortWithConstant; a name is never forgotten.                 *)

Net == [type       : [CellId -> Kind \cup {NoType}],
        drivers    : [Bit -> Bit \cup {NoBit}],
        receivers  : [Bit -> SUBSET Bit],
        next       : 1 .. MaxId + 1,
        portCells  : SUBSET CellId,
        constNames : SUBSET (CellId \X OutPort)]

EmptyNet == [type       |-> [c \in CellId |-> NoType],
             drivers    |-> [b \in Bit |-> NoBit],
             receivers  |-> [b \in Bit |-> {}],
             next       |-> 1,
             portCells  |-> {},
             constNames |-> {}]

Cells(n) == {c \in CellId : n.type[c] # NoType}

InBits(n)  == {b \in Bit : b.port \in InPort  /\ b.offset < Width(n.type[b.cell], b.port)}
OutBits(n) == {b \in Bit : b.port \in OutPort /\ b.offset < Width(n.type[b.cell], b.port)}

CellIns(n, c)  == {b \in InBits(n)  : b.cell = c}
CellOuts(n, c) == {b \in OutBits(n) : b.cell = c}
PortOuts(n, c, p) == {b \in OutBits(n) : b.cell = c /\ b.port = p}

(* Properties of a definition that its operations are to maintain: the two  *)
(* ends of every wire agree, and both exist.                                *)

EndsAgreeIn(n) == \A r, d \in Bit : r \in n.receivers[d] <=> n.drivers[r] = d

WiresExistIn(n) ==
  /\ \A r \in Bit : n.drivers[r] # NoBit => r \in InBits(n) /\ n.drivers[r] \in OutBits(n)
  /\ \A d \in Bit : n.receivers[d] # {} => d \in OutBits(n) /\ n.receivers[d] \subseteq InBits(n)

CellsNumbered(n) ==
  /\ \A c \in CellId : c >= n.next => n.type[c] = NoType
  /\ n.portCells \subseteq Cells(n)

WellFormed(n) == n \in Net /\ CellsNumbered(n) /\ EndsAgreeIn(n) /\ WiresExistIn(n)

FullyDriven(n) == \A r \in InBits(n) : n.drivers[r] # NoBit

-----------------------------------------------------------------------------
(* addCell and addPort.  A new cell is not connected to anything.          *)

AddCellKeepsNext(n, k) == [n EXCEPT !.type[n.next] = k]   \* fault: next kept

AddCell(n, k) == [n EXCEPT !.type[n.next] = k, !.next = n.next + 1]

AddPort(n, k) ==
  [AddCell(n, k) EXCEPT !.portCells = n.portCells \cup {n.next}]

(* setDriver(r, f[r]) for every r in R, in any order: each call takes r out *)
(* of the receivers of its prior driver and enters it with the new one.     *)

\* fault: the prior driver keeps its receiver
SetDriversKeepsOld(n, R, f) ==
  [n EXCEPT !.drivers   = [b \in Bit |-> IF b \in R THEN f[b] ELSE n.drivers[b]],
            !.receivers = [b \in Bit |-> n.receivers[b] \cup {r \in R : f[r] = b}]]

SetDrivers(n, R, f) ==
  [n EXCEPT
     !.drivers   = [b \in Bit |-> IF b \in R THEN f[b] ELSE n.drivers[b]],
     !.receivers = [b \in Bit |->
                      (n.receivers[b] \ {r \in R : n.drivers[r] = b})
                        \cup {r \in R : f[r] = b}]]

SetDriver(n, r, d) == SetDrivers(n, {r}, [b \in {r} |-> d])

SetDriversAborts(n, R, f) ==
  \E r \in R : \/ r \notin InBits(n)
              \/ n.drivers[r] \notin OutBits(n) \cup {NoBit}
              \/ f[r] \notin OutBits(n)

(* deleteCell: unhook the cell from its drivers and from its receivers.     *)
(* getCellRef asserts that the cell exists before notEmpty is asked, so an  *)
(* input without a driver stops the program.                                *)

\* fault: unhooks all that the drivers of the cell drive
DeleteCellUnhooksAll(n, c) ==
  [n EXCEPT
     !.type[c]   = NoType,
     !.drivers   = [b \in Bit |->
                      IF b.cell = c \/ n.drivers[b].cell = c
                         \/ \E r \in CellIns(n, c) : n.drivers[b] = n.drivers[r]
                      THEN NoBit ELSE n.drivers[b]],
     !.receivers = [b \in Bit |->
                      IF b.cell = c \/ \E r \in CellIns(n, c) : n.drivers[r] = b
                      THEN {} ELSE n.receivers[b]]]

DeleteCell(n, c) ==
  [n EXCEPT
     !.type[c]   = NoType,
     !.drivers   = [b \in Bit |->
                      IF b.cell = c \/ \E d \in CellOuts(n, c) : b \in n.receivers[d]
                      THEN NoBit ELSE n.drivers[b]],
     !.receivers = [b \in Bit |->
                      IF b.cell = c THEN {}
                      ELSE n.receivers[b] \ {r \in CellIns(n, c) : n.drivers[r] = b}]]

\* The ports are unhooked in the order of their numbers: an input after the output that
\* drives it has no driver left, and getCellRef asserts.
UnhookedFirst(d, r) ==
  /\ d.cell = r.cell
  /\ \/ d.port = "OUT"   /\ r.port \in {"SEL", "CLK", "ARST"}
     \/ d.port = "RDATA" /\ r.port \in {"WADDR", "WDATA", "WEN"}

MissingDriver(n, c) ==
  \E r \in CellIns(n, c) : n.drivers[r] = NoBit \/ UnhookedFirst(n.drivers[r], r)

DeleteCellAborts(n, c) ==
  \/ c \in n.portCells
  \/ MissingDriver(n, c)
  \/ \E r \in CellIns(n, c)  : n.drivers[r] \notin OutBits(n)
  \/ \E d \in CellOuts(n, c) : ~(n.receivers[d] \subseteq InBits(n))

(* bulkDelete: erase the cells first, then sweep every surviving cell for   *)
(* drivers and receivers that no longer exist.                              *)

\* faults: only one end of the wires is swept
BulkDeleteKeepsReceivers(n, S) ==
  LET live == Cells(n) \ S
  IN  [n EXCEPT
         !.type      = [c \in CellId |-> IF c \in S THEN NoType ELSE n.type[c]],
         !.drivers   = [b \in Bit |-> IF b.cell \in live /\ n.drivers[b].cell \in live
                                     THEN n.drivers[b] ELSE NoBit],
         !.receivers = [b \in Bit |-> IF b.cell \in live THEN n.receivers[b] ELSE {}]]

BulkDeleteKeepsDrivers(n, S) ==
  LET live == Cells(n) \ S
  IN  [n EXCEPT
         !.type      = [c \in CellId |-> IF c \in S THEN NoType ELSE n.type[c]],
         !.drivers   = [b \in Bit |-> IF b.cell \in live THEN n.drivers[b] ELSE NoBit],
         !.receivers = [b \in Bit |-> IF b.cell \in live
                                     THEN {r \in n.receivers[b] : r.cell \in live} ELSE {}]]

BulkDelete(n, S) ==
  LET live == Cells(n) \ S
  IN  [n EXCEPT
         !.type      = [c \in CellId |-> IF c \in S THEN NoType ELSE n.type[c]],
         !.drivers   = [b \in Bit |-> IF b.cell \in live /\ n.drivers[b].cell \in live
                                     THEN n.drivers[b] ELSE NoBit],
         !.receivers = [b \in Bit |-> IF b.cell \in live
                                     THEN {r \in n.receivers[b] : r.cell \in live}
                                     ELSE {}]]

BulkDeleteAborts(n, S) == S \cap n.portCells # {}

(* The receivers of output port p of cell c, bit by bit, become receivers   *)
(* of the bits with[0], with[1], ... : the loop replaceCellPortWithConstant,*)
(* elidePort, removeConstDuplicates, deDuplicate and the mux case of        *)
(* foldConstants share.  (A bit received at two offsets ends at the later.) *)

Receivers(n, c, p) == UNION {n.receivers[d] : d \in PortOuts(n, c, p)}

Moved(n, c, p, with) ==
  [r \in Receivers(n, c, p) |->
     LET at == {d.offset : d \in {x \in PortOuts(n, c, p) : r \in n.receivers[x]}}
     IN  with[CHOOSE o \in at : \A q \in at : q <= o]]

MoveReceivers(n, c, p, with) ==
  SetDrivers(n, Receivers(n, c, p), Moved(n, c, p, with))

MoveReceiversAborts(n, c, p, with) ==
  SetDriversAborts(n, Receivers(n, c, p), Moved(n, c, p, with))

ClearReceivers(n, c, p) ==
  [n EXCEPT !.receivers = [b \in Bit |-> IF b.cell = c /\ b.port = p THEN {}
                                        ELSE n.receivers[b]]]

Bus(c, p) == [o \in Offset |-> [cell |-> c, port |-> p, offset |-> o]]

(* replaceCellPortWithConstant: the constant's name is made of the cell and *)
(* the port, and addCell asserts that it is new.                            *)

\* fault: the receivers are cleared before they are moved
ReplaceClearsFirst(n, c, p, k) ==
  LET added == AddCell([n EXCEPT !.constNames = @ \cup {<<c, p>>}], k)
  IN  MoveReceivers(ClearReceivers(added, c, p), c, p, Bus(n.next, "OUT"))

ReplaceWithConstant(n, c, p, k) ==
  LET added == AddCell([n EXCEPT !.constNames = @ \cup {<<c, p>>}], k)
  IN  ClearReceivers(MoveReceivers(added, c, p, Bus(n.next, "OUT")), c, p)

NameTaken(n, c, p) == <<c, p>> \in n.constNames
ReplaceWithConstantAborts(n, c, p, k) ==
  \/ NameTaken(n, c, p)
  \/ MoveReceiversAborts(AddCell(n, k), c, p, Bus(n.next, "OUT"))

(* What definitionIsConsistent asserts: both ends of every wire exist, and  *)
(* no bit is twice among the receivers of one cell.                         *)

DefinitionIsConsistent(n) ==
  /\ \A r \in InBits(n)  : n.drivers[r].cell \in Cells(n)
  /\ \A d \in OutBits(n) : \A r \in n.receivers[d] : r.cell \in Cells(n)
  /\ \A d, e \in OutBits(n) :
        d.cell = e.cell /\ d # e => n.receivers[d] \cap n.receivers[e] = {}
=============================================================================
