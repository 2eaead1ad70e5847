------------------------------ MODULE Circuit ------------------------------
(***************************************************************************)
(* A CellDefinition under edit: a client, a front end or a transformation  *)
(* adds cells and ports, wires them, deletes them and ties outputs to      *)
(* constants, in any order, through the public operations of the class.    *)
(* A failed assertion ends the program: status records it.                 *)
(***************************************************************************)
EXTENDS Netlist

VARIABLES
  def,      \* the definition being edited
  status    \* "running", or the assertion that stopped the program

vars == <<def, status>>

Init == def = EmptyNet /\ status = "running"

Running == status = "running"

Stop(why) == status' = why /\ UNCHANGED def

\* addCell, under a name the client has not used.
AddCellOp(k) ==
  /\ Running /\ def.next <= MaxId /\ k.tp # "PORT"
  /\ def' = AddCell(def, k)
  /\ UNCHANGED status

AddPortOp(k) ==
  /\ Running /\ def.next <= MaxId /\ k.tp = "PORT"
  /\ def' = AddPort(def, k)
  /\ UNCHANGED status

\* setDriver(r, f[r]) for every r in R: the assertions are those of the lists it updates.
SetDriversOrStop(R, f) ==
  IF SetDriversAborts(def, R, f) THEN Stop("dangling")
  ELSE def' = SetDrivers(def, R, f) /\ UNCHANGED status

SetDriverOp(r, d) ==
  /\ Running
  /\ SetDriversOrStop({r}, [b \in {r} |-> d])

\* connect asserts equal widths and wires the ports bit by bit.
\* (One bit wide it is setDriver, an action of its own.)
Connect(dc, dp, rc, rp) ==
  LET dw == Width(def.type[dc], dp)
      R  == {r \in CellIns(def, rc) : r.port = rp}
  IN  /\ Running
      /\ dw > 1 /\ dw = Width(def.type[rc], rp)
      /\ SetDriversOrStop(R, [r \in R |-> Bus(dc, dp)[r.offset]])

DeleteCellOp(c) ==
  /\ Running /\ c \in Cells(def) \ def.portCells
  /\ IF MissingDriver(def, c)         THEN Stop("undriven")
     ELSE IF DeleteCellAborts(def, c) THEN Stop("dangling")
     ELSE def' = DeleteCell(def, c) /\ UNCHANGED status

BulkDeleteOp(S) ==
  /\ Running /\ S # {}
  /\ def' = BulkDelete(def, S)
  /\ UNCHANGED status

ReplaceCellPortWithConstant(c, p, k) ==
  /\ Running /\ def.next <= MaxId
  /\ k.tp = "CONST" /\ k.width = Width(def.type[c], p)
  /\ IF NameTaken(def, c, p)                         THEN Stop("name taken")
     ELSE IF ReplaceWithConstantAborts(def, c, p, k) THEN Stop("dangling")
     ELSE def' = ReplaceWithConstant(def, c, p, k) /\ UNCHANGED status

Next ==
  \/ \E k \in Kind : AddCellOp(k) \/ AddPortOp(k)
  \/ \E r \in InBits(def), d \in OutBits(def) : SetDriverOp(r, d)
  \/ \E dc, rc \in Cells(def), dp \in OutPort, rp \in InPort : Connect(dc, dp, rc, rp)
  \/ \E c \in CellId : DeleteCellOp(c)
  \/ \E S \in SUBSET (Cells(def) \ def.portCells) : BulkDeleteOp(S)
  \/ \E c \in Cells(def), p \in OutPort, k \in Kind : ReplaceCellPortWithConstant(c, p, k)

Spec == Init /\ [][Next]_vars

-----------------------------------------------------------------------------
Status == {"running", "undriven", "dangling", "name taken"}

\* The definition and the status have their types, identifiers not handed out
\* yet name no cell, and port cells are cells.
TypeOK == def \in Net /\ status \in Status /\ CellsNumbered(def)

\* The two ends of every wire agree: r is among the receivers of d exactly
\* when d is the driver of r.  Every editing operation (setDriver, deleteCell,
\* bulkDelete, replaceCellPortWithConstant) updates the two ends separately.
EndsAgree == EndsAgreeIn(def)

\* No wire leads to a bit that does not exist: an existing driver is an output
\* bit of a cell of the definition and a receiver an input bit of one, whatever
\* was deleted, replaced or rewired before.
NoDanglingWire == WiresExistIn(def)

\* No operation ever meets a dangling wire, so none of the assertions of setDriver (that
\* prior and new driver have the bit), of deleteCell and of replaceCellPortWithConstant
\* fails because of an earlier edit.
NeverDangling == status # "dangling"

\* An input bit of a surviving cell loses its driver only because the driving
\* cell is deleted: no edit disconnects a bit as a side effect.
LosesDriverOnlyToDeletion ==
  [][\A r \in InBits(def) :
        /\ def.drivers[r] # NoBit
        /\ r.cell \in Cells(def)'
        /\ def'.drivers[r] = NoBit
        => def.drivers[r].cell \notin Cells(def')]_vars

\* Tying an output port to a constant leaves nothing behind that still reads the
\* port: all it drove is driven by the new constant from then on.
ReplacedPortIsLeftAlone ==
  [][\A c \in Cells(def), p \in OutPort :
        <<c, p>> \in def'.constNames \ def.constNames
        => /\ Receivers(def', c, p) = {}
           /\ \A r \in Receivers(def, c, p) : def'.drivers[r].cell = def.next]_vars

\* The test definitionIsConsistent makes is never the one to stop the program on
\* a definition whose inputs are all driven.
ConsistencyCheckPasses == FullyDriven(def) => DefinitionIsConsistent(def)

=============================================================================
