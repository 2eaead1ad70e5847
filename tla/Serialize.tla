----------------------------- MODULE Serialize -----------------------------
(***************************************************************************)
(* saveToFile and loadFromFile: a definition as a text file, and back.  The *)
(* file names cells where the definition has identifiers, and loading hands *)
(* out new identifiers: to the ports first, in the order of their names,    *)
(* then to the other cells in the order of the file.                        *)
(* A line of the file is a record.  The name of a cell is its identifier in *)
(* the definition that was saved.  Types and parameters come back as they   *)
(* were: every parameter is written bit by bit, unknown bits included.      *)
(***************************************************************************)
EXTENDS Circuit, Ordering, Sequences, Functions

\* The bits of a port are the entries of a vector: its width is a natural number.
ASSUME SerializeAssumption ==
  \A k \in Kind : \A p \in DOMAIN PortWidths(k) : PortWidths(k)[p] \in Nat

InPortsOf(n, c) == {r.port : r \in CellIns(n, c)}
PortIns(n, c, p) == {r \in CellIns(n, c) : r.port = p}

\* fault: a bus put together from two cells passes for one
IsBulkAcrossCells(n, c, p) ==
  \A r, s \in PortIns(n, c, p) :
    n.drivers[r].offset = r.offset /\ n.drivers[r].port = n.drivers[s].port

\* The bits of the port are the first bits, in order, of one output port.
IsBulkConnection(n, c, p) ==
  \A r, s \in PortIns(n, c, p) :
    /\ n.drivers[r].offset = r.offset
    /\ n.drivers[r].port = n.drivers[s].port
    /\ n.drivers[r].cell = n.drivers[s].cell

\* What is written of an input port: one driver for all bits, or one for each.
DriverLine(n, c, p) ==
  LET bulk == IsBulkConnection(n, c, p) /\ Width(n.type[c], p) > 1
  IN  [bulk |-> bulk,
       from |-> [o \in IF bulk THEN {0} ELSE 0 .. Width(n.type[c], p) - 1 |->
                   n.drivers[[cell |-> c, port |-> p, offset |-> o]]]]

\* names: the port cells, in the order of their names.
Save(n, names) ==
  LET CellLine(c) == [name |-> c, kind |-> n.type[c],
                      drivers |-> [p \in InPortsOf(n, c) |-> DriverLine(n, c, p)]]
      PortLine(c) == [name |-> c, kind |-> n.type[c]]
      inOrder     == InOrderOf(Cells(n), <)
  IN  [ports |-> [i \in DOMAIN names |-> PortLine(names[i])],
       cells |-> [i \in DOMAIN inOrder |-> CellLine(inOrder[i])]]

\* getCellName asserts that the driver of every bit it writes has a name.
SaveAborts(n) == \E r \in InBits(n) : n.drivers[r] = NoBit

-----------------------------------------------------------------------------
\* Port cells have been made by the time their lines come.
Unported(line) == line.kind.tp # "PORT"

\* The lines that make a cell, in the order in which they do.
CellLines(file) ==
  LET unported == InOrderOf({i \in DOMAIN file.cells : Unported(file.cells[i])}, <)
  IN  file.ports \o [i \in DOMAIN unported |-> file.cells[unported[i]]]

\* cellNames: the identifier of a cell is the place of the line that makes it.
NewIds(file) ==
  LET made == CellLines(file)
  IN  [name \in {line.name : line \in Range(made)} |->
         CHOOSE i \in DOMAIN made : made[i].name = name]

Declare(n, line) == IF Unported(line) THEN AddCell(n, line.kind) ELSE AddPort(n, line.kind)

\* The bit the file gives for bit o of a port.
LoadedDriver(ids, line, o) ==
  LET d == IF line.bulk THEN [line.from[0] EXCEPT !.offset = o] ELSE line.from[o]
  IN  [d EXCEPT !.cell = ids[d.cell]]

Declared(file) ==
  LET made == CellLines(file)
      after[i \in 0 .. Len(made)] == IF i = 0 THEN EmptyNet ELSE Declare(after[i - 1], made[i])
  IN  after[Len(made)]

Load(file) ==
  LET declared == Declared(file)
      ids      == NewIds(file)
      lines    == [c \in Range(ids) |-> CHOOSE line \in Range(file.cells) : ids[line.name] = c]
      wired    == InBits(declared)
  IN  SetDrivers(declared, wired,
                 [r \in wired |-> LoadedDriver(ids, lines[r.cell].drivers[r.port], r.offset)])

-----------------------------------------------------------------------------
\* A definition that is saved and loaded is the same circuit under other identifiers,
\* whatever its history and however its ports are named: the same types, every input
\* driven by the same bit of the same cell, the two ends of every wire in agreement.
LoadedIsSaved ==
  Running /\ ~SaveAborts(def) =>
    \A names \in Bijection(1 .. Cardinality(def.portCells), def.portCells) :
      LET new == Load(Save(def, names))
          ids == NewIds(Save(def, names))
          As(b) == [b EXCEPT !.cell = ids[b.cell]]
      IN  /\ Cells(new) = {ids[c] : c \in Cells(def)}
          /\ new.portCells = {ids[c] : c \in def.portCells}
          /\ \A c \in Cells(def) : new.type[ids[c]] = def.type[c]
          /\ \A r \in InBits(def) : new.drivers[As(r)] = As(def.drivers[r])
          /\ EndsAgreeIn(new) /\ WiresExistIn(new)
=============================================================================
