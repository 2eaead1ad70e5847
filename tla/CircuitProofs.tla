--------------------------- MODULE CircuitProofs ---------------------------
(***************************************************************************)
(* The editing operations of CellDefinition, for every cell library and    *)
(* every number of cells: both ends of every wire agree and exist after    *)
(* any sequence of edits, so that no edit fails because of an earlier one, *)
(* and a definition that is saved and loaded is the same circuit.          *)
(***************************************************************************)
EXTENDS Serialize, NetlistProofs, SequenceTheorems

(* The inductive invariant.  Neither end of the wires is inductive alone:   *)
(* deleteCell finds what to unhook through the other end.                   *)
IInv == WellFormed(def) /\ status \in Status \ {"dangling"}

LEMMA InitIInv == Init => IInv
BY EmptyNetWellFormed DEF Init, IInv, Status

LEMMA AddCellStep ==
  ASSUME IInv, NEW k \in Kind, AddCellOp(k)
  PROVE  IInv'
BY AddCellWellFormed DEF AddCellOp, IInv

\* addPort: the new cell is entered among the port cells.
LEMMA AddPortStep ==
  ASSUME IInv, NEW k \in Kind, AddPortOp(k)
  PROVE  IInv'
<1> DEFINE a == AddCell(def, k)
           m == AddPort(def, k)
<1>1. WellFormed(a) /\ def \in Net /\ def.next \in CellId
  BY AddCellWellFormed, NetFields, NetlistAssumption DEF AddPortOp, IInv, WellFormed, CellId
<1>2. a.type = [def.type EXCEPT ![def.next] = k] /\ a.portCells = def.portCells
  BY <1>1, NetFields DEF AddCell
<1>3. /\ m.type = a.type /\ m.drivers = a.drivers /\ m.receivers = a.receivers
      /\ m.next = a.next /\ m.constNames = a.constNames
      /\ m.portCells = def.portCells \cup {def.next}
      /\ m \in Net
  <2>1. a \in Net /\ m = [a EXCEPT !.portCells = def.portCells \cup {def.next}]
    BY <1>1 DEF WellFormed, AddPort
  <2>2. def.portCells \cup {def.next} \in SUBSET CellId
    BY <1>1, NetFields
  <2> HIDE DEF a, m
  <2> QED BY <2>1, <2>2, NetFields DEF Net
<1>4. InBits(m) = InBits(a) /\ OutBits(m) = OutBits(a) /\ Cells(m) = Cells(a)
  BY <1>3, SameTypeSameBits
<1>5. def.next \in Cells(a)
  BY <1>1, <1>2, NetFields, NetlistAssumption DEF Cells, NoType
<1>6. WellFormed(m)
  <2> HIDE DEF a, m
  <2> QED BY <1>1, <1>2, <1>3, <1>4, <1>5
          DEF WellFormed, CellsNumbered, EndsAgreeIn, WiresExistIn
<1> QED BY <1>6 DEF AddPortOp, IInv

\* Rewiring finds the bits it updates.
LEMMA SetDriversSafely ==
  ASSUME NEW n, WellFormed(n), NEW R \in SUBSET InBits(n), NEW f, \A r \in R : f[r] \in OutBits(n)
  PROVE  WellFormed(SetDrivers(n, R, f)) /\ ~SetDriversAborts(n, R, f)
<1>1. WellFormed(SetDrivers(n, R, f))
  BY SetDriversWellFormed
<1>2. \A r \in R : r \in Bit /\ (n.drivers[r] = NoBit \/ n.drivers[r] \in OutBits(n))
  BY DEF InBits, WellFormed, WiresExistIn
<1> QED BY <1>1, <1>2 DEF SetDriversAborts

LEMMA SetDriverStep ==
  ASSUME IInv, NEW r \in InBits(def), NEW d \in OutBits(def), SetDriverOp(r, d)
  PROVE  IInv'
<1> DEFINE f == [b \in {r} |-> d]
<1>1. WellFormed(SetDrivers(def, {r}, f)) /\ ~SetDriversAborts(def, {r}, f)
  BY SetDriversSafely DEF IInv
<1>2. SetDriversOrStop({r}, f)
  BY DEF SetDriverOp
<1> HIDE DEF f
<1> QED BY <1>1, <1>2 DEF SetDriversOrStop, IInv

LEMMA ConnectStep ==
  ASSUME IInv, NEW dc \in Cells(def), NEW dp \in OutPort,
         NEW rc \in Cells(def), NEW rp \in InPort, Connect(dc, dp, rc, rp)
  PROVE  IInv'
<1> DEFINE R == {r \in CellIns(def, rc) : r.port = rp}
           f == [r \in R |-> Bus(dc, dp)[r.offset]]
<1>1. SetDriversOrStop(R, f) /\ Width(def.type[dc], dp) = Width(def.type[rc], rp)
  BY DEF Connect
<1>2. R \in SUBSET InBits(def)
  BY DEF CellIns
<1>3. ASSUME NEW r \in R
      PROVE  f[r] \in OutBits(def)
  <2>1. r.offset \in Offset /\ r.offset < Width(def.type[rc], rp)
    BY <1>3 DEF CellIns, InBits, Bit
  <2> QED BY <1>1, <2>1 DEF Bus, OutBits, OutPort, Bit, Cells
<1> HIDE DEF R, f
<1>4. WellFormed(SetDrivers(def, R, f)) /\ ~SetDriversAborts(def, R, f)
  BY <1>2, <1>3, SetDriversSafely DEF IInv
<1> QED BY <1>1, <1>4 DEF SetDriversOrStop, IInv

\* deleteCell: what it unhooks exists, so only a missing driver can stop it.
LEMMA DeleteCellStep ==
  ASSUME IInv, NEW c \in CellId, DeleteCellOp(c)
  PROVE  IInv'
<1>1. c \in Cells(def) \ def.portCells /\ def \in Net
  BY DEF DeleteCellOp, IInv, WellFormed
<1>2. WellFormed(DeleteCell(def, c))
  BY <1>1, DeleteCellWellFormed DEF IInv
<1>3. ~MissingDriver(def, c) => ~DeleteCellAborts(def, c)
  BY <1>1, NetFields
     DEF IInv, WellFormed, WiresExistIn, DeleteCellAborts, MissingDriver,
         CellIns, CellOuts, InBits, OutBits
<1> QED BY <1>2, <1>3 DEF DeleteCellOp, IInv, Stop, Status

LEMMA BulkDeleteStep ==
  ASSUME IInv, NEW S \in SUBSET (Cells(def) \ def.portCells), BulkDeleteOp(S)
  PROVE  IInv'
BY BulkDeleteWellFormed DEF BulkDeleteOp, IInv

LEMMA ReplaceStep ==
  ASSUME IInv, NEW c \in Cells(def), NEW p \in OutPort, NEW k \in Kind,
         ReplaceCellPortWithConstant(c, p, k)
  PROVE  IInv'
<1>1. def.next <= MaxId /\ k.tp = "CONST" /\ k.width = Width(def.type[c], p)
  BY DEF ReplaceCellPortWithConstant
<1>2. /\ WellFormed(ReplaceWithConstant(def, c, p, k))
      /\ ~NameTaken(def, c, p) => ~ReplaceWithConstantAborts(def, c, p, k)
  BY <1>1, ReplaceWithConstantWellFormed DEF IInv
<1> QED BY <1>2 DEF ReplaceCellPortWithConstant, IInv, Stop, Status

LEMMA NextIInv == IInv /\ [Next]_vars => IInv'
<1> SUFFICES ASSUME IInv, [Next]_vars PROVE IInv'
  OBVIOUS
<1>1. ASSUME NEW k \in Kind, AddCellOp(k) PROVE IInv'
  BY <1>1, AddCellStep
<1>2. ASSUME NEW k \in Kind, AddPortOp(k) PROVE IInv'
  BY <1>2, AddPortStep
<1>3. ASSUME NEW r \in InBits(def), NEW d \in OutBits(def), SetDriverOp(r, d) PROVE IInv'
  BY <1>3, SetDriverStep
<1>4. ASSUME NEW dc \in Cells(def), NEW rc \in Cells(def), NEW dp \in OutPort,
             NEW rp \in InPort, Connect(dc, dp, rc, rp)
      PROVE  IInv'
  BY <1>4, ConnectStep
<1>5. ASSUME NEW c \in CellId, DeleteCellOp(c) PROVE IInv'
  BY <1>5, DeleteCellStep
<1>6. ASSUME NEW S \in SUBSET (Cells(def) \ def.portCells), BulkDeleteOp(S) PROVE IInv'
  BY <1>6, BulkDeleteStep
<1>7. ASSUME NEW c \in Cells(def), NEW p \in OutPort, NEW k \in Kind,
             ReplaceCellPortWithConstant(c, p, k)
      PROVE  IInv'
  BY <1>7, ReplaceStep
<1>8. CASE UNCHANGED vars
  BY <1>8 DEF vars, IInv
<1> QED BY <1>1, <1>2, <1>3, <1>4, <1>5, <1>6, <1>7, <1>8 DEF Next

THEOREM InvariantHolds == Spec => []IInv
BY InitIInv, NextIInv, PTL DEF Spec

\* Every definition that edits can build has its type.
THEOREM TypeCorrect == Spec => []TypeOK
<1>1. IInv => TypeOK
  BY DEF IInv, TypeOK, WellFormed, Status
<1> QED BY <1>1, InvariantHolds, PTL

\* The two ends of every wire agree after every edit.
THEOREM WiresAgree == Spec => []EndsAgree
<1>1. IInv => EndsAgree
  BY DEF IInv, EndsAgree, WellFormed
<1> QED BY <1>1, InvariantHolds, PTL

\* No wire ever leads to a bit that does not exist.
THEOREM WiresExist == Spec => []NoDanglingWire
<1>1. IInv => NoDanglingWire
  BY DEF IInv, NoDanglingWire, WellFormed
<1> QED BY <1>1, InvariantHolds, PTL

\* No edit is stopped by a wire an earlier edit left behind.
THEOREM EditsNeverDangle == Spec => []NeverDangling
<1>1. IInv => NeverDangling
  BY DEF IInv, NeverDangling
<1> QED BY <1>1, InvariantHolds, PTL

\* The test definitionIsConsistent makes never stops the program on a definition whose
\* inputs are all driven.
THEOREM ConsistencyTestPasses == Spec => []ConsistencyCheckPasses
<1>1. IInv => ConsistencyCheckPasses
  <2> SUFFICES ASSUME IInv, FullyDriven(def) PROVE DefinitionIsConsistent(def)
    BY DEF ConsistencyCheckPasses
  <2>1. def \in Net /\ EndsAgreeIn(def) /\ WiresExistIn(def)
    BY DEF IInv, WellFormed
  <2>2. \A b \in InBits(def) \cup OutBits(def) : b \in Bit /\ b.cell \in Cells(def)
    BY <2>1, NoCellNoBits DEF Cells
  <2>3. \A r \in InBits(def) : def.drivers[r].cell \in Cells(def)
    BY <2>1, <2>2 DEF FullyDriven, WiresExistIn
  <2>4. \A d \in OutBits(def) : \A r \in def.receivers[d] : r \in InBits(def)
    BY <2>1, <2>2 DEF WiresExistIn
  <2>5. \A d, e \in OutBits(def) : d # e => def.receivers[d] \cap def.receivers[e] = {}
    BY <2>1, <2>2, <2>4 DEF EndsAgreeIn
  <2> QED BY <2>2, <2>3, <2>4, <2>5 DEF DefinitionIsConsistent
<1> QED BY <1>1, InvariantHolds, PTL

-----------------------------------------------------------------------------
(* What a single edit does.                                                  *)

\* An edit that sets drivers disconnects nothing.
LEMMA RewiringKeepsDriven ==
  ASSUME NEW n \in Net, NEW R, NEW f, \A r \in R : f[r] \in OutBits(n), NEW b \in Bit,
         n.drivers[b] # NoBit
  PROVE  SetDrivers(n, R, f).drivers[b] # NoBit
<1>1. SetDrivers(n, R, f).drivers = [x \in Bit |-> IF x \in R THEN f[x] ELSE n.drivers[x]]
  BY NetFields DEF SetDrivers
<1> QED BY <1>1, NoBitIsNoBit DEF OutBits

LEMMA ConnectSetsOutputs ==
  ASSUME NEW dc \in Cells(def), NEW dp \in OutPort, NEW rc \in Cells(def), NEW rp \in InPort,
         Connect(dc, dp, rc, rp)
  PROVE  \/ def' = def
         \/ \E R, f : def' = SetDrivers(def, R, f) /\ \A r \in R : f[r] \in OutBits(def)
<1> DEFINE R == {r \in CellIns(def, rc) : r.port = rp}
           f == [r \in R |-> Bus(dc, dp)[r.offset]]
<1>1. /\ def' = def \/ def' = SetDrivers(def, R, f)
      /\ Width(def.type[dc], dp) = Width(def.type[rc], rp)
  BY DEF Connect, SetDriversOrStop, Stop
<1>2. ASSUME NEW r \in R
      PROVE  f[r] \in OutBits(def)
  <2>1. r.offset \in Offset /\ r.offset < Width(def.type[rc], rp)
    BY <1>2 DEF CellIns, InBits, Bit
  <2> QED BY <1>1, <2>1 DEF Bus, OutBits, OutPort, Bit, Cells
<1> HIDE DEF R, f
<1> QED BY <1>1, <1>2

\* The bits that lose their drivers in a step.
LosesDriver(r) ==
  /\ def.drivers[r] # NoBit /\ r.cell \in Cells(def') /\ def'.drivers[r] = NoBit
  /\ def.drivers[r].cell \in Cells(def')

LEMMA NothingLosesItsDriver ==
  ASSUME IInv, [Next]_vars, NEW r \in InBits(def)
  PROVE  ~LosesDriver(r)
<1>0. WellFormed(def) /\ def \in Net /\ EndsAgreeIn(def) /\ WiresExistIn(def) /\ r \in Bit
  BY DEF IInv, WellFormed, InBits
<1>1. ASSUME NEW k \in Kind, AddCellOp(k) \/ AddPortOp(k)
      PROVE  ~LosesDriver(r)
  <2>1. def'.drivers = def.drivers
    <3>1. AddCell(def, k).drivers = def.drivers /\ AddPort(def, k).drivers = def.drivers
      BY <1>0, NetFields DEF AddCell, AddPort
    <3> QED BY <1>1, <3>1 DEF AddCellOp, AddPortOp
  <2> QED BY <2>1 DEF LosesDriver
<1>2. ASSUME NEW b \in InBits(def), NEW d \in OutBits(def), SetDriverOp(b, d)
      PROVE  ~LosesDriver(r)
  <2>1. CASE def' = def
    BY <2>1 DEF LosesDriver
  <2>2. CASE def' = SetDrivers(def, {b}, [x \in {b} |-> d])
    BY <1>0, <2>2, RewiringKeepsDriven DEF LosesDriver
  <2> QED BY <1>2, <2>1, <2>2 DEF SetDriverOp, SetDriversOrStop, Stop
<1>3. ASSUME NEW dc \in Cells(def), NEW rc \in Cells(def), NEW dp \in OutPort, NEW rp \in InPort,
             Connect(dc, dp, rc, rp)
      PROVE  ~LosesDriver(r)
  <2>1. CASE def' = def
    BY <2>1 DEF LosesDriver
  <2>2. CASE \E R, f : def' = SetDrivers(def, R, f) /\ \A x \in R : f[x] \in OutBits(def)
    BY <1>0, <2>2, RewiringKeepsDriven DEF LosesDriver
  <2> QED BY <1>3, <2>1, <2>2, ConnectSetsOutputs
<1>4. ASSUME NEW c \in CellId, DeleteCellOp(c)
      PROVE  ~LosesDriver(r)
  <2>1. CASE def' = def
    BY <2>1 DEF LosesDriver
  <2>2. CASE def' = DeleteCell(def, c)
    <3>1. /\ def'.type = [def.type EXCEPT ![c] = NoType]
          /\ def'.drivers = [b \in Bit |->
                               IF b.cell = c \/ \E d \in CellOuts(def, c) : b \in def.receivers[d]
                               THEN NoBit ELSE def.drivers[b]]
      BY <1>0, <2>2, NetFields DEF DeleteCell
    <3>2. c \notin Cells(def')
      BY <1>0, <3>1, NetFields DEF Cells
    <3>3. ASSUME NEW d \in CellOuts(def, c), r \in def.receivers[d]
          PROVE  def.drivers[r].cell = c
      BY <1>0, <3>3 DEF CellOuts, OutBits, EndsAgreeIn
    <3> QED BY <1>0, <3>1, <3>2, <3>3 DEF LosesDriver
  <2> QED BY <1>4, <2>1, <2>2 DEF DeleteCellOp, Stop
<1>5. ASSUME NEW S \in SUBSET (Cells(def) \ def.portCells), BulkDeleteOp(S)
      PROVE  ~LosesDriver(r)
  <2>1. /\ def'.type = [c \in CellId |-> IF c \in S THEN NoType ELSE def.type[c]]
        /\ def'.drivers = [b \in Bit |->
              IF b.cell \in Cells(def) \ S /\ def.drivers[b].cell \in Cells(def) \ S
              THEN def.drivers[b] ELSE NoBit]
    BY <1>0, <1>5, NetFields DEF BulkDeleteOp, BulkDelete
  <2>2. Cells(def') \subseteq Cells(def) \ S
    BY <2>1 DEF Cells
  <2> QED BY <1>0, <2>1, <2>2 DEF LosesDriver
<1>6. ASSUME NEW c \in Cells(def), NEW p \in OutPort, NEW k \in Kind,
             ReplaceCellPortWithConstant(c, p, k)
      PROVE  ~LosesDriver(r)
  <2>1. CASE def' = def
    BY <2>1 DEF LosesDriver
  <2>2. CASE def' = ReplaceWithConstant(def, c, p, k)
    <3>1. /\ \A b \in Bit : b \notin Receivers(def, c, p) => def'.drivers[b] = def.drivers[b]
          /\ \A b \in Receivers(def, c, p) : def'.drivers[b].cell = def.next
      <4>1. def.next <= MaxId /\ k.tp = "CONST" /\ k.width = Width(def.type[c], p)
        BY <1>6 DEF ReplaceCellPortWithConstant
      <4>2. Replaced(ReplaceWithConstant(def, c, p, k), def, c, p)
        BY <1>0, <4>1, ReplaceWithConstantWellFormed
      <4> QED BY <2>2, <4>2 DEF Replaced
    <3>2. def.next # NoBit.cell
      BY <1>0, NetFields, NetlistAssumption DEF NoBit
    <3> QED BY <1>0, <3>1, <3>2 DEF LosesDriver
  <2> QED BY <1>6, <2>1, <2>2 DEF ReplaceCellPortWithConstant, Stop
<1>7. CASE UNCHANGED vars
  BY <1>7 DEF vars, LosesDriver
<1> QED BY <1>1, <1>2, <1>3, <1>4, <1>5, <1>6, <1>7 DEF Next

\* An input loses its driver only because the driving cell is deleted.
THEOREM DriversAreLostToDeletionOnly == Spec => LosesDriverOnlyToDeletion
<1>1. IInv /\ [Next]_vars =>
        [\A r \in InBits(def) :
            /\ def.drivers[r] # NoBit
            /\ r.cell \in Cells(def)'
            /\ def'.drivers[r] = NoBit
            => def.drivers[r].cell \notin Cells(def')]_vars
  BY NothingLosesItsDriver DEF LosesDriver
<1> QED BY <1>1, InvariantHolds, PTL DEF Spec, LosesDriverOnlyToDeletion

\* Only replaceCellPortWithConstant names a constant.
LEMMA OnlyReplacingNames ==
  ASSUME IInv, [Next]_vars
  PROVE  \/ def'.constNames = def.constNames
         \/ \E c \in Cells(def), p \in OutPort, k \in Kind :
              /\ ReplaceCellPortWithConstant(c, p, k)
              /\ def' = ReplaceWithConstant(def, c, p, k)
<1>0. WellFormed(def) /\ def \in Net
  BY DEF IInv, WellFormed
<1> DEFINE Same == def'.constNames = def.constNames
<1>1. ASSUME NEW k \in Kind, AddCellOp(k) \/ AddPortOp(k) PROVE Same
  <2>1. AddCell(def, k).constNames = def.constNames /\ AddPort(def, k).constNames = def.constNames
    BY <1>0, NetFields DEF AddCell, AddPort
  <2> QED BY <1>1, <2>1 DEF AddCellOp, AddPortOp
<1>2. \A R, f : SetDrivers(def, R, f).constNames = def.constNames
  BY <1>0, NetFields DEF SetDrivers
<1>3. ASSUME NEW b \in InBits(def), NEW d \in OutBits(def), SetDriverOp(b, d) PROVE Same
  BY <1>2, <1>3 DEF SetDriverOp, SetDriversOrStop, Stop
<1>4. ASSUME NEW dc \in Cells(def), NEW rc \in Cells(def), NEW dp \in OutPort, NEW rp \in InPort,
             Connect(dc, dp, rc, rp)
      PROVE  Same
  BY <1>2, <1>4 DEF Connect, SetDriversOrStop, Stop
<1>5. ASSUME NEW c \in CellId, DeleteCellOp(c) PROVE Same
  <2>1. DeleteCell(def, c).constNames = def.constNames
    BY <1>0, NetFields DEF DeleteCell
  <2> QED BY <1>5, <2>1 DEF DeleteCellOp, Stop
<1>6. ASSUME NEW S, BulkDeleteOp(S) PROVE Same
  <2>1. BulkDelete(def, S).constNames = def.constNames
    BY <1>0, NetFields DEF BulkDelete
  <2> QED BY <1>6, <2>1 DEF BulkDeleteOp
<1>7. CASE UNCHANGED vars
  BY <1>7 DEF vars
<1>8. ASSUME NEW c \in Cells(def), NEW p \in OutPort, NEW k \in Kind,
             ReplaceCellPortWithConstant(c, p, k)
      PROVE  Same \/ def' = ReplaceWithConstant(def, c, p, k)
  BY <1>8 DEF ReplaceCellPortWithConstant, Stop
<1> QED BY <1>1, <1>3, <1>4, <1>5, <1>6, <1>7, <1>8 DEF Next

LEMMA ReplacedStep ==
  ASSUME IInv, [Next]_vars, NEW c \in Cells(def), NEW p \in OutPort,
         <<c, p>> \in def'.constNames \ def.constNames
  PROVE  /\ Receivers(def', c, p) = {}
         /\ \A r \in Receivers(def, c, p) : def'.drivers[r].cell = def.next
<1>1. PICK e \in Cells(def), q \in OutPort, k \in Kind :
        /\ ReplaceCellPortWithConstant(e, q, k)
        /\ def' = ReplaceWithConstant(def, e, q, k)
  BY OnlyReplacingNames
<1>2. /\ \A x \in def'.constNames : x \in def.constNames \/ x = <<e, q>>
      /\ \A r \in Receivers(def, e, q) : def'.drivers[r].cell = def.next
      /\ Receivers(def', e, q) = {}
  <2>1. WellFormed(def) /\ def.next <= MaxId /\ k.tp = "CONST" /\ k.width = Width(def.type[e], q)
    BY <1>1 DEF ReplaceCellPortWithConstant, IInv
  <2>2. Replaced(ReplaceWithConstant(def, e, q, k), def, e, q)
    BY <2>1, ReplaceWithConstantWellFormed
  <2> QED BY <1>1, <2>2 DEF Replaced
<1>3. e = c /\ q = p
  BY <1>2
<1> QED BY <1>2, <1>3

\* Tying a port to a constant leaves nothing behind that still reads the port.
THEOREM ReplacedPortsAreLeftAlone == Spec => ReplacedPortIsLeftAlone
<1>1. IInv /\ [Next]_vars =>
        [\A c \in Cells(def), p \in OutPort :
            <<c, p>> \in def'.constNames \ def.constNames
            => /\ Receivers(def', c, p) = {}
               /\ \A r \in Receivers(def, c, p) : def'.drivers[r].cell = def.next]_vars
  BY ReplacedStep
<1> QED BY <1>1, InvariantHolds, PTL DEF Spec, ReplacedPortIsLeftAlone

-----------------------------------------------------------------------------
(* Saving and loading.  The lines of the file that make cells list the cells *)
(* of the definition, so the identifier a cell has after loading is the      *)
(* place of its line.                                                        *)

\* The port cells are the cells that are ports.
PortsArePorts(n) == n.portCells = {c \in Cells(n) : n.type[c].tp = "PORT"}

SaveInv == IInv /\ PortsArePorts(def)

LEMMA PortsStayPorts ==
  ASSUME SaveInv, [Next]_vars
  PROVE  PortsArePorts(def')
<1>0. /\ WellFormed(def) /\ def \in Net /\ PortsArePorts(def) /\ CellsNumbered(def)
      /\ def.type \in [CellId -> Kind \cup {NoType}] /\ NoType \notin Kind
  BY NetFields, NetlistAssumption DEF SaveInv, IInv, WellFormed, NoType
<1>1. ASSUME NEW k \in Kind, AddCellOp(k) \/ AddPortOp(k)
      PROVE  PortsArePorts(def')
  <2>1. /\ def.next \in CellId /\ def'.type = [def.type EXCEPT ![def.next] = k]
        /\ k.tp = "PORT" => def'.portCells = def.portCells \cup {def.next}
        /\ k.tp # "PORT" => def'.portCells = def.portCells
    <3>1. def.next \in CellId
      BY <1>0, <1>1, NetFields, NetlistAssumption DEF AddCellOp, AddPortOp, CellId
    <3>2. /\ AddCell(def, k).type = [def.type EXCEPT ![def.next] = k]
          /\ AddPort(def, k).type = [def.type EXCEPT ![def.next] = k]
          /\ AddCell(def, k).portCells = def.portCells
          /\ AddPort(def, k).portCells = def.portCells \cup {def.next}
      BY <1>0, <3>1, NetFields DEF AddCell, AddPort
    <3> QED BY <1>1, <3>1, <3>2 DEF AddCellOp, AddPortOp
  <2>2. Cells(def') = Cells(def) \cup {def.next} /\ def.next \notin Cells(def)
    BY <1>0, <2>1, NetFields DEF Cells, CellsNumbered
  <2> QED BY <1>0, <2>1, <2>2 DEF PortsArePorts, Cells
<1>2. ASSUME def'.type = def.type, def'.portCells = def.portCells
      PROVE  PortsArePorts(def')
  BY <1>0, <1>2 DEF PortsArePorts, Cells
<1>3. \A R, f : SetDrivers(def, R, f).type = def.type
                /\ SetDrivers(def, R, f).portCells = def.portCells
  BY <1>0, NetFields DEF SetDrivers
<1>4. ASSUME NEW r \in InBits(def), NEW d \in OutBits(def), SetDriverOp(r, d)
      PROVE  PortsArePorts(def')
  BY <1>2, <1>3, <1>4 DEF SetDriverOp, SetDriversOrStop, Stop
<1>5. ASSUME NEW dc \in Cells(def), NEW rc \in Cells(def), NEW dp \in OutPort, NEW rp \in InPort,
             Connect(dc, dp, rc, rp)
      PROVE  PortsArePorts(def')
  BY <1>2, <1>3, <1>5 DEF Connect, SetDriversOrStop, Stop
<1>6. ASSUME NEW S \in SUBSET (Cells(def) \ def.portCells),
             def'.type = [c \in CellId |-> IF c \in S THEN NoType ELSE def.type[c]],
             def'.portCells = def.portCells
      PROVE  PortsArePorts(def')
  <2>1. Cells(def') = Cells(def) \ S /\ \A c \in Cells(def') : def'.type[c] = def.type[c]
    BY <1>0, <1>6 DEF Cells
  <2> QED BY <1>0, <1>6, <2>1 DEF PortsArePorts
<1>7. ASSUME NEW c \in CellId, DeleteCellOp(c)
      PROVE  PortsArePorts(def')
  <2>1. CASE def' = def
    BY <1>2, <2>1
  <2>2. CASE def' = DeleteCell(def, c)
    <3>1. /\ def'.type = [def.type EXCEPT ![c] = NoType] /\ def'.portCells = def.portCells
      BY <1>0, <2>2, NetFields DEF DeleteCell
    <3>2. def'.type = [x \in CellId |-> IF x \in {c} THEN NoType ELSE def.type[x]]
      BY <1>0, <3>1
    <3>3. {c} \in SUBSET (Cells(def) \ def.portCells)
      BY <1>7 DEF DeleteCellOp
    <3> QED BY <1>6, <3>1, <3>2, <3>3
  <2> QED BY <1>7, <2>1, <2>2 DEF DeleteCellOp, Stop
<1>8. ASSUME NEW S \in SUBSET (Cells(def) \ def.portCells), BulkDeleteOp(S)
      PROVE  PortsArePorts(def')
  <2>1. /\ def'.type = [c \in CellId |-> IF c \in S THEN NoType ELSE def.type[c]]
        /\ def'.portCells = def.portCells
    BY <1>0, <1>8, NetFields DEF BulkDeleteOp, BulkDelete
  <2> QED BY <1>6, <2>1
<1>9. ASSUME NEW c \in Cells(def), NEW p \in OutPort, NEW k \in Kind,
             ReplaceCellPortWithConstant(c, p, k)
      PROVE  PortsArePorts(def')
  <2>1. CASE def' = def
    BY <1>2, <2>1
  <2>2. CASE def' = ReplaceWithConstant(def, c, p, k)
    <3>1. def.next <= MaxId /\ k.tp = "CONST" /\ k.width = Width(def.type[c], p)
      BY <1>9 DEF ReplaceCellPortWithConstant
    <3>2. def'.type = [def.type EXCEPT ![def.next] = k] /\ def'.portCells = def.portCells
      BY <1>0, <2>2, <3>1, ReplaceWithConstantWellFormed
    <3>3. def.next \in CellId
      BY <1>0, <3>1, NetFields, NetlistAssumption DEF CellId
    <3>4. Cells(def') = Cells(def) \cup {def.next} /\ def.next \notin Cells(def)
      BY <1>0, <3>2, <3>3, NetFields DEF Cells, CellsNumbered
    <3> QED BY <1>0, <3>1, <3>2, <3>3, <3>4 DEF PortsArePorts, Cells
  <2> QED BY <1>9, <2>1, <2>2 DEF ReplaceCellPortWithConstant, Stop
<1>10. CASE UNCHANGED vars
  BY <1>2, <1>10 DEF vars
<1> QED BY <1>1, <1>4, <1>5, <1>7, <1>8, <1>9, <1>10 DEF Next

LEMMA SaveInvHolds == Spec => []SaveInv
<1>1. Init => PortsArePorts(def)
  BY DEF Init, PortsArePorts, EmptyNet, Cells
<1>2. SaveInv /\ [Next]_vars => SaveInv'
  BY PortsStayPorts, NextIInv DEF SaveInv
<1> QED BY <1>1, <1>2, InitIInv, PTL DEF Spec, SaveInv

\* The line of a cell among the cells.
LineOf(n, c) == [name |-> c, kind |-> n.type[c],
                 drivers |-> [p \in InPortsOf(n, c) |-> DriverLine(n, c, p)]]

\* What saveToFile writes under CELLS: one line for each cell.
IsCellPart(lines, n) ==
  \E q : /\ InSequence(q, Cells(n), NumberOrder)
         /\ lines = [i \in 1 .. Cardinality(Cells(n)) |-> LineOf(n, q[i])]

LEMMA CellPartIsSaved ==
  ASSUME NEW n \in Net, NEW names
  PROVE  IsCellPart(Save(n, names).cells, n)
<1> DEFINE q == InOrderOf(Cells(n), <)
<1>1. Cells(n) \in SUBSET Nat /\ IsFiniteSet(Cells(n))
  <2>1. IsFiniteSet(CellId) BY NetlistAssumption, FS_Interval DEF CellId
  <2>2. Cells(n) \in SUBSET CellId BY DEF Cells
  <2>3. CellId \in SUBSET Nat BY NetlistAssumption DEF CellId
  <2> QED BY <2>1, <2>2, <2>3, FS_Subset
<1>2. InSequence(q, Cells(n), NumberOrder) BY <1>1, NumbersInOrder
<1>3. Save(n, names).cells = [i \in DOMAIN q |-> LineOf(n, q[i])] BY DEF Save, LineOf
<1> HIDE DEF q
<1>4. DOMAIN q = 1 .. Cardinality(Cells(n)) BY <1>2 DEF InSequence
<1> QED BY <1>2, <1>3, <1>4 DEF IsCellPart

\* The first l lines name every cell of C once, with its type.
Lists(lines, l, C, n) ==
  /\ \A i \in 1 .. l : lines[i].name \in C /\ lines[i].kind = n.type[lines[i].name]
  /\ \A i, j \in 1 .. l : lines[i].name = lines[j].name => i = j
  /\ \A c \in C : \E i \in 1 .. l : lines[i].name = c

\* A sequence of lines that lists the cells of the definition.
Listing(made, n) ==
  Len(made) \in Nat /\ DOMAIN made = 1 .. Len(made) /\ Lists(made, Len(made), Cells(n), n)

\* Two listings, of the ports and of the other cells, one after the other.
LEMMA ListedTogether ==
  ASSUME NEW n \in Net, PortsArePorts(n), NEW P \in Nat, NEW U \in Nat, NEW S,
         NEW a \in [1 .. P -> S], NEW b \in [1 .. U -> S],
         Lists(a, P, n.portCells, n), Lists(b, U, Cells(n) \ n.portCells, n)
  PROVE  Listing(a \o b, n)
<1> DEFINE m == a \o b
<1>0. /\ Lists(a, P, n.portCells, n) /\ Lists(b, U, Cells(n) \ n.portCells, n)
  OBVIOUS
<1>1. a \in Seq(S) /\ b \in Seq(S) /\ Len(a) = P /\ Len(b) = U
  OBVIOUS
<1>2. /\ m \in Seq(S) /\ Len(m) = P + U /\ DOMAIN m = 1 .. P + U
      /\ \A i \in 1 .. P + U : m[i] = IF i <= P THEN a[i] ELSE b[i - P]
  <2>1. /\ m \in Seq(S) /\ Len(m) = Len(a) + Len(b)
        /\ \A i \in 1 .. Len(a) + Len(b) : m[i] = IF i <= Len(a) THEN a[i] ELSE b[i - Len(a)]
    BY ONLY <1>1, ConcatProperties
  <2> HIDE DEF m
  <2> QED BY <1>1, <2>1
<1>3. n.portCells \subseteq Cells(n) BY DEF PortsArePorts
<1> HIDE DEF m
<1>4. \A i \in 1 .. P + U : \/ i \in 1 .. P /\ m[i] = a[i]
                            \/ i - P \in 1 .. U /\ i > P /\ m[i] = b[i - P]
  BY <1>2
<1>5. \A i \in 1 .. P + U : m[i].name \in Cells(n) /\ m[i].kind = n.type[m[i].name]
  BY <1>0, <1>3, <1>4 DEF Lists
<1>6. /\ \A i \in 1 .. P : a[i].name \in n.portCells
      /\ \A i \in 1 .. U : b[i].name \notin n.portCells
  BY <1>0 DEF Lists
<1>7. ASSUME NEW i \in 1 .. P + U, NEW j \in 1 .. P + U, m[i].name = m[j].name
      PROVE  i = j
  <2>1. CASE i \in 1 .. P /\ m[i] = a[i]
    <3>1. j \in 1 .. P /\ m[j] = a[j] BY <1>4, <1>7, <1>6, <2>1
    <3> QED BY <1>0, <1>7, <2>1, <3>1 DEF Lists
  <2>2. CASE i - P \in 1 .. U /\ i > P /\ m[i] = b[i - P]
    <3>1. j - P \in 1 .. U /\ m[j] = b[j - P] BY <1>4, <1>7, <1>6, <2>2
    <3>2. i - P = j - P BY <1>0, <1>7, <2>2, <3>1 DEF Lists
    <3> QED BY <3>2
  <2> QED BY <1>4, <2>1, <2>2
<1>8. ASSUME NEW c \in Cells(n) PROVE \E i \in 1 .. P + U : m[i].name = c
  <2>1. CASE c \in n.portCells
    <3>1. PICK i \in 1 .. P : a[i].name = c BY <1>0, <2>1 DEF Lists
    <3>2. i \in 1 .. P + U /\ m[i] = a[i] BY <1>2
    <3> QED BY <3>1, <3>2
  <2>2. CASE c \notin n.portCells
    <3>1. PICK i \in 1 .. U : b[i].name = c BY <1>0, <2>2 DEF Lists
    <3>2. i + P \in 1 .. P + U /\ ~(i + P <= P) /\ (i + P) - P = i OBVIOUS
    <3>3. m[i + P] = b[i] BY <1>2, <3>2
    <3> QED BY <3>1, <3>2, <3>3
  <2> QED BY <2>1, <2>2
<1>9. P + U \in Nat OBVIOUS
<1>10. Listing(m, n) BY ONLY <1>2, <1>5, <1>7, <1>8, <1>9 DEF Listing, Lists
<1> QED BY <1>10 DEF m

\* The lines that make the cells list them.
LEMMA CellLinesList ==
  ASSUME NEW n \in Net, PortsArePorts(n),
         NEW names \in Bijection(1 .. Cardinality(n.portCells), n.portCells)
  PROVE  Listing(CellLines(Save(n, names)), n)
<1> DEFINE file  == Save(n, names)
           P     == Cardinality(n.portCells)
           lines == file.cells
           I     == {i \in DOMAIN lines : Unported(lines[i])}
           u     == InOrderOf(I, <)
           a     == file.ports
           b     == [i \in DOMAIN u |-> lines[u[i]]]
           S     == {a[i] : i \in 1 .. P} \cup {lines[i] : i \in DOMAIN lines}
<1>1. CellLines(file) = a \o b BY DEF CellLines
<1>2. a = [i \in DOMAIN names |-> [name |-> names[i], kind |-> n.type[names[i]]]] BY DEF Save
<1>3. IsCellPart(lines, n) BY CellPartIsSaved
<1> HIDE DEF file
<1>4. PICK q : /\ InSequence(q, Cells(n), NumberOrder)
               /\ lines = [i \in 1 .. Cardinality(Cells(n)) |-> LineOf(n, q[i])]
  BY <1>3 DEF IsCellPart
<1> DEFINE N == Cardinality(Cells(n))
<1>5. /\ N \in Nat /\ q \in [1 .. N -> Cells(n)]
      /\ \A c \in Cells(n) : \E i \in 1 .. N : q[i] = c
      /\ \A i, j \in 1 .. N : q[i] = q[j] => i = j
  <2>1. \A i, j \in 1 .. N : i < j => <<q[i], q[j]>> \in NumberOrder BY <1>4 DEF InSequence
  <2>2. \A i, j \in 1 .. N : i < j => q[i] < q[j] BY <2>1 DEF NumberOrder
  <2>3. N \in Nat /\ q \in [1 .. N -> Cells(n)] /\ \A c \in Cells(n) : \E i \in 1 .. N : q[i] = c
    BY <1>4 DEF InSequence
  <2>4. Cells(n) \subseteq Int BY NetlistAssumption DEF Cells, CellId
  <2>5. ASSUME NEW i \in 1 .. N, NEW j \in 1 .. N, q[i] = q[j] PROVE i = j
    <3> HIDE DEF N
    <3>1. q[i] \in Int /\ ~(q[i] < q[j]) /\ ~(q[j] < q[i]) BY <2>3, <2>4, <2>5
    <3> QED BY <2>2, <2>3, <3>1
  <2> QED BY <2>3, <2>5
<1> HIDE DEF lines, N
<1>6. /\ DOMAIN lines = 1 .. N
      /\ \A i \in 1 .. N : lines[i].name = q[i] /\ lines[i].kind = n.type[q[i]]
  BY <1>4 DEF LineOf, N
<1>7. I = {i \in 1 .. N : q[i] \notin n.portCells}
  <2>1. \A i \in 1 .. N : Unported(lines[i]) <=> n.type[q[i]].tp # "PORT" BY <1>6 DEF Unported
  <2>2. \A i \in 1 .. N : q[i] \notin n.portCells <=> n.type[q[i]].tp # "PORT"
    BY <1>5 DEF PortsArePorts
  <2> QED BY <1>6, <2>1, <2>2
<1> HIDE DEF I
<1>8. InSequence(u, I, NumberOrder)
  <2>1. I \in SUBSET Nat /\ I \in SUBSET (1 .. N) BY <1>5, <1>7
  <2>2. IsFiniteSet(1 .. N) BY <1>5, FS_Interval
  <2> QED BY <2>1, <2>2, FS_Subset, NumbersInOrder
<1> HIDE DEF u
<1> DEFINE U == Cardinality(I)
<1>9. /\ U \in Nat /\ u \in [1 .. U -> I]
      /\ \A c \in I : \E i \in 1 .. U : u[i] = c
      /\ \A i, j \in 1 .. U : u[i] = u[j] => i = j
  <2>1. \A i, j \in 1 .. U : i < j => <<u[i], u[j]>> \in NumberOrder BY <1>8 DEF InSequence
  <2>2. \A i, j \in 1 .. U : i < j => u[i] < u[j] BY <2>1 DEF NumberOrder
  <2>3. U \in Nat /\ u \in [1 .. U -> I] /\ \A c \in I : \E i \in 1 .. U : u[i] = c
    BY <1>8 DEF InSequence
  <2>4. I \subseteq Int BY <1>7
  <2>5. ASSUME NEW i \in 1 .. U, NEW j \in 1 .. U, u[i] = u[j] PROVE i = j
    <3> HIDE DEF U
    <3>0. u[i] \in Int BY <2>3, <2>4
    <3>1. ~(u[i] < u[j]) /\ ~(u[j] < u[i]) BY <2>5, <3>0
    <3> QED BY <2>2, <2>3, <3>1
  <2> QED BY <2>3, <2>5
<1> HIDE DEF U
<1>10. /\ DOMAIN u = 1 .. U
       /\ \A i \in 1 .. U : u[i] \in 1 .. N /\ q[u[i]] \in Cells(n) \ n.portCells
  BY <1>5, <1>7, <1>9
<1>11. names \in [1 .. P -> n.portCells]
       /\ (\A i, j \in 1 .. P : names[i] = names[j] => i = j)
       /\ \A c \in n.portCells : \E i \in 1 .. P : names[i] = c
  BY DEF Bijection, Injection, Surjection, IsInjective
<1>12. P \in Nat
  <2>0. 1 \in Int /\ MaxId \in Int BY NetlistAssumption
  <2>1. IsFiniteSet(CellId) BY <2>0, FS_Interval DEF CellId
  <2> QED BY <2>1, FS_Subset, FS_CardinalityType, NetFields
<1> HIDE DEF P, a
<1>13. \A i \in 1 .. P : a[i].name = names[i] /\ a[i].kind = n.type[names[i]]
  BY <1>2, <1>11
<1>14. a \in [1 .. P -> S] BY <1>2, <1>11
<1>15. b \in [1 .. U -> S] BY <1>6, <1>10
<1>16. \A i \in 1 .. U : b[i].name = q[u[i]] /\ b[i].kind = n.type[q[u[i]]]
  BY <1>6, <1>10
<1> HIDE DEF b, S
<1>17. \A i, j \in 1 .. U : b[i].name = b[j].name => i = j BY <1>5, <1>9, <1>10, <1>16
<1>18. ASSUME NEW c \in Cells(n) \ n.portCells PROVE \E i \in 1 .. U : b[i].name = c
  <2>1. PICK i \in 1 .. N : q[i] = c BY <1>5
  <2>2. i \in I BY <1>7, <2>1
  <2>3. PICK j \in 1 .. U : u[j] = i BY <1>9, <2>2
  <2> QED BY <1>16, <2>1, <2>3
<1>19. Lists(a, P, n.portCells, n) BY <1>11, <1>13 DEF Lists
<1>20. Lists(b, U, Cells(n) \ n.portCells, n)
  <2>1. \A i \in 1 .. U : b[i].name \in Cells(n) \ n.portCells
                          /\ b[i].kind = n.type[b[i].name]
    BY <1>10, <1>16
  <2> QED BY <2>1, <1>17, <1>18 DEF Lists
<1>21. Listing(a \o b, n) BY <1>9, <1>12, <1>14, <1>15, <1>19, <1>20, ListedTogether
<1> QED BY <1>1, <1>21 DEF file

\* cellNames takes a cell to the place of its line, and there are identifiers enough.
NumbersTheLines(ids, made, n) ==
  /\ ids \in [Cells(n) -> 1 .. Len(made)]
  /\ \A i \in 1 .. Len(made) : ids[made[i].name] = i
  /\ \A c \in Cells(n) : made[ids[c]].name = c
  /\ Len(made) \in Nat /\ Len(made) <= MaxId

LEMMA IdsNumberTheLines ==
  ASSUME NEW n \in Net, NEW file, Listing(CellLines(file), n)
  PROVE  NumbersTheLines(NewIds(file), CellLines(file), n)
<1> DEFINE made == CellLines(file)
           L    == Len(made)
           ids  == NewIds(file)
<1>1. /\ L \in Nat /\ DOMAIN made = 1 .. L
      /\ \A i \in 1 .. L : made[i].name \in Cells(n)
      /\ \A i, j \in 1 .. L : made[i].name = made[j].name => i = j
      /\ \A c \in Cells(n) : \E i \in 1 .. L : made[i].name = c
  BY DEF Listing, Lists
<1>2. {line.name : line \in Range(made)} = Cells(n)
  <2> HIDE DEF made
  <2>1. Range(made) = {made[i] : i \in 1 .. L} BY <1>1 DEF Range
  <2> QED BY <1>1, <2>1
<1>3. ids = [c \in Cells(n) |-> CHOOSE i \in 1 .. L : made[i].name = c]
  BY <1>1, <1>2 DEF NewIds
<1> HIDE DEF ids, made, L
<1>4. \A c \in Cells(n) : ids[c] \in 1 .. L /\ made[ids[c]].name = c
  BY <1>1, <1>3
<1>5. ids \in [Cells(n) -> 1 .. L]
  BY <1>3, <1>4
<1>6. \A i \in 1 .. L : ids[made[i].name] = i
  BY <1>1, <1>4
<1>7. L <= MaxId
  <2> DEFINE f == [i \in 1 .. L |-> made[i].name]
  <2>1. Cells(n) \subseteq CellId BY DEF Cells
  <2>2. f \in Injection(1 .. L, CellId) BY <1>1, <2>1 DEF Injection, IsInjective
  <2>3. MaxId \in Nat /\ MaxId \in Int /\ 1 \in Int /\ L \in Int BY <1>1, NetlistAssumption
  <2>4. IsFiniteSet(CellId) /\ Cardinality(CellId) = IF 1 > MaxId THEN 0 ELSE MaxId - 1 + 1
    BY ONLY <2>3, FS_Interval DEF CellId
  <2>5. Cardinality(1 .. L) = IF 1 > L THEN 0 ELSE L - 1 + 1 BY ONLY <2>3, FS_Interval
  <2> HIDE DEF f
  <2>6. Cardinality(1 .. L) <= Cardinality(CellId) BY <2>2, <2>4, FS_Injection
  <2> QED BY ONLY <1>1, <2>3, <2>4, <2>5, <2>6
<1> QED BY <1>1, <1>4, <1>5, <1>6, <1>7 DEF NumbersTheLines, ids, made, L

-----------------------------------------------------------------------------
(* The definition loadFromFile has when all cells are made.                  *)

\* The definition after the first i lines.
Made(made, i) ==
  [type       |-> [c \in CellId |-> IF c \in 1 .. i THEN made[c].kind ELSE NoType],
   drivers    |-> [b \in Bit |-> NoBit],
   receivers  |-> [b \in Bit |-> {}],
   next       |-> i + 1,
   portCells  |-> {c \in 1 .. i : made[c].kind.tp = "PORT"},
   constNames |-> {}]

LEMMA MadeIsWellFormed ==
  ASSUME NEW made, NEW i \in Nat, i <= MaxId, \A c \in 1 .. i : made[c].kind \in Kind
  PROVE  WellFormed(Made(made, i)) /\ Cells(Made(made, i)) = 1 .. i
<1> DEFINE m == Made(made, i)
<1>0. MaxId \in Nat /\ 1 .. i \subseteq CellId /\ NoType \notin Kind
  BY NetlistAssumption DEF CellId, NoType
<1>1. /\ m.type = [c \in CellId |-> IF c \in 1 .. i THEN made[c].kind ELSE NoType]
      /\ m.drivers = [b \in Bit |-> NoBit] /\ m.receivers = [b \in Bit |-> {}]
      /\ m.next = i + 1 /\ m.portCells = {c \in 1 .. i : made[c].kind.tp = "PORT"}
      /\ m.constNames = {}
      /\ m = [type |-> m.type, drivers |-> m.drivers, receivers |-> m.receivers,
              next |-> m.next, portCells |-> m.portCells, constNames |-> m.constNames]
  BY DEF Made
<1> HIDE DEF m
<1>2. m \in Net
  <2>1. m.type \in [CellId -> Kind \cup {NoType}] BY <1>1
  <2>2. m.drivers \in [Bit -> Bit \cup {NoBit}] /\ m.receivers \in [Bit -> SUBSET Bit] BY <1>1
  <2>3. m.next \in 1 .. MaxId + 1 BY <1>0, <1>1
  <2>4. m.portCells \in SUBSET CellId /\ m.constNames \in SUBSET (CellId \X OutPort)
    BY <1>0, <1>1
  <2> QED BY <1>1, <2>1, <2>2, <2>3, <2>4 DEF Net
<1>3. Cells(m) = 1 .. i BY <1>0, <1>1 DEF Cells
<1>4. CellsNumbered(m) BY <1>0, <1>1, <1>3 DEF CellsNumbered, CellId
<1>5. EndsAgreeIn(m) /\ WiresExistIn(m)
  BY <1>1, NoBitIsNoBit DEF EndsAgreeIn, WiresExistIn
<1> QED BY <1>2, <1>3, <1>4, <1>5 DEF WellFormed, m

LEMMA SameFieldsSameNet ==
  ASSUME NEW n \in Net, NEW m \in Net, n.type = m.type, n.drivers = m.drivers,
         n.receivers = m.receivers, n.next = m.next, n.portCells = m.portCells,
         n.constNames = m.constNames
  PROVE  n = m
BY DEF Net

LEMMA DeclareMakesTheNext ==
  ASSUME NEW made, NEW i \in Nat, i < MaxId, \A c \in 1 .. i + 1 : made[c].kind \in Kind
  PROVE  Declare(Made(made, i), made[i + 1]) = Made(made, i + 1)
<1> DEFINE m == Made(made, i)
           k == made[i + 1].kind
           a == AddCell(m, k)
           p == AddPort(m, k)
           x == Made(made, i + 1)
<1>0. i + 1 \in CellId /\ MaxId \in Nat /\ k \in Kind BY NetlistAssumption DEF CellId
<1>1. /\ m.type = [c \in CellId |-> IF c \in 1 .. i THEN made[c].kind ELSE NoType]
      /\ m.drivers = [b \in Bit |-> NoBit] /\ m.receivers = [b \in Bit |-> {}]
      /\ m.next = i + 1 /\ m.portCells = {c \in 1 .. i : made[c].kind.tp = "PORT"}
      /\ m.constNames = {}
  BY DEF Made
<1>2. /\ x.type = [c \in CellId |-> IF c \in 1 .. i + 1 THEN made[c].kind ELSE NoType]
      /\ x.drivers = [b \in Bit |-> NoBit] /\ x.receivers = [b \in Bit |-> {}]
      /\ x.next = (i + 1) + 1 /\ x.portCells = {c \in 1 .. i + 1 : made[c].kind.tp = "PORT"}
      /\ x.constNames = {}
  BY DEF Made
<1>3. WellFormed(m) /\ m \in Net /\ x \in Net
  BY MadeIsWellFormed, NetlistAssumption DEF WellFormed
<1> HIDE DEF m, x, k
<1>4. [m.type EXCEPT ![i + 1] = k] = x.type
  <2>1. \A c \in CellId : c \in 1 .. i + 1 <=> c \in 1 .. i \/ c = i + 1
    BY <1>0 DEF CellId
  <2> QED BY <1>0, <1>1, <1>2, <2>1 DEF k
<1>5. /\ a.type = x.type /\ a.next = (i + 1) + 1 /\ a.drivers = m.drivers
      /\ a.receivers = m.receivers /\ a.portCells = m.portCells
      /\ a.constNames = m.constNames /\ a \in Net
  <2>1. m.next <= MaxId BY <1>0, <1>1, NetlistAssumption DEF CellId
  <2>2. a \in Net BY <1>0, <1>3, <2>1, AddCellWellFormed DEF WellFormed
  <2> QED BY <1>1, <1>3, <1>4, <2>2, NetFields DEF AddCell
<1>6. /\ p.type = a.type /\ p.next = a.next /\ p.drivers = a.drivers
      /\ p.receivers = a.receivers /\ p.portCells = m.portCells \cup {i + 1}
      /\ p.constNames = a.constNames /\ p \in Net
  <2>1. p = [a EXCEPT !.portCells = m.portCells \cup {i + 1}] BY <1>1 DEF AddPort
  <2>2. m.portCells \cup {i + 1} \in SUBSET CellId BY <1>0, <1>3, NetFields
  <2> HIDE DEF a, p
  <2> QED BY <1>5, <2>1, <2>2, NetFields DEF Net
<1> HIDE DEF a, p
<1>7. \A c : c \in 1 .. i + 1 <=> c \in 1 .. i \/ c = i + 1
  OBVIOUS
<1>8. /\ a.drivers = x.drivers /\ a.receivers = x.receivers /\ a.next = x.next
       /\ a.constNames = x.constNames
  BY <1>1, <1>2, <1>5
<1>9. /\ p.type = x.type /\ p.drivers = x.drivers /\ p.receivers = x.receivers
       /\ p.next = x.next /\ p.constNames = x.constNames
  BY <1>5, <1>6, <1>8
<1>10. k.tp = "PORT" => p = x
  <2>1. k.tp = "PORT" => p.portCells = x.portCells BY <1>1, <1>2, <1>6, <1>7 DEF k
  <2> QED BY ONLY <1>3, <1>6, <1>9, <2>1, SameFieldsSameNet
<1>11. k.tp # "PORT" => a = x
  <2>1. k.tp # "PORT" => a.portCells = x.portCells BY <1>1, <1>2, <1>5, <1>7 DEF k
  <2> QED BY ONLY <1>3, <1>5, <1>8, <2>1, SameFieldsSameNet
<1>12. Declare(m, made[i + 1]) = IF k.tp # "PORT" THEN a ELSE p
  BY DEF Declare, Unported, a, p, k
<1> QED BY <1>10, <1>11, <1>12 DEF m, x

LEMMA DeclaredIsMade ==
  ASSUME NEW file, Len(CellLines(file)) \in Nat, Len(CellLines(file)) <= MaxId,
         \A i \in 1 .. Len(CellLines(file)) : CellLines(file)[i].kind \in Kind
  PROVE  Declared(file) = Made(CellLines(file), Len(CellLines(file)))
<1> DEFINE made == CellLines(file)
           L    == Len(made)
           Recurs(f) == f = [i \in 0 .. L |-> IF i = 0 THEN EmptyNet
                                              ELSE Declare(f[i - 1], made[i])]
           after == CHOOSE f : Recurs(f)
           w     == [i \in 0 .. L |-> Made(made, i)]
<1>0. L \in Nat /\ L <= MaxId /\ \A i \in 1 .. L : made[i].kind \in Kind OBVIOUS
<1>1. Declared(file) = after[L] BY DEF Declared
<1> HIDE DEF L, made
<1>2. Made(made, 0) = EmptyNet
  <2>1. \A c : c \notin 1 .. 0 OBVIOUS
  <2> QED BY <2>1 DEF Made, EmptyNet
<1>3. \A i \in 1 .. L : Declare(Made(made, i - 1), made[i]) = Made(made, i)
  <2> TAKE i \in 1 .. L
  <2>1. i - 1 \in Nat /\ i - 1 < MaxId /\ (i - 1) + 1 = i BY <1>0, NetlistAssumption
  <2> DEFINE j == i - 1
  <2>2. Declare(Made(made, j), made[j + 1]) = Made(made, j + 1)
    <3>1. \A c \in 1 .. j + 1 : made[c].kind \in Kind BY <1>0, <2>1
    <3>2. j \in Nat /\ j < MaxId BY <2>1
    <3> HIDE DEF j
    <3> QED BY <3>1, <3>2, DeclareMakesTheNext
  <2> QED BY <2>1, <2>2
<1>4. Recurs(w)
  <2>1. \A i \in 0 .. L : i # 0 => i \in 1 .. L /\ i - 1 \in 0 .. L BY <1>0
  <2>2. \A i \in 0 .. L : w[i] = Made(made, i) OBVIOUS
  <2>3. \A i \in 0 .. L : w[i] = IF i = 0 THEN EmptyNet ELSE Declare(w[i - 1], made[i])
    BY <1>2, <1>3, <2>1, <2>2
  <2> QED BY <2>3
<1>5. Recurs(after) BY <1>4
<1> HIDE DEF after, w
<1>6. /\ after[0] = EmptyNet
      /\ \A i \in 1 .. L : after[i] = Declare(after[i - 1], made[i])
  BY <1>0, <1>5
<1>7. \A i \in 0 .. L : after[i] = Made(made, i)
  <2> DEFINE T == {i \in 0 .. L : after[i] # Made(made, i)}
  <2>1. SUFFICES ASSUME T # {} PROVE FALSE OBVIOUS
  <2>2. PICK k \in T : \A j \in T : k <= j
    <3>1. T \in SUBSET Nat /\ T # {} BY <1>0, <2>1
    <3> QED BY <3>1, LeastNumber
  <2>3. k # 0 BY <1>2, <1>6
  <2>4. k \in 1 .. L /\ k - 1 \in 0 .. L /\ ~(k <= k - 1) BY <1>0, <2>3
  <2>5. after[k - 1] = Made(made, k - 1) BY <2>2, <2>4
  <2> QED BY <1>3, <1>6, <2>4, <2>5
<1> QED BY <1>0, <1>1, <1>7 DEF L, made

-----------------------------------------------------------------------------
(* The wires.                                                                *)

\* A bit, under the identifier its cell has after loading.
As(ids, b) == [b EXCEPT !.cell = ids[b.cell]]

LEMMA RenamedBits ==
  ASSUME NEW n, WellFormed(n), NEW made, NEW ids, Listing(made, n),
         NumbersTheLines(ids, made, n)
  PROVE  LET m == Made(made, Len(made))
         IN  /\ WellFormed(m) /\ Cells(m) = 1 .. Len(made)
             /\ \A c \in Cells(n) : m.type[ids[c]] = n.type[c]
             /\ \A b \in InBits(n)  : As(ids, b) \in InBits(m)
             /\ \A b \in OutBits(n) : As(ids, b) \in OutBits(m)
             /\ \A r \in InBits(m)  : \E b \in InBits(n) : r = As(ids, b)
<1> DEFINE L == Len(made)
           m == Made(made, L)
<1>0. n \in Net /\ n.type \in [CellId -> Kind \cup {NoType}] BY NetFields DEF WellFormed
<1>1. /\ L \in Nat /\ L <= MaxId /\ ids \in [Cells(n) -> 1 .. L]
      /\ \A i \in 1 .. L : ids[made[i].name] = i
      /\ \A c \in Cells(n) : made[ids[c]].name = c
  BY DEF NumbersTheLines
<1>2. \A i \in 1 .. L : made[i].name \in Cells(n) /\ made[i].kind = n.type[made[i].name]
  BY DEF Listing, Lists
<1> HIDE DEF L
<1>3. \A i \in 1 .. L : made[i].kind \in Kind BY <1>0, <1>2 DEF Cells
<1>4. WellFormed(m) /\ Cells(m) = 1 .. L BY <1>1, <1>3, MadeIsWellFormed
<1>5. \A i \in 1 .. L : i \in CellId /\ m.type[i] = n.type[made[i].name]
  <2>1. \A i \in 1 .. L : i \in CellId BY <1>1, NetlistAssumption DEF CellId
  <2>2. m.type = [c \in CellId |-> IF c \in 1 .. L THEN made[c].kind ELSE NoType] BY DEF Made
  <2> QED BY <1>2, <2>1, <2>2
<1> HIDE DEF m
<1>6. \A c \in Cells(n) : ids[c] \in 1 .. L /\ ids[c] \in CellId /\ m.type[ids[c]] = n.type[c]
  BY <1>1, <1>5
<1>7. ASSUME NEW b \in InBits(n) \cup OutBits(n)
      PROVE  /\ b \in Bit /\ b.cell \in Cells(n) /\ As(ids, b) \in Bit
             /\ As(ids, b).port = b.port /\ As(ids, b).offset = b.offset
             /\ m.type[As(ids, b).cell] = n.type[b.cell]
  <2>1. b \in Bit /\ b.cell \in Cells(n) BY <1>0, NoCellNoBits DEF Cells
  <2>2. As(ids, b) = [cell |-> ids[b.cell], port |-> b.port, offset |-> b.offset]
    BY <2>1 DEF As, Bit
  <2>3. As(ids, b) \in Bit BY <1>6, <2>1, <2>2 DEF Bit
  <2> QED BY <1>6, <2>1, <2>2, <2>3
<1>8. /\ \A b \in InBits(n)  : As(ids, b) \in InBits(m)
      /\ \A b \in OutBits(n) : As(ids, b) \in OutBits(m)
  BY <1>7 DEF InBits, OutBits
<1>9. ASSUME NEW r \in InBits(m) PROVE \E b \in InBits(n) : r = As(ids, b)
  <2>1. r \in Bit /\ r.cell \in 1 .. L
    BY <1>4, NoCellNoBits DEF Cells, WellFormed
  <2> DEFINE b == [cell |-> made[r.cell].name, port |-> r.port, offset |-> r.offset]
  <2>2. made[r.cell].name \in Cells(n) /\ made[r.cell].name \in CellId BY <1>2, <2>1 DEF Cells
  <2>3. b \in Bit BY <2>1, <2>2 DEF Bit
  <2>4. m.type[r.cell] = n.type[b.cell] BY <1>5, <2>1
  <2>5. b \in InBits(n) BY <2>3, <2>4 DEF InBits
  <2>6. r = As(ids, b) BY <1>1, <2>1 DEF As, Bit
  <2> QED BY <2>5, <2>6
<1> QED BY <1>4, <1>6, <1>8, <1>9 DEF m, L

\* The file gives every input bit the driver it had.
LEMMA DriversComeBack ==
  ASSUME NEW n, WellFormed(n), ~SaveAborts(n), NEW ids, NEW r \in InBits(n)
  PROVE  LoadedDriver(ids, LineOf(n, r.cell).drivers[r.port], r.offset) = As(ids, n.drivers[r])
<1> DEFINE c == r.cell
           p == r.port
           o == r.offset
           d == n.drivers[r]
           line == DriverLine(n, c, p)
           w    == Width(n.type[c], p)
<1>1. /\ n \in Net /\ r \in Bit /\ c \in CellId /\ p \in Port /\ o \in Offset
      /\ r = [cell |-> c, port |-> p, offset |-> o] /\ o < w
  BY DEF WellFormed, InBits, Bit
<1>2. p \in InPortsOf(n, c) /\ LineOf(n, c).drivers[p] = line
  BY DEF InPortsOf, CellIns, LineOf
<1>3. \A s \in InBits(n) : n.drivers[s] \in OutBits(n) /\ n.drivers[s] \in Bit /\ s \in Bit
  BY DEF WellFormed, WiresExistIn, SaveAborts, InBits, OutBits
<1>4. w \in Nat /\ w >= 1 /\ o \in 0 .. w - 1
  <2>1. o \in Nat BY <1>1, NetlistAssumption DEF Offset
  <2>2. n.type[c] \in Kind \cup {NoType} BY <1>1, NetFields
  <2>3. w \in Nat BY <2>2, SerializeAssumption DEF Width
  <2> HIDE DEF w
  <2> QED BY <1>1, <2>1, <2>3
<1>5. CASE ~line.bulk
  <2>1. line.from[o] = d BY <1>1, <1>4, <1>5 DEF DriverLine
  <2> QED BY <1>2, <1>5, <2>1 DEF LoadedDriver, As
<1>6. CASE line.bulk
  <2> DEFINE z == [cell |-> c, port |-> p, offset |-> 0]
  <2>1. IsBulkConnection(n, c, p) /\ line.from[0] = n.drivers[z] BY <1>6 DEF DriverLine
  <2>2. z \in InBits(n)
    <3>1. 0 \in Offset BY NetlistAssumption DEF Offset
    <3>2. z \in Bit BY <1>1, <3>1 DEF Bit
    <3> QED BY <1>1, <1>4, <3>2 DEF InBits
  <2>3. r \in PortIns(n, c, p) /\ z \in PortIns(n, c, p)
    BY <2>2 DEF PortIns, CellIns
  <2>4. d.offset = o /\ d.port = n.drivers[z].port /\ d.cell = n.drivers[z].cell
    BY <2>1, <2>3 DEF IsBulkConnection
  <2>5. [n.drivers[z] EXCEPT !.offset = o] = d
    <3>1. d \in Bit /\ n.drivers[z] \in Bit BY <1>3, <2>2
    <3> HIDE DEF d, z
    <3> QED BY <2>4, <3>1 DEF Bit
  <2> QED BY <1>2, <1>6, <2>1, <2>5 DEF LoadedDriver, As
<1> QED BY <1>5, <1>6

\* The line a cell is wired from is its line among the cells.
LEMMA LinesAreFound ==
  ASSUME NEW n, NEW file, NEW made, NEW ids, IsCellPart(file.cells, n),
         NumbersTheLines(ids, made, n), NEW c \in Cells(n)
  PROVE  (CHOOSE line \in Range(file.cells) : ids[line.name] = ids[c]) = LineOf(n, c)
<1> DEFINE lines == file.cells
           N == Cardinality(Cells(n))
<1>1. PICK q : InSequence(q, Cells(n), NumberOrder) /\ lines = [i \in 1 .. N |-> LineOf(n, q[i])]
  BY DEF IsCellPart
<1>2. N \in Nat /\ q \in [1 .. N -> Cells(n)] /\ \A x \in Cells(n) : \E i \in 1 .. N : q[i] = x
  BY <1>1 DEF InSequence
<1>3. \A x, y \in Cells(n) : ids[x] = ids[y] => x = y
  BY DEF NumbersTheLines
<1> HIDE DEF lines, N
<1>4. Range(lines) = {LineOf(n, x) : x \in Cells(n)}
  <2>1. Range(lines) = {lines[i] : i \in 1 .. N} BY <1>1 DEF Range
  <2> QED BY <1>1, <1>2, <2>1
<1>5. \A x \in Cells(n) : LineOf(n, x).name = x BY DEF LineOf
<1>6. LineOf(n, c) \in Range(lines) /\ ids[LineOf(n, c).name] = ids[c] BY <1>4, <1>5
<1>7. \A line \in Range(lines) : ids[line.name] = ids[c] => line = LineOf(n, c)
  BY <1>3, <1>4, <1>5
<1>8. (CHOOSE line \in Range(lines) : ids[line.name] = ids[c]) = LineOf(n, c)
  BY <1>6, <1>7
<1> QED BY <1>8 DEF lines

\* The definition that is loaded is the one that was saved.
SameCircuit(m, n, ids) ==
  /\ Cells(m) = {ids[c] : c \in Cells(n)}
  /\ m.portCells = {ids[c] : c \in n.portCells}
  /\ \A c \in Cells(n) : m.type[ids[c]] = n.type[c]
  /\ \A r \in InBits(n) : m.drivers[As(ids, r)] = As(ids, n.drivers[r])
  /\ EndsAgreeIn(m) /\ WiresExistIn(m)

LEMMA LoadedIsSame ==
  ASSUME NEW n, WellFormed(n), PortsArePorts(n), ~SaveAborts(n),
         NEW names \in Bijection(1 .. Cardinality(n.portCells), n.portCells)
  PROVE  SameCircuit(Load(Save(n, names)), n, NewIds(Save(n, names)))
<1> DEFINE file  == Save(n, names)
           made  == CellLines(file)
           L     == Len(made)
           ids   == NewIds(file)
           m     == Made(made, L)
           wired == InBits(m)
           lines == [c \in Range(ids) |->
                       CHOOSE line \in Range(file.cells) : ids[line.name] = c]
           f     == [r \in wired |->
                       LoadedDriver(ids, lines[r.cell].drivers[r.port], r.offset)]
           new   == SetDrivers(m, wired, f)
<1>0. n \in Net BY DEF WellFormed
<1>1. Listing(made, n) /\ IsCellPart(file.cells, n)
  BY <1>0, CellLinesList, CellPartIsSaved
<1>2. Load(file) = SetDrivers(Declared(file), InBits(Declared(file)),
                              [r \in InBits(Declared(file)) |->
                                 LoadedDriver(ids, lines[r.cell].drivers[r.port], r.offset)])
  BY DEF Load
<1> HIDE DEF file
<1>3. NumbersTheLines(ids, made, n) BY <1>0, <1>1, IdsNumberTheLines
<1>4. Declared(file) = m
  <2>1. \A i \in 1 .. L : made[i].kind \in Kind
    BY <1>0, <1>1, NetFields DEF Listing, Lists, Cells
  <2>2. L \in Nat /\ L <= MaxId BY <1>3 DEF NumbersTheLines
  <2> QED BY <2>1, <2>2, DeclaredIsMade
<1>5. Load(file) = new BY <1>2, <1>4
<1>6. /\ WellFormed(m) /\ Cells(m) = 1 .. L
      /\ \A c \in Cells(n) : m.type[ids[c]] = n.type[c]
      /\ \A b \in InBits(n)  : As(ids, b) \in InBits(m)
      /\ \A b \in OutBits(n) : As(ids, b) \in OutBits(m)
      /\ \A r \in InBits(m)  : \E b \in InBits(n) : r = As(ids, b)
  BY <1>1, <1>3, RenamedBits
<1>7. m.portCells = {c \in 1 .. L : made[c].kind.tp = "PORT"} BY DEF Made
<1> HIDE DEF made, L, ids, m
<1>8. /\ DOMAIN ids = Cells(n) /\ \A c \in Cells(n) : ids[c] \in 1 .. L
      /\ \A i \in 1 .. L : \E c \in Cells(n) : i = ids[c] /\ made[i].kind = n.type[c]
      /\ \A c, d \in Cells(n) : ids[c] = ids[d] => c = d
  <2>1. \A i \in 1 .. L : made[i].name \in Cells(n) /\ made[i].kind = n.type[made[i].name]
    BY <1>1 DEF Listing, Lists, L
  <2>2. /\ ids \in [Cells(n) -> 1 .. L] /\ \A i \in 1 .. L : ids[made[i].name] = i
        /\ \A c \in Cells(n) : made[ids[c]].name = c
    BY <1>3 DEF NumbersTheLines, L
  <2> QED BY <2>1, <2>2
<1>9. ASSUME NEW b \in InBits(n)
      PROVE  f[As(ids, b)] = As(ids, n.drivers[b])
  <2>1. /\ b \in Bit /\ b.cell \in Cells(n)
    BY <1>0, NoCellNoBits DEF Cells
  <2>2. As(ids, b).cell = ids[b.cell] /\ As(ids, b).port = b.port /\ As(ids, b).offset = b.offset
    BY <2>1 DEF As, Bit
  <2>3. lines[ids[b.cell]] = LineOf(n, b.cell)
    <3>1. ids[b.cell] \in Range(ids) BY <1>8, <2>1 DEF Range
    <3>2. lines[ids[b.cell]] = CHOOSE line \in Range(file.cells) : ids[line.name] = ids[b.cell]
      BY <3>1
    <3> HIDE DEF lines
    <3>3. (CHOOSE line \in Range(file.cells) : ids[line.name] = ids[b.cell]) = LineOf(n, b.cell)
      BY <1>1, <1>3, <2>1, LinesAreFound
    <3> QED BY <3>2, <3>3
  <2>4. LoadedDriver(ids, LineOf(n, b.cell).drivers[b.port], b.offset) = As(ids, n.drivers[b])
    BY DriversComeBack
  <2> HIDE DEF lines
  <2> QED BY <1>6, <2>2, <2>3, <2>4
<1> HIDE DEF f, lines
<1>10. \A r \in wired : f[r] \in OutBits(m)
  <2>1. \A b \in InBits(n) : n.drivers[b] \in OutBits(n) /\ b \in Bit
    BY DEF WellFormed, WiresExistIn, SaveAborts, InBits
  <2> QED BY <1>6, <1>9, <2>1
<1>11. /\ WellFormed(new) /\ new.type = m.type /\ new.portCells = m.portCells
       /\ Cells(new) = Cells(m)
  BY <1>6, <1>10, SetDriversWellFormed, SameTypeSameBits
<1>12. \A r \in wired : new.drivers[r] = f[r]
  <2>1. m \in Net BY <1>6 DEF WellFormed
  <2>2. new.drivers = [b \in Bit |-> IF b \in wired THEN f[b] ELSE m.drivers[b]]
    BY <2>1, NetFields DEF SetDrivers
  <2>3. wired \subseteq Bit BY DEF InBits
  <2> QED BY <2>2, <2>3
<1> HIDE DEF new, wired
<1>13. Cells(new) = {ids[c] : c \in Cells(n)} BY <1>6, <1>8, <1>11
<1>14. new.portCells = {ids[c] : c \in n.portCells}
  <2>1. \A c \in Cells(n) : made[ids[c]].kind = n.type[c] BY <1>8
  <2> QED BY <1>7, <1>8, <1>11, <2>1 DEF PortsArePorts
<1>15. \A c \in Cells(n) : new.type[ids[c]] = n.type[c] BY <1>6, <1>11
<1>16. \A r \in InBits(n) : new.drivers[As(ids, r)] = As(ids, n.drivers[r])
  BY <1>6, <1>9, <1>12 DEF wired
<1>17. EndsAgreeIn(new) /\ WiresExistIn(new) BY <1>11 DEF WellFormed
<1>18. SameCircuit(new, n, ids)
  BY <1>13, <1>14, <1>15, <1>16, <1>17 DEF SameCircuit
<1> QED BY <1>5, <1>18 DEF file, ids

\* A definition that is saved and loaded is the same circuit under other identifiers:
\* saveToFile and loadFromFile.
THEOREM SavedIsLoaded == Spec => []LoadedIsSaved
<1>1. SaveInv => LoadedIsSaved
  <2> SUFFICES ASSUME SaveInv, ~SaveAborts(def),
                      NEW names \in Bijection(1 .. Cardinality(def.portCells), def.portCells)
               PROVE  SameCircuit(Load(Save(def, names)), def, NewIds(Save(def, names)))
    BY DEF LoadedIsSaved, SameCircuit, As
  <2> QED BY LoadedIsSame DEF SaveInv, IInv
<1> QED BY <1>1, SaveInvHolds, PTL
=============================================================================
