--------------------------- MODULE NetlistProofs ---------------------------
(***************************************************************************)
(* What the operations of CellDefinition preserve: one lemma for each      *)
(* operator of Netlist, used by the proofs about the state machines that   *)
(* edit a definition.                                                      *)
(***************************************************************************)
EXTENDS Netlist, Ordering, FiniteSetTheorems, WellFoundedInduction, TLAPS

\* An input bit and an output bit are never the same bit.
LEMMA InOutDisjoint == ASSUME NEW n PROVE InBits(n) \cap OutBits(n) = {}
BY DEF InBits, OutBits, InPort, OutPort

\* An identifier without a cell has no bits.
LEMMA NoCellNoBits ==
  ASSUME NEW n, NEW b \in InBits(n) \cup OutBits(n), n \in Net
  PROVE  b \in Bit /\ b.cell \in CellId /\ n.type[b.cell] # NoType
<1>1. b \in Bit /\ b.cell \in CellId /\ b.offset < Width(n.type[b.cell], b.port)
  BY DEF InBits, OutBits, Bit
<1>2. b.offset \in Nat
  BY <1>1, NetlistAssumption DEF Bit, Offset
<1>3. Width(NoType, b.port) = 0
  BY DEF Width
<1> QED BY <1>1, <1>2, <1>3

\* The bit that stands for "no bit" is no bit.
LEMMA NoBitIsNoBit == NoBit \notin Bit
BY NetlistAssumption DEF NoBit, Bit, CellId

\* The type of a definition, field by field.
LEMMA NetFields ==
  ASSUME NEW n \in Net
  PROVE  /\ n = [type |-> n.type, drivers |-> n.drivers, receivers |-> n.receivers,
                 next |-> n.next, portCells |-> n.portCells, constNames |-> n.constNames]
         /\ n.type \in [CellId -> Kind \cup {NoType}]
         /\ n.drivers \in [Bit -> Bit \cup {NoBit}]
         /\ n.receivers \in [Bit -> SUBSET Bit]
         /\ n.next \in 1 .. MaxId + 1
         /\ n.portCells \in SUBSET CellId
         /\ n.constNames \in SUBSET (CellId \X OutPort)
BY DEF Net

\* The bits of a definition are determined by the types of its cells.
LEMMA SameTypeSameBits ==
  ASSUME NEW n, NEW m, n.type = m.type
  PROVE  InBits(n) = InBits(m) /\ OutBits(n) = OutBits(m) /\ Cells(n) = Cells(m)
BY DEF InBits, OutBits, Cells

\* The empty definition is well formed.
LEMMA EmptyNetWellFormed == WellFormed(EmptyNet)
<1>1. EmptyNet \in Net
  BY NetlistAssumption DEF EmptyNet, Net
<1>2. CellsNumbered(EmptyNet) /\ WiresExistIn(EmptyNet)
  BY DEF EmptyNet, CellsNumbered, WiresExistIn
<1>3. EndsAgreeIn(EmptyNet)
  BY NoBitIsNoBit DEF EmptyNet, EndsAgreeIn
<1> QED BY <1>1, <1>2, <1>3 DEF WellFormed

\* addCell: the new cell brings bits that nothing is wired to.
LEMMA AddCellWellFormed ==
  ASSUME NEW n, NEW k \in Kind, WellFormed(n), n.next <= MaxId
  PROVE  /\ WellFormed(AddCell(n, k))
         /\ InBits(n) \subseteq InBits(AddCell(n, k))
         /\ OutBits(n) \subseteq OutBits(AddCell(n, k))
         /\ n.next \notin Cells(n)
         /\ \A c \in CellId : c # n.next => AddCell(n, k).type[c] = n.type[c]
<1> DEFINE m == AddCell(n, k)
<1>0. n \in Net
  BY DEF WellFormed
<1>1. n.next \in CellId /\ n.next + 1 \in 1 .. MaxId + 1
  BY <1>0, NetFields, NetlistAssumption DEF CellId
<1>2. /\ m.drivers = n.drivers /\ m.receivers = n.receivers
      /\ m.portCells = n.portCells /\ m.constNames = n.constNames
      /\ m.next = n.next + 1
      /\ m.type = [n.type EXCEPT ![n.next] = k]
  BY <1>0, NetFields DEF AddCell
<1>3. m \in Net
  BY <1>0, <1>1, NetFields DEF AddCell, Net
<1>4. n.type[n.next] = NoType
  BY <1>1, <1>0, NetFields DEF WellFormed, CellsNumbered, CellId
<1>5. \A c \in CellId : c # n.next => m.type[c] = n.type[c]
  BY <1>2, <1>0, NetFields
<1>6. InBits(n) \subseteq InBits(m) /\ OutBits(n) \subseteq OutBits(m)
  <2>1. ASSUME NEW b \in InBits(n) \cup OutBits(n)
        PROVE  b.cell # n.next /\ m.type[b.cell] = n.type[b.cell]
    BY <2>1, <1>0, <1>4, <1>5, NoCellNoBits
  <2> QED BY <2>1 DEF InBits, OutBits
<1>7. CellsNumbered(m)
  <2>1. \A c \in CellId : c >= m.next => m.type[c] = NoType
    BY <1>0, <1>1, <1>2, <1>5, NetFields DEF WellFormed, CellsNumbered, CellId
  <2>2. m.portCells \subseteq Cells(m)
    BY <1>0, <1>2, <1>4, <1>5, NetFields DEF WellFormed, CellsNumbered, Cells
  <2> QED BY <2>1, <2>2 DEF CellsNumbered
<1>8. EndsAgreeIn(m)
  BY <1>2 DEF WellFormed, EndsAgreeIn
<1>9. WiresExistIn(m)
  BY <1>2, <1>6 DEF WellFormed, WiresExistIn
<1> QED BY <1>1, <1>3, <1>4, <1>5, <1>6, <1>7, <1>8, <1>9 DEF WellFormed, Cells

\* setDriver, once or for a whole bus: rewiring existing inputs to existing
\* outputs keeps both ends of every wire in step.
LEMMA SetDriversWellFormed ==
  ASSUME NEW n, WellFormed(n), NEW R \in SUBSET InBits(n), NEW f,
         \A r \in R : f[r] \in OutBits(n)
  PROVE  /\ WellFormed(SetDrivers(n, R, f))
         /\ SetDrivers(n, R, f).type = n.type
         /\ SetDrivers(n, R, f).next = n.next
         /\ SetDrivers(n, R, f).portCells = n.portCells
         /\ SetDrivers(n, R, f).constNames = n.constNames
<1> DEFINE m == SetDrivers(n, R, f)
<1>0. n \in Net /\ CellsNumbered(n) /\ EndsAgreeIn(n) /\ WiresExistIn(n)
  BY DEF WellFormed
<1>1. InBits(n) \subseteq Bit /\ OutBits(n) \subseteq Bit
  BY DEF InBits, OutBits
<1>2. /\ m.type = n.type /\ m.next = n.next
      /\ m.portCells = n.portCells /\ m.constNames = n.constNames
      /\ m.drivers = [b \in Bit |-> IF b \in R THEN f[b] ELSE n.drivers[b]]
      /\ m.receivers = [b \in Bit |-> (n.receivers[b] \ {r \in R : n.drivers[r] = b})
                                       \cup {r \in R : f[r] = b}]
  BY <1>0, NetFields DEF SetDrivers
<1>3. m.drivers \in [Bit -> Bit \cup {NoBit}]
  BY <1>0, <1>1, <1>2, NetFields
<1>4. m.receivers \in [Bit -> SUBSET Bit]
  BY <1>0, <1>1, <1>2, NetFields
<1>5. m \in Net
  BY <1>0, <1>3, <1>4, NetFields, <1>2 DEF SetDrivers, Net
<1>6. CellsNumbered(m)
  BY <1>0, <1>2, SameTypeSameBits DEF CellsNumbered
<1>7. EndsAgreeIn(m)
  BY <1>0, <1>1, <1>2 DEF EndsAgreeIn
<1>8. WiresExistIn(m)
  <2>1. InBits(m) = InBits(n) /\ OutBits(m) = OutBits(n)
    BY <1>2, SameTypeSameBits
  <2>2. ASSUME NEW r \in Bit, m.drivers[r] # NoBit
        PROVE  r \in InBits(m) /\ m.drivers[r] \in OutBits(m)
    BY <1>0, <1>2, <2>1, <2>2 DEF WiresExistIn
  <2>3. ASSUME NEW d \in Bit, NEW r \in m.receivers[d]
        PROVE  d \in OutBits(m) /\ r \in InBits(m)
    BY <1>0, <1>2, <2>1, <2>3 DEF WiresExistIn
  <2> QED BY <2>2, <2>3 DEF WiresExistIn
<1> QED BY <1>2, <1>5, <1>6, <1>7, <1>8 DEF WellFormed

\* SetDrivers is the loop the code runs: setDriver for one more receiver r after
\* those of R is SetDrivers for them all.
LEMMA SetDriversStep ==
  ASSUME NEW n \in Net, NEW R \in SUBSET Bit, NEW r \in Bit \ R, NEW f
  PROVE  LET m   == SetDrivers(n, R, f)
             one == SetDrivers(m, {r}, f)
             all == SetDrivers(n, R \cup {r}, f)
         IN  one.drivers = all.drivers /\ one.receivers = all.receivers
<1> DEFINE m   == SetDrivers(n, R, f)
           one == SetDrivers(m, {r}, f)
           all == SetDrivers(n, R \cup {r}, f)
<1>1. /\ m.drivers = [b \in Bit |-> IF b \in R THEN f[b] ELSE n.drivers[b]]
      /\ m.receivers = [b \in Bit |-> (n.receivers[b] \ {x \in R : n.drivers[x] = b})
                                       \cup {x \in R : f[x] = b}]
      /\ m = [n EXCEPT !.drivers = m.drivers, !.receivers = m.receivers]
  BY NetFields DEF SetDrivers
<1>2. /\ one.drivers = [b \in Bit |-> IF b \in {r} THEN f[b] ELSE m.drivers[b]]
      /\ one.receivers = [b \in Bit |-> (m.receivers[b] \ {x \in {r} : m.drivers[x] = b})
                                         \cup {x \in {r} : f[x] = b}]
  <2> HIDE DEF m
  <2> QED BY <1>1, NetFields DEF SetDrivers
<1>3. /\ all.drivers = [b \in Bit |-> IF b \in R \cup {r} THEN f[b] ELSE n.drivers[b]]
      /\ all.receivers = [b \in Bit |-> (n.receivers[b] \ {x \in R \cup {r} : n.drivers[x] = b})
                                         \cup {x \in R \cup {r} : f[x] = b}]
  BY NetFields DEF SetDrivers
<1>4. one.drivers = all.drivers
  <2> HIDE DEF m, one, all
  <2> QED BY <1>1, <1>2, <1>3
<1>5. ASSUME NEW b \in Bit
      PROVE  one.receivers[b] = all.receivers[b]
  <2>1. m.drivers[r] = n.drivers[r]
    BY <1>1
  <2> HIDE DEF m, one, all
  <2>2. one.receivers[b] = (((n.receivers[b] \ {x \in R : n.drivers[x] = b})
                              \cup {x \in R : f[x] = b})
                             \ {x \in {r} : n.drivers[x] = b}) \cup {x \in {r} : f[x] = b}
    BY <1>1, <1>2, <2>1
  <2>3. all.receivers[b] = (n.receivers[b] \ {x \in R \cup {r} : n.drivers[x] = b})
                             \cup {x \in R \cup {r} : f[x] = b}
    BY <1>3
  <2> QED BY <2>2, <2>3
<1> HIDE DEF m, one, all
<1>6. one.receivers = all.receivers
  BY <1>2, <1>3, <1>5
<1> QED BY <1>4, <1>6 DEF m, one, all

\* The bits of the cells that survive a deletion survive with them.
LEMMA SurvivingBits ==
  ASSUME NEW n \in Net, NEW m, NEW S \in SUBSET CellId,
         m.type = [c \in CellId |-> IF c \in S THEN NoType ELSE n.type[c]]
  PROVE  /\ \A b \in Bit : b \in InBits(m)  <=> b \in InBits(n)  /\ b.cell \notin S
         /\ \A b \in Bit : b \in OutBits(m) <=> b \in OutBits(n) /\ b.cell \notin S
         /\ Cells(m) = Cells(n) \ S
<1>1. ASSUME NEW b \in Bit, b.cell \in S
      PROVE  b \notin InBits(m) /\ b \notin OutBits(m)
  <2>1. m.type[b.cell] = NoType
    BY <1>1
  <2>2. Width(m.type[b.cell], b.port) = 0 /\ b.offset \in Nat
    BY <2>1, NetlistAssumption DEF Width, Bit, Offset
  <2> QED BY <2>2 DEF InBits, OutBits
<1>2. ASSUME NEW b \in Bit, b.cell \notin S
      PROVE  m.type[b.cell] = n.type[b.cell]
  BY <1>2 DEF Bit
<1>3. Cells(m) = Cells(n) \ S
  BY DEF Cells
<1> QED BY <1>1, <1>2, <1>3 DEF InBits, OutBits

\* deleteCell: what was wired to the cell is unhooked from it, at both ends.
LEMMA DeleteCellWellFormed ==
  ASSUME NEW n, WellFormed(n), NEW c \in Cells(n) \ n.portCells
  PROVE  WellFormed(DeleteCell(n, c))
<1> DEFINE m == DeleteCell(n, c)
<1>0. n \in Net /\ CellsNumbered(n) /\ EndsAgreeIn(n) /\ WiresExistIn(n) /\ c \in CellId
  BY DEF WellFormed, Cells
<1>1. /\ m.next = n.next
      /\ m.portCells = n.portCells /\ m.constNames = n.constNames
      /\ m.type = [n.type EXCEPT ![c] = NoType]
      /\ m.drivers = [b \in Bit |->
                        IF b.cell = c \/ \E d \in CellOuts(n, c) : b \in n.receivers[d]
                        THEN NoBit ELSE n.drivers[b]]
      /\ m.receivers = [b \in Bit |->
                          IF b.cell = c THEN {}
                          ELSE n.receivers[b] \ {r \in CellIns(n, c) : n.drivers[r] = b}]
  BY <1>0, NetFields DEF DeleteCell
<1>2. m.type = [e \in CellId |-> IF e \in {c} THEN NoType ELSE n.type[e]]
  BY <1>0, <1>1, NetFields
<1>3. /\ \A b \in Bit : b \in InBits(m)  <=> b \in InBits(n)  /\ b.cell # c
      /\ \A b \in Bit : b \in OutBits(m) <=> b \in OutBits(n) /\ b.cell # c
      /\ Cells(m) = Cells(n) \ {c}
  <2>1. {c} \in SUBSET CellId /\ \A b : b \in {c} <=> b = c
    BY <1>0
  <2>2. /\ \A b \in Bit : b \in InBits(m)  <=> b \in InBits(n)  /\ b.cell \notin {c}
        /\ \A b \in Bit : b \in OutBits(m) <=> b \in OutBits(n) /\ b.cell \notin {c}
        /\ Cells(m) = Cells(n) \ {c}
    <3> HIDE DEF m
    <3> QED BY <1>0, <1>2, <2>1, SurvivingBits
  <2> QED BY <2>1, <2>2
<1>4. m \in Net
  <2>1. m.drivers \in [Bit -> Bit \cup {NoBit}] /\ m.receivers \in [Bit -> SUBSET Bit]
    BY <1>0, <1>1, NetFields
  <2>2. m.type \in [CellId -> Kind \cup {NoType}]
    BY <1>0, <1>1, NetFields
  <2> QED BY <1>0, <1>1, <2>1, <2>2, NetFields DEF Net, DeleteCell
<1>5. CellsNumbered(m)
  BY <1>0, <1>1, <1>3, NetFields DEF CellsNumbered
<1>6. \A r \in Bit : n.drivers[r].cell = c /\ n.drivers[r] # NoBit
                    <=> \E d \in CellOuts(n, c) : r \in n.receivers[d]
  BY <1>0, NoBitIsNoBit, NetFields DEF EndsAgreeIn, WiresExistIn, CellOuts, OutBits
<1>7. EndsAgreeIn(m)
  <2> SUFFICES ASSUME NEW r \in Bit, NEW d \in Bit
               PROVE  r \in m.receivers[d] <=> m.drivers[r] = d
    BY DEF EndsAgreeIn
  <2>1. CASE d.cell = c
    BY <1>0, <1>1, <1>6, <2>1, NoBitIsNoBit
  <2>2. CASE d.cell # c /\ r.cell = c
    BY <1>0, <1>1, <2>2, NoBitIsNoBit DEF EndsAgreeIn, WiresExistIn, CellIns
  <2>3. CASE d.cell # c /\ r.cell # c
    BY <1>0, <1>1, <1>6, <2>3, NoBitIsNoBit DEF EndsAgreeIn, CellIns
  <2> QED BY <2>1, <2>2, <2>3
<1>8. WiresExistIn(m)
  <2>1. ASSUME NEW r \in Bit, m.drivers[r] # NoBit
        PROVE  r \in InBits(m) /\ m.drivers[r] \in OutBits(m)
    <3>1. m.drivers[r] = n.drivers[r] /\ r.cell # c /\ n.drivers[r].cell # c
      BY <1>1, <1>6, <2>1
    <3> QED BY <1>0, <1>3, <2>1, <3>1 DEF WiresExistIn, OutBits
  <2>2. ASSUME NEW d \in Bit, NEW r \in m.receivers[d]
        PROVE  d \in OutBits(m) /\ r \in InBits(m)
    <3>1. r \in n.receivers[d] /\ d.cell # c /\ r \in Bit
      BY <1>0, <1>1, <2>2, NetFields
    <3>2. r.cell # c
      BY <1>0, <1>1, <2>2, <3>1 DEF EndsAgreeIn, WiresExistIn, CellIns
    <3> QED BY <1>0, <1>3, <3>1, <3>2 DEF WiresExistIn
  <2> QED BY <2>1, <2>2 DEF WiresExistIn
<1> QED BY <1>4, <1>5, <1>7, <1>8 DEF WellFormed

\* bulkDelete: one sweep over the survivors removes every wire to a cell that
\* is gone, however the cells that went were wired to each other.
LEMMA BulkDeleteWellFormed ==
  ASSUME NEW n, WellFormed(n), NEW S \in SUBSET (Cells(n) \ n.portCells)
  PROVE  WellFormed(BulkDelete(n, S))
<1> DEFINE m == BulkDelete(n, S)
           live == Cells(n) \ S
<1>0. n \in Net /\ CellsNumbered(n) /\ EndsAgreeIn(n) /\ WiresExistIn(n) /\ S \in SUBSET CellId
  BY DEF WellFormed, Cells
<1>1. /\ m.next = n.next
      /\ m.portCells = n.portCells /\ m.constNames = n.constNames
      /\ m.type = [c \in CellId |-> IF c \in S THEN NoType ELSE n.type[c]]
      /\ m.drivers = [b \in Bit |-> IF b.cell \in live /\ n.drivers[b].cell \in live
                                    THEN n.drivers[b] ELSE NoBit]
      /\ m.receivers = [b \in Bit |-> IF b.cell \in live
                                      THEN {r \in n.receivers[b] : r.cell \in live}
                                      ELSE {}]
  BY <1>0, NetFields DEF BulkDelete
<1>2. /\ \A b \in Bit : b \in InBits(m)  <=> b \in InBits(n)  /\ b.cell \notin S
      /\ \A b \in Bit : b \in OutBits(m) <=> b \in OutBits(n) /\ b.cell \notin S
      /\ Cells(m) = live
  <2> HIDE DEF m
  <2> QED BY <1>0, <1>1, SurvivingBits
<1>3. m \in Net
  <2>1. m.drivers \in [Bit -> Bit \cup {NoBit}] /\ m.receivers \in [Bit -> SUBSET Bit]
    BY <1>0, <1>1, NetFields
  <2>2. m.type \in [CellId -> Kind \cup {NoType}]
    BY <1>0, <1>1, NetFields
  <2> QED BY <1>0, <1>1, <2>1, <2>2, NetFields DEF Net, BulkDelete
<1>4. CellsNumbered(m)
  BY <1>0, <1>1, <1>2 DEF CellsNumbered
<1>5. \A b \in Bit : b \in InBits(n) \cup OutBits(n) => b.cell \in Cells(n)
  BY <1>0, NoCellNoBits DEF Cells
<1>6. EndsAgreeIn(m)
  <2> SUFFICES ASSUME NEW r \in Bit, NEW d \in Bit
               PROVE  r \in m.receivers[d] <=> m.drivers[r] = d
    BY DEF EndsAgreeIn
  <2>1. r \in m.receivers[d] <=> r \in n.receivers[d] /\ d.cell \in live /\ r.cell \in live
    BY <1>1
  <2>2. m.drivers[r] = d <=> n.drivers[r] = d /\ d.cell \in live /\ r.cell \in live
    BY <1>1, NoBitIsNoBit
  <2> QED BY <1>0, <2>1, <2>2 DEF EndsAgreeIn
<1>7. WiresExistIn(m)
  <2>1. ASSUME NEW r \in Bit, m.drivers[r] # NoBit
        PROVE  r \in InBits(m) /\ m.drivers[r] \in OutBits(m)
    <3>1. m.drivers[r] = n.drivers[r] /\ r.cell \in live /\ n.drivers[r].cell \in live
      BY <1>1, <2>1
    <3> QED BY <1>0, <1>2, <2>1, <3>1 DEF WiresExistIn, OutBits
  <2>2. ASSUME NEW d \in Bit, NEW r \in m.receivers[d]
        PROVE  d \in OutBits(m) /\ r \in InBits(m)
    <3>1. r \in n.receivers[d] /\ d.cell \in live /\ r.cell \in live /\ r \in Bit
      BY <1>0, <1>1, <2>2, NetFields
    <3> QED BY <1>0, <1>2, <3>1 DEF WiresExistIn
  <2> QED BY <2>1, <2>2 DEF WiresExistIn
<1> QED BY <1>3, <1>4, <1>6, <1>7 DEF WellFormed

\* Moving the receivers of an output port: each of them is an input bit, and
\* the bit it is given is the one at the offset it was driven from.
LEMMA MovedTo ==
  ASSUME NEW n, WellFormed(n), NEW c \in CellId, NEW p \in OutPort, NEW with,
         NEW r \in Receivers(n, c, p)
  PROVE  /\ r \in InBits(n)
         /\ n.drivers[r] \in PortOuts(n, c, p)
         /\ Moved(n, c, p, with)[r] = with[n.drivers[r].offset]
<1> DEFINE from == {x \in PortOuts(n, c, p) : r \in n.receivers[x]}
           at   == {d.offset : d \in from}
           e    == n.drivers[r]
<1>0. n \in Net /\ EndsAgreeIn(n) /\ WiresExistIn(n)
  BY DEF WellFormed
<1>1. PICK d \in PortOuts(n, c, p) : r \in n.receivers[d]
  BY DEF Receivers
<1>2. PortOuts(n, c, p) \subseteq Bit
  BY DEF PortOuts, OutBits
<1>3. r \in Bit /\ r \in InBits(n)
  BY <1>0, <1>1, <1>2, NetFields DEF WiresExistIn
<1>4. from = {e} /\ e \in PortOuts(n, c, p)
  BY <1>0, <1>1, <1>2, <1>3 DEF EndsAgreeIn
<1>5. at = {e.offset} /\ e.offset \in Int
  BY <1>2, <1>4, NetlistAssumption DEF Bit, Offset
<1>6. (CHOOSE o \in at : \A q \in at : q <= o) = e.offset
  <2> HIDE DEF at, e
  <2> QED BY <1>5
<1>7. Moved(n, c, p, with)[r] = with[CHOOSE o \in at : \A q \in at : q <= o]
  BY DEF Moved
<1> QED BY <1>3, <1>4, <1>6, <1>7

LEMMA MoveReceiversWellFormed ==
  ASSUME NEW n, WellFormed(n), NEW c \in CellId, NEW p \in OutPort, NEW with,
         \A d \in PortOuts(n, c, p) : with[d.offset] \in OutBits(n)
  PROVE  LET m == MoveReceivers(n, c, p, with)
         IN  /\ WellFormed(m)
             /\ ~MoveReceiversAborts(n, c, p, with)
             /\ m.type = n.type /\ m.next = n.next
             /\ m.portCells = n.portCells /\ m.constNames = n.constNames
             /\ \A r \in Bit : m.drivers[r] =
                   IF r \in Receivers(n, c, p) THEN with[n.drivers[r].offset]
                                               ELSE n.drivers[r]
<1> DEFINE R == Receivers(n, c, p)
           f == Moved(n, c, p, with)
           m == SetDrivers(n, R, f)
<1>0. n \in Net /\ WiresExistIn(n)
  BY DEF WellFormed
<1>1. \A r \in R : /\ r \in InBits(n)
                   /\ f[r] = with[n.drivers[r].offset]
                   /\ f[r] \in OutBits(n)
  BY MovedTo
<1>2. R \in SUBSET InBits(n)
  BY <1>1
<1>3. /\ WellFormed(m) /\ m.type = n.type /\ m.next = n.next
      /\ m.portCells = n.portCells /\ m.constNames = n.constNames
  <2> HIDE DEF R, f
  <2> QED BY <1>1, <1>2, SetDriversWellFormed
<1>4. ~SetDriversAborts(n, R, f)
  BY <1>0, <1>1, NoBitIsNoBit, NetFields DEF SetDriversAborts, WiresExistIn, InBits
<1>5. m.drivers = [b \in Bit |-> IF b \in R THEN f[b] ELSE n.drivers[b]]
  BY <1>0, NetFields DEF SetDrivers
<1> HIDE DEF R, f, m
<1>6. \A r \in Bit : m.drivers[r] = IF r \in R THEN with[n.drivers[r].offset]
                                              ELSE n.drivers[r]
  BY <1>1, <1>5
<1> QED BY <1>3, <1>4, <1>6 DEF R, f, m, MoveReceivers, MoveReceiversAborts

\* clearReceivers is safe on a port that has no receivers left.
LEMMA ClearNoReceivers ==
  ASSUME NEW n, WellFormed(n), NEW c, NEW p, Receivers(n, c, p) = {}
  PROVE  ClearReceivers(n, c, p) = n
<1>0. n \in Net /\ WiresExistIn(n)
  BY DEF WellFormed
<1>1. \A b \in Bit : b.cell = c /\ b.port = p => n.receivers[b] = {}
  BY <1>0 DEF Receivers, PortOuts, WiresExistIn
<1>2. n.receivers = [b \in Bit |-> IF b.cell = c /\ b.port = p THEN {} ELSE n.receivers[b]]
  BY <1>0, <1>1, NetFields
<1> QED BY <1>0, <1>2, NetFields DEF ClearReceivers

\* Definition m is n with port p of cell c tied to the next cell.
Replaced(m, n, c, p) ==
  /\ \A x \in m.constNames : x \in n.constNames \/ x = <<c, p>>
  /\ \A r \in Bit : r \notin Receivers(n, c, p) => m.drivers[r] = n.drivers[r]
  /\ \A r \in Receivers(n, c, p) : m.drivers[r].cell = n.next
  /\ Receivers(m, c, p) = {}

\* replaceCellPortWithConstant: every receiver of the port moves to the new
\* constant, so the final clearReceivers finds nothing to clear; on a port
\* whose constant has a new name no assertion fails.  Nothing else is rewired.
LEMMA ReplaceWithConstantWellFormed ==
  ASSUME NEW n, WellFormed(n), n.next <= MaxId,
         NEW c \in Cells(n), NEW p \in OutPort,
         NEW k \in Kind, k.tp = "CONST", k.width = Width(n.type[c], p)
  PROVE  LET m == ReplaceWithConstant(n, c, p, k)
         IN  /\ WellFormed(m)
             /\ m.type = [n.type EXCEPT ![n.next] = k] /\ m.portCells = n.portCells
             /\ Replaced(m, n, c, p)
             /\ ~NameTaken(n, c, p) => ~ReplaceWithConstantAborts(n, c, p, k)
<1> DEFINE named == [n EXCEPT !.constNames = @ \cup {<<c, p>>}]
           with  == Bus(n.next, "OUT")
<1>0. n \in Net /\ c \in CellId /\ n.next \in CellId
  BY NetFields, NetlistAssumption DEF WellFormed, Cells, CellId
<1>1. /\ WellFormed(named) /\ named.type = n.type /\ named.next = n.next
      /\ named.portCells = n.portCells /\ named.drivers = n.drivers
      /\ named.receivers = n.receivers /\ named.constNames = n.constNames \cup {<<c, p>>}
  <2>1. /\ named.type = n.type /\ named.drivers = n.drivers /\ named.receivers = n.receivers
        /\ named.next = n.next /\ named.portCells = n.portCells
        /\ named.constNames = n.constNames \cup {<<c, p>>}
    BY <1>0, NetFields
  <2>2. named \in Net
    BY <1>0, NetFields DEF Net
  <2>3. InBits(named) = InBits(n) /\ OutBits(named) = OutBits(n) /\ Cells(named) = Cells(n)
    BY <2>1, SameTypeSameBits
  <2> HIDE DEF named
  <2> QED BY <2>1, <2>2, <2>3 DEF WellFormed, CellsNumbered, EndsAgreeIn, WiresExistIn
<1>2. ASSUME NEW m, WellFormed(m), m.type = n.type, m.next = n.next
      PROVE  LET a == AddCell(m, k)
             IN  /\ WellFormed(a)
                 /\ \A d \in PortOuts(a, c, p) : with[d.offset] \in OutBits(a)
                 /\ n.next # c
  <2> DEFINE a == AddCell(m, k)
  <2>1. WellFormed(a) /\ m.next \notin Cells(m) /\ m \in Net
    BY <1>2, AddCellWellFormed DEF WellFormed
  <2>2. n.next # c /\ a.type[n.next] = k /\ a.type[c] = n.type[c]
    <3>1. n.next # c
      BY <1>2, <2>1, SameTypeSameBits
    <3>2. a.type = [m.type EXCEPT ![m.next] = k]
      BY <2>1, NetFields DEF AddCell
    <3> HIDE DEF a
    <3> QED BY <1>0, <1>2, <2>1, <3>1, <3>2, NetFields
  <2>3. PortWidths(k) = [OUT |-> k.width] /\ k # NoType
    BY NetlistAssumption DEF PortWidths, NoType, Comparator, Binop, ReduceOp, Unop
  <2>4. "OUT" \in OutPort /\ Width(k, "OUT") = k.width
    BY <2>3 DEF Width, OutPort, Port
  <2>5. ASSUME NEW d \in PortOuts(a, c, p)
        PROVE  with[d.offset] \in OutBits(a)
    <3>1. d.offset \in Offset /\ d.offset < k.width
      BY <2>2, <2>5 DEF PortOuts, OutBits, Bit
    <3> QED BY <1>0, <2>2, <2>4, <3>1 DEF Bus, OutBits, OutPort, Bit
  <2> QED BY <2>1, <2>2, <2>5
<1>3. LET w == ReplaceWithConstant(n, c, p, k)
      IN  /\ WellFormed(w)
          /\ w.type = [n.type EXCEPT ![n.next] = k] /\ w.portCells = n.portCells
          /\ \A x \in w.constNames : x \in n.constNames \/ x = <<c, p>>
          /\ \A r \in Bit : r \notin Receivers(n, c, p) => w.drivers[r] = n.drivers[r]
          /\ \A r \in Receivers(n, c, p) : w.drivers[r].cell = n.next
          /\ Receivers(w, c, p) = {}
  <2> DEFINE a == AddCell(named, k)
             m == MoveReceivers(a, c, p, with)
  <2>1. /\ WellFormed(a) /\ n.next # c
        /\ \A d \in PortOuts(a, c, p) : with[d.offset] \in OutBits(a)
    <3> HIDE DEF named, with
    <3> QED BY <1>1, <1>2
  <2>a. /\ a.type = [n.type EXCEPT ![n.next] = k] /\ a.portCells = n.portCells
        /\ a.drivers = n.drivers /\ a.receivers = n.receivers
        /\ a.constNames = n.constNames \cup {<<c, p>>}
    <3> HIDE DEF named
    <3> QED BY <1>1, NetFields DEF AddCell, WellFormed
  <2>b. Receivers(a, c, p) = Receivers(n, c, p)
    <3>1. a.type[c] = n.type[c]
      BY <1>0, <2>1, <2>a, NetFields
    <3>2. PortOuts(a, c, p) = PortOuts(n, c, p)
      BY <3>1 DEF PortOuts, OutBits
    <3> HIDE DEF a
    <3> QED BY <2>a, <3>2 DEF Receivers
  <2>2. /\ WellFormed(m) /\ m.type = a.type /\ m.portCells = a.portCells
        /\ m.constNames = a.constNames
        /\ \A r \in Bit : m.drivers[r] = IF r \in Receivers(a, c, p)
                                         THEN with[a.drivers[r].offset]
                                         ELSE a.drivers[r]
    <3> HIDE DEF a, with
    <3> QED BY <1>0, <2>1, MoveReceiversWellFormed
  <2> HIDE DEF a
  <2>3. \A r \in Receivers(a, c, p) : m.drivers[r].cell = n.next
    <3> SUFFICES ASSUME NEW r \in Receivers(a, c, p)
                 PROVE  m.drivers[r].cell = n.next
      OBVIOUS
    <3>1. r \in Bit /\ a.drivers[r].offset \in Offset
      BY <1>0, <2>1, MovedTo DEF PortOuts, OutBits, InBits, Bit
    <3> QED BY <2>2, <3>1 DEF Bus
  <2> HIDE DEF m
  <2>4. Receivers(m, c, p) = {}
    <3> SUFFICES ASSUME NEW d \in PortOuts(m, c, p), NEW r \in m.receivers[d] PROVE FALSE
      BY DEF Receivers
    <3>1. m \in Net /\ a \in Net /\ d \in Bit /\ d.cell = c /\ d.port = p /\ r \in Bit
      BY <2>1, <2>2, NetFields DEF WellFormed, PortOuts, OutBits
    <3>2. m.drivers[r] = d
      BY <2>2, <3>1 DEF WellFormed, EndsAgreeIn
    <3>3. r \notin Receivers(a, c, p)
      BY <2>1, <2>3, <3>1, <3>2
    <3>4. a.drivers[r] = d
      BY <2>2, <3>1, <3>2, <3>3
    <3>5. r \in a.receivers[d] /\ d \in OutBits(a)
      BY <2>1, <3>1, <3>4 DEF WellFormed, EndsAgreeIn, WiresExistIn
    <3> QED BY <3>1, <3>3, <3>5 DEF Receivers, PortOuts
  <2>5. ReplaceWithConstant(n, c, p, k) = m
    BY <2>2, <2>4, ClearNoReceivers DEF a, m, ReplaceWithConstant
  <2> QED BY <2>2, <2>3, <2>4, <2>5, <2>a, <2>b
<1>4. ~MoveReceiversAborts(AddCell(n, k), c, p, with)
  <2> HIDE DEF with
  <2> QED BY <1>0, <1>2, MoveReceiversWellFormed
<1> QED BY <1>3, <1>4 DEF ReplaceWithConstantAborts, Replaced

-----------------------------------------------------------------------------
(* The elements of a finite set in order: InOrderOf, whose order is a        *)
(* parameter, is reasoned about through the relation R of the order.         *)

StrictOrder(S, R) ==
  /\ \A s \in S : <<s, s>> \notin R
  /\ \A s, t, u \in S : <<s, t>> \in R /\ <<t, u>> \in R => <<s, u>> \in R
  /\ \A s, t \in S : s # t => <<s, t>> \in R \/ <<t, s>> \in R

Preceding(S, R, s) == {t \in S : <<t, s>> \in R}

Rank(S, R, s) == Cardinality(Preceding(S, R, s))

\* The rank of an element is less than the number of elements, and grows with the order.
LEMMA RanksGrow ==
  ASSUME NEW S, IsFiniteSet(S), NEW R, StrictOrder(S, R)
  PROVE  /\ Cardinality(S) \in Nat
         /\ \A s \in S : Rank(S, R, s) \in 0 .. Cardinality(S) - 1
         /\ \A s, t \in S : <<s, t>> \in R => Rank(S, R, s) < Rank(S, R, t)
<1>1. Cardinality(S) \in Nat BY FS_CardinalityType
<1>2. \A s \in S : /\ IsFiniteSet(Preceding(S, R, s)) /\ Rank(S, R, s) \in Nat
                   /\ Rank(S, R, s) <= Cardinality(S)
  BY FS_Subset, FS_CardinalityType DEF Preceding, Rank
<1>3. ASSUME NEW s \in S PROVE Rank(S, R, s) # Cardinality(S)
  <2>1. s \notin Preceding(S, R, s) BY DEF StrictOrder, Preceding
  <2>2. Preceding(S, R, s) \in SUBSET S BY DEF Preceding
  <2> QED BY <2>1, <2>2, FS_Subset DEF Rank
<1>4. ASSUME NEW s \in S, NEW t \in S, <<s, t>> \in R PROVE Rank(S, R, s) < Rank(S, R, t)
  <2>1. Preceding(S, R, s) \in SUBSET Preceding(S, R, t) BY <1>4 DEF StrictOrder, Preceding
  <2>2. s \in Preceding(S, R, t) /\ s \notin Preceding(S, R, s) BY <1>4 DEF StrictOrder, Preceding
  <2> QED BY <1>2, <2>1, <2>2, FS_Subset DEF Rank
<1> QED BY <1>1, <1>2, <1>3, <1>4

\* Every place has an element.
LEMMA EveryRankIsTaken ==
  ASSUME NEW S, IsFiniteSet(S), NEW R, StrictOrder(S, R), NEW i \in 1 .. Cardinality(S)
  PROVE  \E s \in S : Rank(S, R, s) = i - 1
<1> DEFINE n == Cardinality(S)
           place == [s \in S |-> Rank(S, R, s) + 1]
<1>1. n \in Nat /\ place \in [S -> 1 .. n] BY RanksGrow
<1>2. \A s, t \in S : place[s] = place[t] => s = t
  <2> TAKE s \in S, t \in S
  <2>1. s # t => <<s, t>> \in R \/ <<t, s>> \in R BY DEF StrictOrder
  <2>2. <<s, t>> \in R => Rank(S, R, s) < Rank(S, R, t) BY RanksGrow
  <2>3. <<t, s>> \in R => Rank(S, R, t) < Rank(S, R, s) BY RanksGrow
  <2>4. Rank(S, R, s) \in Int /\ Rank(S, R, t) \in Int BY RanksGrow
  <2> QED BY <2>1, <2>2, <2>3, <2>4
<1>3. place \in Injection(S, 1 .. n) BY <1>1, <1>2 DEF Injection, IsInjective
<1>4. IsFiniteSet(1 .. n) /\ Cardinality(1 .. n) = n BY <1>1, FS_Interval
<1>5. place \in Surjection(S, 1 .. n) BY <1>3, <1>4, FS_Injection
<1>6. \E s \in S : place[s] = i BY <1>5 DEF Surjection
<1> QED BY <1>1, <1>6, RanksGrow

\* What InOrderOf makes of it.
InSequence(q, S, R) ==
  /\ q \in [1 .. Cardinality(S) -> S]
  /\ Cardinality(S) \in Nat
  /\ \A s \in S : \E i \in 1 .. Cardinality(S) : q[i] = s
  /\ \A i, j \in 1 .. Cardinality(S) : i < j => <<q[i], q[j]>> \in R

LEMMA RankedIsInSequence ==
  ASSUME NEW S, IsFiniteSet(S), NEW R, StrictOrder(S, R), NEW q,
         q \in [1 .. Cardinality(S) -> S],
         \A i \in 1 .. Cardinality(S) : Rank(S, R, q[i]) = i - 1
  PROVE  InSequence(q, S, R)
<1>0. Cardinality(S) \in Nat BY RanksGrow
<1>1. ASSUME NEW i \in 1 .. Cardinality(S), NEW j \in 1 .. Cardinality(S), i < j
      PROVE  <<q[i], q[j]>> \in R
  <2>1. q[i] \in S /\ q[j] \in S BY <1>1
  <2>2. <<q[j], q[i]>> \in R => Rank(S, R, q[j]) < Rank(S, R, q[i]) BY <2>1, RanksGrow
  <2>3. Rank(S, R, q[i]) = i - 1 /\ Rank(S, R, q[j]) = j - 1 OBVIOUS
  <2>4. q[i] # q[j] BY <1>1, <2>3, <1>0
  <2> QED BY <1>1, <2>1, <2>2, <2>3, <2>4, <1>0 DEF StrictOrder
<1>2. ASSUME NEW s \in S PROVE \E i \in 1 .. Cardinality(S) : q[i] = s
  <2> DEFINE i == Rank(S, R, s) + 1
  <2>1. i \in 1 .. Cardinality(S) BY <1>0, RanksGrow
  <2>2. q[i] \in S /\ Rank(S, R, q[i]) = Rank(S, R, s) BY <2>1, <1>0, RanksGrow
  <2>3. Rank(S, R, s) \in Int BY RanksGrow
  <2>4. <<q[i], s>> \in R => Rank(S, R, q[i]) < Rank(S, R, s) BY <2>2, RanksGrow
  <2>5. <<s, q[i]>> \in R => Rank(S, R, s) < Rank(S, R, q[i]) BY <2>2, RanksGrow
  <2>6. q[i] = s BY <2>2, <2>3, <2>4, <2>5 DEF StrictOrder
  <2> QED BY <2>1, <2>6
<1> QED BY <1>0, <1>1, <1>2 DEF InSequence

\* Numbers are in order by themselves.
NumberOrder == {p \in Nat \X Nat : p[1] < p[2]}

LEMMA NumbersInOrder ==
  ASSUME NEW S \in SUBSET Nat, IsFiniteSet(S)
  PROVE  InSequence(InOrderOf(S, <), S, NumberOrder)
<1> DEFINE q == InOrderOf(S, <)
           Place(s) == {t \in S : t < s}
<1>1. StrictOrder(S, NumberOrder) BY DEF StrictOrder, NumberOrder
<1>2. \A s \in S : Place(s) = Preceding(S, NumberOrder, s) BY DEF NumberOrder, Preceding
<1>3. ASSUME NEW i \in 1 .. Cardinality(S)
      PROVE  q[i] \in S /\ Rank(S, NumberOrder, q[i]) = i - 1
  <2>1. q[i] = CHOOSE s \in S : Cardinality(Place(s)) = i - 1 BY DEF InOrderOf
  <2>2. \E s \in S : Rank(S, NumberOrder, s) = i - 1 BY <1>1, EveryRankIsTaken
  <2>3. \E s \in S : Cardinality(Place(s)) = i - 1 BY <2>2, <1>2 DEF Rank
  <2>4. q[i] \in S /\ Cardinality(Place(q[i])) = i - 1 BY <2>1, <2>3
  <2> QED BY <2>4, <1>2 DEF Rank
<1>4. q \in [1 .. Cardinality(S) -> S] BY <1>3 DEF InOrderOf
<1> QED BY <1>1, <1>3, <1>4, RankedIsInSequence

\* Induction over the natural numbers, by a least counterexample.
LEMMA LeastNumber ==
  ASSUME NEW T \in SUBSET Nat, T # {}
  PROVE  \E k \in T : \A j \in T : k <= j
<1>1. IsWellFoundedOn(NumberOrder, Nat)
  BY NatLessThanWellFounded DEF OpToRel, NumberOrder
<1>2. PICK k \in T : \A j \in T : ~ (<<j, k>> \in NumberOrder)
  BY <1>1, WFMin
<1>3. ASSUME NEW j \in T PROVE k <= j
  <2>1. k \in Nat /\ j \in Nat
    OBVIOUS
  <2>2. j < k => <<j, k>> \in NumberOrder
    BY <2>1 DEF NumberOrder
  <2> QED BY <1>2, <2>1, <2>2
<1> QED BY <1>3
=============================================================================
