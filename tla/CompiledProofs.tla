--------------------------- MODULE CompiledProofs ---------------------------
(***************************************************************************)
(* The compiled simulation, for every family of circuits without           *)
(* combinational cycles: the schedule visits readers after their drivers   *)
(* and covers every change, the table has bits, and the update along the   *)
(* schedule implements the synchronous circuit.                            *)
(***************************************************************************)
EXTENDS Compiled, CellProofs

-----------------------------------------------------------------------------
(* The order of ports.                                                       *)

\* The ports of all cells, and the numbers their order goes by.
PortName == DOMAIN PortId

SigPorts == [cell : CellId, port : PortName]

Number(s) == 12 * s.cell + PortId[s.port]

LEMMA PortNumbers ==
  /\ \A s \in SigPorts : Number(s) \in 0 .. 12 * MaxId + 11
  /\ \A s, t \in SigPorts : Below(s, t) <=> Number(s) < Number(t)
  /\ \A s, t \in SigPorts : Number(s) = Number(t) => s = t
<1> DEFINE id == PortId
<1>1. \A p \in PortName : id[p] \in 0 .. 11 BY DEF PortName, PortId
<1>2. \A p, q \in PortName : id[p] = id[q] => p = q BY DEF PortName, PortId
<1>3. \A s \in SigPorts : s.cell \in 1 .. MaxId /\ s.port \in PortName BY DEF SigPorts, CellId
<1>4. \A s, t \in SigPorts : s.cell = t.cell /\ s.port = t.port => s = t BY DEF SigPorts
<1> HIDE DEF id
<1> USE NetlistAssumption
<1>5. \A s \in SigPorts : Number(s) = 12 * s.cell + id[s.port] BY DEF Number, id
<1>6. \A s, t \in SigPorts : Below(s, t) <=> (s.cell < t.cell \/ (s.cell = t.cell /\ id[s.port] < id[t.port]))
  BY DEF Below, id
<1>7. \A s \in SigPorts : s.cell \in Nat /\ s.cell <= MaxId /\ id[s.port] \in 0 .. 11 BY <1>1, <1>3
<1>8. ASSUME NEW s \in SigPorts PROVE Number(s) \in 0 .. 12 * MaxId + 11
  BY <1>5, <1>7
<1>9. ASSUME NEW s \in SigPorts, NEW t \in SigPorts PROVE Below(s, t) <=> Number(s) < Number(t)
  BY <1>5, <1>6, <1>7
<1>10. ASSUME NEW s \in SigPorts, NEW t \in SigPorts, Number(s) = Number(t) PROVE s = t
  <2>1. s.cell = t.cell /\ id[s.port] = id[t.port] BY <1>5, <1>7, <1>10
  <2> QED BY <2>1, <1>2, <1>3, <1>4
<1> QED BY <1>8, <1>9, <1>10

LEMMA SigPortsFinite == IsFiniteSet(SigPorts)
<1> DEFINE f == [s \in SigPorts |-> Number(s)]
           T == 0 .. 12 * MaxId + 11
<1>1. f \in Injection(SigPorts, T) BY PortNumbers DEF Injection, IsInjective
<1>2. IsFiniteSet(T) BY NetlistAssumption, FS_Interval
<1> QED BY <1>1, <1>2, FS_Injection

\* The order of ports as a relation.
PortOrder == {p \in SigPorts \X SigPorts : Below(p[1], p[2])}

LEMMA PortOrderIsStrict ==
  ASSUME NEW S \in SUBSET SigPorts PROVE StrictOrder(S, PortOrder)
<1>1. \A s, t \in S : <<s, t>> \in PortOrder <=> Number(s) < Number(t) BY PortNumbers DEF PortOrder
<1>2. \A s, t \in S : /\ Number(s) \in Nat
                      /\ s # t => Number(s) # Number(t) BY PortNumbers
<1> HIDE DEF PortOrder
<1> QED BY <1>1, <1>2 DEF StrictOrder

\* A set of ports in order has the elements of the set, no others.
LEMMA PortsInOrder ==
  ASSUME NEW S \in SUBSET SigPorts
  PROVE  /\ InOrder(S) \in Seq(S)
         /\ \A s \in S : \E i \in DOMAIN InOrder(S) : InOrder(S)[i] = s
<1> DEFINE q == InOrder(S)
           Place(s) == {t \in S : Below(t, s)}
<1>1. IsFiniteSet(S) BY SigPortsFinite, FS_Subset
<1>2. Cardinality(S) \in Nat BY <1>1, FS_CardinalityType
<1>3. \A s \in S : Place(s) = Preceding(S, PortOrder, s) BY DEF PortOrder, Preceding
<1>4. ASSUME NEW i \in 1 .. Cardinality(S)
      PROVE  q[i] \in S /\ Rank(S, PortOrder, q[i]) = i - 1
  <2>1. q[i] = CHOOSE s \in S : Cardinality(Place(s)) = i - 1 BY DEF InOrder, InOrderOf
  <2>2. \E s \in S : Rank(S, PortOrder, s) = i - 1 BY <1>1, EveryRankIsTaken, PortOrderIsStrict
  <2>3. \E s \in S : Cardinality(Place(s)) = i - 1 BY <2>2, <1>3 DEF Rank
  <2>4. q[i] \in S /\ Cardinality(Place(q[i])) = i - 1 BY <2>1, <2>3
  <2> QED BY <2>4, <1>3 DEF Rank
<1>5. q \in [1 .. Cardinality(S) -> S] BY <1>4 DEF InOrder, InOrderOf
<1>6. InSequence(q, S, PortOrder) BY <1>1, <1>4, <1>5, PortOrderIsStrict, RankedIsInSequence
<1> HIDE DEF q
<1>7. q \in Seq(S) /\ DOMAIN q = 1 .. Cardinality(S) BY <1>2, <1>5
<1>8. \A s \in S : \E i \in DOMAIN q : q[i] = s BY <1>6, <1>7 DEF InSequence
<1> QED BY <1>7, <1>8 DEF q

-----------------------------------------------------------------------------
(* compileCircuit: a group with the last update of every cell.               *)

\* Every cell that is updated has a last update.
LEMMA LastUpdateExists ==
  ASSUME NEW T, NEW ports \in Seq(T), NEW j \in DOMAIN ports
  PROVE  \E k \in LastUpdates(ports) : j <= k /\ ports[k].cell = ports[j].cell
<1> DEFINE late == {k \in Nat : \A i \in DOMAIN ports : ports[i].cell = ports[j].cell => i <= k}
<1>0. Len(ports) \in Nat /\ DOMAIN ports = 1 .. Len(ports) OBVIOUS
<1>1. Len(ports) \in late BY <1>0
<1>2. PICK k \in late : \A l \in late : k <= l BY <1>1, LeastNumber
<1>3. j <= k /\ k \in Nat BY <1>0, <1>2
<1>4. k \in DOMAIN ports /\ ports[k].cell = ports[j].cell
  <2> SUFFICES ASSUME ~(k \in DOMAIN ports /\ ports[k].cell = ports[j].cell) PROVE FALSE
    OBVIOUS
  <2>1. \A i \in DOMAIN ports : ports[i].cell = ports[j].cell => i <= k /\ i # k BY <1>2
  <2>2. k - 1 \in Nat BY <1>0, <1>3
  <2>3. \A i \in DOMAIN ports : ports[i].cell = ports[j].cell => i <= k - 1 BY <2>1, <2>2, <1>0
  <2>4. k - 1 \in late BY <2>2, <2>3
  <2> QED BY <2>4, <1>2, <1>3
<1>5. k \in LastUpdates(ports)
  <2>1. \A i \in DOMAIN ports : k < i => ports[i].cell # ports[k].cell BY <1>0, <1>2, <1>3, <1>4
  <2> QED BY <1>4, <2>1 DEF LastUpdates
<1> QED BY <1>3, <1>4, <1>5

CellsOf(ports) == {ports[i].cell : i \in DOMAIN ports}

\* The cells of a group are those that are updated; of two whose last updates are in this
\* order, the first comes first.
LEMMA FilteredGroup ==
  ASSUME NEW T, NEW ports \in Seq(T)
  PROVE  /\ Filtered(ports) \in Seq(CellsOf(ports))
         /\ \A c \in CellsOf(ports) : \E a \in DOMAIN Filtered(ports) : Filtered(ports)[a] = c
         /\ \A a \in DOMAIN Filtered(ports) :
              \E i \in LastUpdates(ports) :
                /\ Filtered(ports)[a] = ports[i].cell
                /\ \A j \in LastUpdates(ports) : i < j =>
                     \E b \in DOMAIN Filtered(ports) : a < b /\ Filtered(ports)[b] = ports[j].cell
<1> DEFINE S == LastUpdates(ports)
           kept == InOrderOf(S, <)
           group == Filtered(ports)
<1>0. Len(ports) \in Nat /\ DOMAIN ports = 1 .. Len(ports) OBVIOUS
<1>1. S \in SUBSET Nat /\ S \subseteq DOMAIN ports BY <1>0 DEF LastUpdates
<1>2. IsFiniteSet(S)
  <2>1. IsFiniteSet(1 .. Len(ports)) BY <1>0, FS_Interval
  <2>2. S \in SUBSET (1 .. Len(ports)) BY <1>0, <1>1
  <2> QED BY <2>1, <2>2, FS_Subset
<1>3. InSequence(kept, S, NumberOrder) BY <1>1, <1>2, NumbersInOrder
<1>4. group = [i \in DOMAIN kept |-> ports[kept[i]].cell] BY DEF Filtered
<1> DEFINE n == Cardinality(S)
<1> HIDE DEF S, kept, group, n
<1>5. /\ n \in Nat /\ DOMAIN kept = 1 .. n /\ DOMAIN group = 1 .. n
      /\ \A i \in 1 .. n : kept[i] \in S /\ group[i] = ports[kept[i]].cell
      /\ \A s \in S : \E i \in 1 .. n : kept[i] = s
      /\ \A i, j \in 1 .. n : i < j => kept[i] < kept[j]
  BY <1>3, <1>4 DEF InSequence, NumberOrder, n
<1>6. group \in Seq(CellsOf(ports))
  <2>1. \A i \in 1 .. n : group[i] \in CellsOf(ports) BY <1>1, <1>5 DEF CellsOf
  <2>2. group = [i \in 1 .. n |-> group[i]] BY <1>4, <1>5
  <2> QED BY <1>5, <2>1, <2>2
<1>7. ASSUME NEW c \in CellsOf(ports) PROVE \E a \in DOMAIN group : group[a] = c
  <2>1. PICK j \in DOMAIN ports : ports[j].cell = c BY DEF CellsOf
  <2>2. PICK k \in S : ports[k].cell = c BY <2>1, LastUpdateExists DEF S
  <2> QED BY <2>2, <1>5
<1>8. ASSUME NEW a \in DOMAIN group
      PROVE  \E i \in S :
               /\ group[a] = ports[i].cell
               /\ \A j \in S : i < j => \E b \in DOMAIN group : a < b /\ group[b] = ports[j].cell
  <2>1. kept[a] \in S /\ group[a] = ports[kept[a]].cell BY <1>5
  <2>2. ASSUME NEW j \in S, kept[a] < j
        PROVE  \E b \in DOMAIN group : a < b /\ group[b] = ports[j].cell
    <3>1. PICK b \in 1 .. n : kept[b] = j BY <1>5
    <3>2. kept[a] \in Nat /\ j \in Nat /\ a \in 1 .. n BY <1>1, <1>5
    <3>3. b < a => kept[b] < kept[a] BY <1>5, <3>2
    <3>4. b # a /\ ~(b < a) BY <3>1, <3>2, <3>3, <2>2
    <3> QED BY <3>1, <3>2, <3>4, <1>5
  <2> QED BY <2>1, <2>2
<1> QED BY <1>6, <1>7, <1>8 DEF S, group

-----------------------------------------------------------------------------
(* Ports.                                                                    *)

\* The ports of a cell that the semantics knows are named, and have an order.
LEMMA PortsAreNamed ==
  /\ Port \subseteq PortName /\ InPort \subseteq Port
  /\ \A k \in Kind : k.tp \in {"REG", "REG_ARST"} => "OUT" \in Port
  /\ \A k \in Kind : k.tp = "MEM" => "RADDR" \in Port
<1>1. ASSUME NEW k \in Kind PROVE DOMAIN PortWidths(k) \subseteq PortName
  <2> USE DEF PortWidths, Comparator, Binop, ReduceOp, Unop, PortName, PortId
  <2>1. CASE k.tp \in {"PORT", "CONST"} BY <2>1
  <2>2. CASE k.tp \in {"ORR", "ANDR"} BY <2>2
  <2>3. CASE k.tp \in {"NOT", "PASSTHROUGH"} BY <2>3
  <2>4. CASE k.tp \in {"ZEXT", "SLICE"} BY <2>4
  <2>5. CASE k.tp \in {"EQ", "NEQ", "ULT", "ULE", "UGT", "UGE"} BY <2>5
  <2>6. CASE k.tp \in {"AND", "OR", "XOR", "ADD", "SUB"} BY <2>6
  <2>7. CASE k.tp = "MUX" BY <2>7
  <2>8. CASE k.tp = "REG" BY <2>8
  <2>9. CASE k.tp = "REG_ARST" BY <2>9
  <2>10. CASE k.tp = "MEM" BY <2>10
  <2> QED
    BY <2>1, <2>2, <2>3, <2>4, <2>5, <2>6, <2>7, <2>8, <2>9, <2>10, SemanticsAssumption
       DEF Simulated, Unary, Binary
<1>2. ASSUME NEW k \in Kind, k.tp \in {"REG", "REG_ARST"} PROVE "OUT" \in Port
  <2>1. "OUT" \in DOMAIN PortWidths(k) BY <1>2 DEF PortWidths, Comparator, Binop, ReduceOp, Unop
  <2> QED BY <2>1 DEF Port
<1>3. ASSUME NEW k \in Kind, k.tp = "MEM" PROVE "RADDR" \in Port
  <2>1. "RADDR" \in DOMAIN PortWidths(k) BY <1>3 DEF PortWidths, Comparator, Binop, ReduceOp, Unop
  <2> QED BY <2>1 DEF Port
<1> QED BY <1>1, <1>2, <1>3 DEF Port, InPort

\* The first port of a set is in it.
LEMMA FirstIsIn ==
  ASSUME NEW S \in SUBSET SigPorts, S # {}
  PROVE  First(S) \in S
<1> DEFINE numbers == {Number(s) : s \in S}
<1>1. numbers \in SUBSET Nat /\ numbers # {} BY PortNumbers
<1>2. PICK k \in numbers : \A j \in numbers : k <= j BY <1>1, LeastNumber
<1>3. PICK s \in S : Number(s) = k BY <1>2
<1>4. \A t \in S : s = t \/ Below(s, t)
  <2> TAKE t \in S
  <2>1. Number(s) <= Number(t) BY <1>2, <1>3
  <2>2. Number(s) \in Nat /\ Number(t) \in Nat BY PortNumbers
  <2>3. Number(s) = Number(t) => s = t BY PortNumbers
  <2>4. Number(s) < Number(t) => Below(s, t) BY PortNumbers
  <2> QED BY <2>1, <2>2, <2>3, <2>4
<1> QED BY <1>4 DEF First

-----------------------------------------------------------------------------
(* The schedule.                                                             *)

\* The cells a group may have.
Active(n) == Evaluated(n) \cup Registers(n)

PortsOf(n) == [cell : Active(n), port : Port]

\* Whose change is passed on is a cell of the definition; what is clocked has a state.
LEMMA DependenciesArePorts ==
  ASSUME NEW n, WellFormed(n), NEW c \in CellId
  PROVE  /\ CombDependencies(n, c) \in SUBSET PortsOf(n)
         /\ SeqReceivers(n, c) \in SUBSET PortsOf(n)
         /\ \A s \in SeqReceivers(n, c) : s.cell \in Registers(n) \cup Memories(n)
<1>1. \A p \in OutPort : PinOf(c, p) \in Bit
  BY NetlistAssumption DEF PinOf, Bit, OutPort, Offset
<1>2. OutReceivers(n, c) \subseteq InBits(n)
  BY <1>1 DEF OutReceivers, WellFormed, WiresExistIn
<1>3. ASSUME NEW r \in InBits(n) PROVE SigPort(r) \in PortsOf(n) /\ r.cell \in Cells(n)
  <2>1. r.cell \in CellId /\ r.port \in Port /\ r \in CellIns(n, r.cell) BY DEF InBits, Bit, CellIns
  <2>2. /\ r.cell \in Cells(n) /\ Tp(n, r.cell) # "CONST"
        /\ Tp(n, r.cell) = "PORT" => n.type[r.cell].dir # "in"
    BY <2>1, ReadingCell
  <2>3. r.cell \in Active(n) BY <2>2 DEF Active, Evaluated, Inputs
  <2> QED BY <2>1, <2>2, <2>3 DEF SigPort, PortsOf
<1>4. ASSUME NEW r \in InBits(n), r.port \in {"CLK", "ARST"}
      PROVE  r.cell \in Registers(n) \cup Memories(n)
  <2> DEFINE k == n.type[r.cell]
  <2>1. k \in Kind /\ r.port \in DOMAIN PortWidths(k)
    <3>1. r.cell \in CellId /\ k # NoType /\ n.type \in [CellId -> Kind \cup {NoType}]
      BY NoCellNoBits, NetFields DEF WellFormed
    <3>2. r.offset < Width(k, r.port) /\ r.offset \in Nat
      BY NetlistAssumption DEF InBits, Bit, Offset
    <3> QED BY <3>1, <3>2 DEF Width
  <2>2. k.tp \in {"REG", "REG_ARST", "MEM"}
    <3> HIDE DEF k
    <3> USE <1>4, <2>1 DEF PortWidths, Comparator, Binop, ReduceOp, Unop
    <3>1. k.tp \notin {"PORT", "CONST"} OBVIOUS
    <3>2. k.tp \notin {"EQ", "NEQ", "ULT", "ULE", "UGT", "UGE"} OBVIOUS
    <3>3. k.tp \notin {"AND", "OR", "XOR", "ADD", "SUB"} OBVIOUS
    <3>4. k.tp \notin {"ORR", "ANDR", "NOT", "PASSTHROUGH", "ZEXT", "SLICE", "MUX"} OBVIOUS
    <3> QED BY <3>1, <3>2, <3>3, <3>4, SemanticsAssumption DEF Simulated, Unary, Binary
  <2> QED BY <1>3, <2>2 DEF Registers, Memories, Tp
<1>5. SeqReceivers(n, c) \in SUBSET PortsOf(n) BY <1>2, <1>3 DEF SeqReceivers
<1>6. CombReceivers(n, c) \in SUBSET PortsOf(n) BY <1>2, <1>3 DEF CombReceivers
<1>7. \A s \in SeqReceivers(n, c) : s.cell \in Registers(n) \cup Memories(n)
  BY <1>2, <1>4 DEF SeqReceivers, SigPort
<1> QED BY <1>5, <1>6, <1>7 DEF CombDependencies

\* A set of cells that has all that the sources pass their change on to, and all that its
\* own cells do, has every combinational cell but the memories.
LEMMA ClosedSetCovers ==
  ASSUME NEW n, WellFormed(n), FullyDriven(n), Acyclic(n), NEW R,
         \A c \in R \cup Sources(n) : \A s \in CombDependencies(n, c) : s.cell \in R
  PROVE  Evaluated(n) \ Memories(n) \subseteq R
<1> DEFINE S == (Evaluated(n) \ Memories(n)) \ R
<1> SUFFICES ASSUME S # {} PROVE FALSE OBVIOUS
<1>1. PICK c \in S : \A p \in Reads(Tp(n, c)) : Driver(n, c, p) \notin S BY DEF Acyclic
<1>2. n \in Net BY DEF WellFormed
<1>3. /\ n.type[c] \in Kind /\ Tp(n, c) \in CombTypes
      /\ Tp(n, c) = "PORT" => n.type[c].dir # "in"
  BY <1>2, EvaluatedTypes
<1>4. PICK p \in Reads(Tp(n, c)) : TRUE BY <1>3, ReadsArePorts DEF Tp
<1>5. /\ Driver(n, c, p) \in Cells(n) /\ PinOf(c, p) \in OutReceivers(n, Driver(n, c, p))
      /\ p \in {"IN", "IN0", "IN1", "SEL", "RADDR"}
  BY ReadsCells
<1>6. Driver(n, c, p) \in R \cup Sources(n) BY <1>1, <1>5 DEF Sources
<1> DEFINE s == [cell |-> c, port |-> p]
<1>7. s \in CombReceivers(n, Driver(n, c, p))
  <2>1. s = SigPort(PinOf(c, p)) /\ PinOf(c, p).port = p BY DEF SigPort, PinOf
  <2> QED BY <1>5, <2>1 DEF CombReceivers
<1>8. c \notin Registers(n) \cup Memories(n) BY DEF Evaluated
<1>9. s \in CombDependencies(n, Driver(n, c, p)) BY <1>7, <1>8 DEF CombDependencies
<1> QED BY <1>6, <1>9

\* The cells some cells reach are closed under dependencies, and have the cells they started from.
LEMMA ReachedIsClosed ==
  ASSUME NEW n, WellFormed(n), NEW S \in SUBSET Cells(n)
  PROVE  /\ Reached(n, S) \subseteq Cells(n) /\ S \subseteq Reached(n, S)
         /\ \A d \in Reached(n, S) : \A s \in CombDependencies(n, d) : s.cell \in Reached(n, S)
<1>1. Cells(n) \subseteq CellId BY DEF Cells
<1>2. \A d \in Cells(n) : \A s \in CombDependencies(n, d) : s.cell \in Cells(n)
  BY <1>1, DependenciesArePorts DEF PortsOf, Active, Evaluated, Registers
<1>3. ASSUME NEW d \in Reached(n, S), NEW s \in CombDependencies(n, d) PROVE s.cell \in Reached(n, S)
  <2>1. d \in Cells(n) /\ s.cell \in Cells(n) BY <1>2, <1>3 DEF Reached
  <2>2. ASSUME NEW R \in SUBSET Cells(n), S \subseteq R,
               \A e \in R : \A t \in CombDependencies(n, e) : t.cell \in R
        PROVE  s.cell \in R
    <3>1. d \in R BY <1>3, <2>2 DEF Reached
    <3> QED BY <3>1, <1>3, <2>2
  <2> QED BY <2>1, <2>2 DEF Reached
<1> QED BY <1>3 DEF Reached

\* Nothing reaches nothing.
LEMMA NothingReached ==
  ASSUME NEW n PROVE Reached(n, {}) = {}
<1>1. {} \in SUBSET Cells(n) OBVIOUS
<1> QED BY <1>1 DEF Reached

\* A group under construction.  Every cell whose change was passed on has its readers behind
\* it, and what it clocks among the clocked.
ReadersFollow(n, ports, fresh) ==
  \A i \in DOMAIN ports :
    \/ \E s \in fresh : s.cell = ports[i].cell
    \/ \A s \in CombDependencies(n, ports[i].cell) : \E j \in DOMAIN ports : i < j /\ ports[j] = s

ClockedQueued(n, ports, fresh, queued) ==
  \A i \in DOMAIN ports :
    \/ \E s \in fresh : s.cell = ports[i].cell
    \/ SeqReceivers(n, ports[i].cell) \subseteq queued

FromSources(n, ports, queued) ==
  \A c \in Sources(n) : /\ \A s \in CombDependencies(n, c) : \E i \in DOMAIN ports : ports[i] = s
                        /\ SeqReceivers(n, c) \subseteq queued

\* A group and the next, once they are complete.
ReadersBehind(n, group) ==
  \A i \in DOMAIN group : \A s \in CombDependencies(n, group[i]) :
    \E j \in DOMAIN group : i < j /\ group[j] = s.cell

ClockedNext(n, cells, next) ==
  \A c \in cells : \A s \in SeqReceivers(n, c) : s.cell \in Range(next)

\* All groups.
Odd(u) == {i \in DOMAIN u : i % 2 = 1}

GroupsCover(n, u) ==
  /\ Len(u) % 2 = 0
  /\ u # <<>> => Evaluated(n) \ Memories(n) \subseteq Range(u[1])
  /\ \A g \in Odd(u) : /\ ReadersBehind(n, u[g])
                       /\ ClockedNext(n, Range(u[g]) \cup (IF g = 1 THEN Sources(n) ELSE {}), u[g + 1])
                       /\ g > 1 => Range(u[g - 1]) \subseteq Range(u[g])

\* The inductive invariant.
ScheduleTypes ==
  /\ def \in Circuits
  /\ combChanges \in Seq(PortsOf(def))
  /\ freshChanges \in SUBSET PortsOf(def)
  /\ seqChanges \in SUBSET PortsOf(def) /\ visit \in SUBSET PortsOf(def)
  /\ \A s \in seqChanges \cup visit : s.cell \in Registers(def) \cup Memories(def)
  /\ updates \in Seq(Seq(Active(def)))

GroupAtWork ==
  /\ ReadersFollow(def, combChanges, freshChanges)
  /\ ClockedQueued(def, combChanges, freshChanges, seqChanges)
  /\ phase = "clocking" => \A i \in DOMAIN combChanges : \E s \in freshChanges : s.cell = combChanges[i].cell
  /\ phase = "spreading" => visit = {}
  /\ updates = <<>> => phase = "spreading" /\ FromSources(def, combChanges, seqChanges)
  /\ phase \notin {"spreading", "clocking"} => combChanges = <<>> /\ visit = {}
  /\ updates # <<>> => \A c \in Range(updates[Len(updates)]) :
                         \/ \E i \in DOMAIN combChanges : combChanges[i].cell = c
                         \/ \E s \in visit : s.cell = c

ScheduleInv == ScheduleTypes /\ GroupAtWork /\ GroupsCover(def, updates)

CircuitsAcyclic == \A n \in Circuits : Acyclic(n)

LEMMA CircuitFacts ==
  ASSUME NEW n \in Circuits
  PROVE  /\ WellFormed(n) /\ FullyDriven(n) /\ n \in Net
         /\ Active(n) \subseteq Cells(n) /\ Cells(n) \subseteq CellId
BY CompiledAssumption DEF WellFormed, Cells, Active, Evaluated, Registers

\* Whatever a cell is clocked or reset by, the first clocked group has the cell.
LEMMA ClockedCells ==
  ASSUME ScheduleInv, updates # <<>>, NEW d \in Cells(def), NEW s \in SeqReceivers(def, d),
         d \in Sources(def) \/ d \in Evaluated(def) \ Memories(def)
  PROVE  s.cell \in Range(updates[2])
<1>1. updates \in Seq(Seq(Active(def))) BY DEF ScheduleInv, ScheduleTypes
<1>2. 1 \in Odd(updates)
  <2>1. 1 \in DOMAIN updates /\ 1 % 2 = 1 BY <1>1
  <2> QED BY <2>1 DEF Odd
<1>3. ClockedNext(def, Range(updates[1]) \cup Sources(def), updates[1 + 1])
  BY <1>2 DEF ScheduleInv, GroupsCover
<1>4. d \in Range(updates[1]) \cup Sources(def) BY DEF ScheduleInv, GroupsCover
<1> QED BY <1>3, <1>4 DEF ClockedNext

\* The memories are clocked at once.
LEMMA MemoriesAreClocked ==
  ASSUME ScheduleInv, updates # <<>> PROVE Memories(def) \subseteq Range(updates[2])
<1> SUFFICES ASSUME NEW c \in Memories(def) PROVE c \in Range(updates[2]) OBVIOUS
<1>1. WellFormed(def) /\ FullyDriven(def) BY CircuitFacts DEF ScheduleInv, ScheduleTypes
<1>2. c \in Cells(def) /\ "CLK" \in DOMAIN PortWidths(def.type[c])
  BY DEF Memories, Tp, PortWidths, Comparator, Binop, ReduceOp, Unop
<1> DEFINE d == Driver(def, c, "CLK")
<1>3. d \in Cells(def) /\ PinOf(c, "CLK") \in OutReceivers(def, d) BY <1>1, <1>2, PortIsDriven
<1> HIDE DEF d
<1>4. SigPort(PinOf(c, "CLK")) \in SeqReceivers(def, d) /\ SigPort(PinOf(c, "CLK")).cell = c
  BY <1>3 DEF SeqReceivers, PinOf, SigPort
<1>5. d \in Sources(def) \/ d \in Evaluated(def) \ Memories(def) BY <1>3 DEF Sources
<1> QED BY <1>3, <1>4, <1>5, ClockedCells

\* The last clocked group of a schedule that is complete is empty.
LEMMA LastGroupIsEmpty ==
  ASSUME ScheduleInv, phase \notin {"spreading", "clocking"}
  PROVE  /\ updates # <<>> /\ Len(updates) \in Nat /\ Len(updates) >= 2 /\ Len(updates) % 2 = 0
         /\ Range(updates[Len(updates)]) = {}
<1>1. updates \in Seq(Seq(Active(def))) /\ updates # <<>> /\ Len(updates) % 2 = 0
  BY DEF ScheduleInv, ScheduleTypes, GroupAtWork, GroupsCover
<1>2. Range(updates[Len(updates)]) = {} BY <1>1 DEF ScheduleInv, GroupAtWork
<1>3. Len(updates) \in Nat /\ Len(updates) # 0 BY <1>1
<1>4. \A k \in Nat : k # 0 /\ k % 2 = 0 => k >= 2 OBVIOUS
<1>5. Len(updates) >= 2 BY <1>1, <1>3, <1>4
<1> QED BY <1>1, <1>2, <1>3, <1>5

\* What the invariant says of a schedule that is complete.
LEMMA InvariantCovers ==
  ASSUME ScheduleInv PROVE ScheduleCovers
<1> SUFFICES ASSUME phase \notin {"spreading", "clocking"} PROVE ScheduleCovers
  BY DEF ScheduleCovers
<1>1. /\ updates # <<>> /\ Len(updates) \in Nat /\ Len(updates) >= 2 /\ Len(updates) % 2 = 0
      /\ Range(updates[Len(updates)]) = {}
  BY LastGroupIsEmpty
<1>2. Evaluated(def) \ Memories(def) \subseteq Range(updates[1]) BY <1>1 DEF ScheduleInv, GroupsCover
<1>3. ASSUME NEW g \in Odd(updates)
      PROVE  /\ ReadersBehind(def, updates[g])
             /\ ClockedNext(def, Range(updates[g]) \cup (IF g = 1 THEN Sources(def) ELSE {}), updates[g + 1])
             /\ g > 1 => Range(updates[g - 1]) \subseteq Range(updates[g])
  BY DEF ScheduleInv, GroupsCover
<1>4. Memories(def) = {} \/ (Len(updates) > 2 /\ Memories(def) \subseteq Range(updates[3]))
  <2> SUFFICES ASSUME Memories(def) # {}
               PROVE  Len(updates) > 2 /\ Memories(def) \subseteq Range(updates[3])
    OBVIOUS
  <2>1. Memories(def) \subseteq Range(updates[2]) BY <1>1, MemoriesAreClocked
  <2>2. Len(updates) > 2
    <3>1. Len(updates) # 2 BY <2>1, <1>1
    <3>2. \A k \in Nat : k >= 2 /\ k # 2 => k > 2 OBVIOUS
    <3> QED BY <3>1, <3>2, <1>1
  <2>3. 3 \in Odd(updates)
    <3>1. updates \in Seq(Seq(Active(def))) BY DEF ScheduleInv, ScheduleTypes
    <3>2. 3 \in DOMAIN updates /\ 3 % 2 = 1 BY <3>1, <2>2
    <3> QED BY <3>2 DEF Odd
  <2>4. Range(updates[3 - 1]) \subseteq Range(updates[3]) BY <2>3, <1>3
  <2> QED BY <2>1, <2>2, <2>4
<1> QED BY <1>2, <1>3, <1>4 DEF ScheduleCovers, ReadersBehind, ClockedNext, Odd

LEMMA PortsOfAreSigPorts ==
  ASSUME NEW n PROVE PortsOf(n) \subseteq SigPorts
BY PortsAreNamed DEF PortsOf, SigPorts, Cells, Active, Evaluated, Registers

\* What is added to a group.
LEMMA AppendedPorts ==
  ASSUME NEW n, NEW ports \in Seq(PortsOf(n)), NEW S \in SUBSET PortsOf(n)
  PROVE  LET more == ports \o InOrder(S)
         IN  /\ more \in Seq(PortsOf(n))
             /\ \A i \in DOMAIN ports : i \in DOMAIN more /\ more[i] = ports[i]
             /\ \A i \in DOMAIN more \ DOMAIN ports : more[i] \in S
             /\ \A s \in S : \E j \in DOMAIN more \ DOMAIN ports : more[j] = s
             /\ \A i \in DOMAIN ports, j \in DOMAIN more \ DOMAIN ports : i < j
<1> DEFINE q == InOrder(S)
<1>1. q \in Seq(S) /\ \A s \in S : \E i \in DOMAIN q : q[i] = s
  BY PortsInOrder, PortsOfAreSigPorts
<1> HIDE DEF q
<1>2. q \in Seq(PortsOf(n)) BY <1>1
<1> DEFINE more == ports \o q
<1>3. more \in Seq(PortsOf(n)) /\ Len(more) = Len(ports) + Len(q) BY <1>2
<1>4. \A i \in 1 .. Len(ports) : more[i] = ports[i] BY <1>2
<1>5. \A i \in 1 .. Len(q) : more[Len(ports) + i] = q[i] BY <1>2
<1>6. DOMAIN ports = 1 .. Len(ports) /\ DOMAIN q = 1 .. Len(q) /\ DOMAIN more = 1 .. Len(more)
      /\ Len(ports) \in Nat /\ Len(q) \in Nat
  BY <1>2, <1>3
<1> HIDE DEF more
<1>7. ASSUME NEW i \in DOMAIN more \ DOMAIN ports PROVE more[i] \in S
  <2>1. i - Len(ports) \in 1 .. Len(q) BY <1>3, <1>6
  <2>2. more[i] = q[i - Len(ports)] BY <1>5, <1>6, <2>1
  <2> QED BY <1>1, <1>6, <2>1, <2>2
<1>8. ASSUME NEW s \in S PROVE \E j \in DOMAIN more \ DOMAIN ports : more[j] = s
  <2>1. PICK i \in 1 .. Len(q) : q[i] = s BY <1>1, <1>6
  <2>2. Len(ports) + i \in DOMAIN more \ DOMAIN ports BY <1>3, <1>6
  <2> QED BY <1>5, <2>1, <2>2
<1> QED BY <1>3, <1>4, <1>6, <1>7, <1>8 DEF more, q

\* The changes of the sources, source by source.
WireOrder(n) ==
  {p \in PassedOn(n) \X PassedOn(n) :
     p[1][1] < p[2][1] \/ (p[1][1] = p[2][1] /\ Below(p[1][2], p[2][2]))}

InWireOrder(q, n) ==
  q = InOrderOf(PassedOn(n), LAMBDA a, b : a[1] < b[1] \/ (a[1] = b[1] /\ Below(a[2], b[2])))

LEMMA SourcesInOrder ==
  ASSUME NEW n, NEW q, InWireOrder(q, n)
  PROVE  InSequence(q, PassedOn(n), WireOrder(n))
<1> DEFINE S == PassedOn(n)
           R == WireOrder(n)
           Place(s) == {t \in S : t[1] < s[1] \/ (t[1] = s[1] /\ Below(t[2], s[2]))}
<1>1. S \in SUBSET ((1 .. MaxId) \X SigPorts)
  BY PortsAreNamed DEF PassedOn, Sources, Cells, CellId, SigPorts
<1>2. IsFiniteSet(S)
  <2>1. IsFiniteSet(1 .. MaxId)
    <3>1. 1 \in Int /\ MaxId \in Int BY NetlistAssumption
    <3> QED BY ONLY <3>1, FS_Interval
  <2>2. IsFiniteSet((1 .. MaxId) \X SigPorts) BY <2>1, SigPortsFinite, FS_Product
  <2> QED BY <1>1, <2>2, FS_Subset
<1>3. StrictOrder(S, R)
  <2>1. \A s, t \in S : <<s, t>> \in R <=>
          s[1] < t[1] \/ (s[1] = t[1] /\ Number(s[2]) < Number(t[2]))
    BY <1>1, PortNumbers DEF WireOrder
  <2> DEFINE cell(p) == p[1]
             number(p) == Number(p[2])
  <2>2. ASSUME NEW s \in S PROVE cell(s) \in Nat /\ number(s) \in Nat
    <3>1. s \in (1 .. MaxId) \X SigPorts BY <1>1
    <3>2. cell(s) \in 1 .. MaxId /\ s[2] \in SigPorts BY <3>1
    <3> QED BY <3>2, PortNumbers
  <2>3. ASSUME NEW s \in S, NEW t \in S, cell(s) = cell(t), number(s) = number(t) PROVE s = t
    <3>1. s \in (1 .. MaxId) \X SigPorts /\ t \in (1 .. MaxId) \X SigPorts BY <1>1
    <3>2. s[2] = t[2] BY <2>3, <3>1, PortNumbers
    <3> QED BY <2>3, <3>1, <3>2
  <2>7. \A s, t \in S : <<s, t>> \in R <=>
          cell(s) < cell(t) \/ (cell(s) = cell(t) /\ number(s) < number(t))
    BY <2>1
  <2> HIDE DEF S, R, cell, number
  <2>4. \A s \in S : <<s, s>> \notin R BY <2>7, <2>2
  <2>5. ASSUME NEW s \in S, NEW t \in S, NEW u \in S, <<s, t>> \in R, <<t, u>> \in R
        PROVE  <<s, u>> \in R
    <3>1. /\ cell(s) \in Nat /\ cell(t) \in Nat /\ cell(u) \in Nat
          /\ number(s) \in Nat /\ number(t) \in Nat /\ number(u) \in Nat BY <2>2
    <3>2. cell(s) < cell(t) \/ (cell(s) = cell(t) /\ number(s) < number(t)) BY <2>5, <2>7
    <3>3. cell(t) < cell(u) \/ (cell(t) = cell(u) /\ number(t) < number(u)) BY <2>5, <2>7
    <3>4. cell(s) < cell(u) \/ (cell(s) = cell(u) /\ number(s) < number(u)) BY <3>1, <3>2, <3>3
    <3> QED BY <2>7, <3>4
  <2>6. ASSUME NEW s \in S, NEW t \in S, s # t PROVE <<s, t>> \in R \/ <<t, s>> \in R
    <3>1. cell(s) \in Nat /\ cell(t) \in Nat /\ number(s) \in Nat /\ number(t) \in Nat BY <2>2
    <3>2. cell(s) # cell(t) \/ number(s) # number(t) BY <2>3, <2>6
    <3> QED BY <2>7, <3>1, <3>2
  <2> QED BY <2>4, <2>5, <2>6 DEF StrictOrder
<1>4. \A s \in S : Place(s) = Preceding(S, R, s)
  BY DEF WireOrder, Preceding
<1>5. ASSUME NEW i \in 1 .. Cardinality(S) PROVE q[i] \in S /\ Rank(S, R, q[i]) = i - 1
  <2>1. q[i] = CHOOSE s \in S : Cardinality(Place(s)) = i - 1 BY DEF InOrderOf, InWireOrder
  <2>2. \E s \in S : Rank(S, R, s) = i - 1 BY <1>2, <1>3, EveryRankIsTaken
  <2>3. \E s \in S : Cardinality(Place(s)) = i - 1 BY <2>2, <1>4 DEF Rank
  <2>4. q[i] \in S /\ Cardinality(Place(q[i])) = i - 1 BY <2>1, <2>3
  <2> QED BY <2>4, <1>4 DEF Rank
<1>6. q \in [1 .. Cardinality(S) -> S] BY <1>5 DEF InOrderOf, InWireOrder
<1> QED BY <1>2, <1>3, <1>5, <1>6, RankedIsInSequence

LEMMA ScheduleInitInv ==
  ASSUME ScheduleInit PROVE ScheduleInv
<1> DEFINE S == PassedOn(def)
           first == InOrderOf(S, LAMBDA a, b : a[1] < b[1] \/ (a[1] = b[1] /\ Below(a[2], b[2])))
           k == Cardinality(S)
<1>0. /\ WellFormed(def) /\ def \in Circuits /\ Cells(def) \subseteq CellId /\ Active(def) \subseteq CellId
      /\ Sources(def) \subseteq CellId
  BY CircuitFacts DEF ScheduleInit, Sources
<1>1. /\ combChanges = [i \in DOMAIN first |-> first[i][2]]
      /\ freshChanges = UNION {CombDependencies(def, c) : c \in Sources(def)}
      /\ seqChanges = UNION {SeqReceivers(def, c) : c \in Sources(def)}
      /\ visit = {} /\ updates = <<>> /\ phase = "spreading"
  BY DEF ScheduleInit
<1>2. InSequence(first, S, WireOrder(def)) BY SourcesInOrder DEF InWireOrder
<1> HIDE DEF first
<1>3. /\ k \in Nat /\ DOMAIN first = 1 .. k
      /\ \A i \in 1 .. k : first[i] \in S
      /\ \A s \in S : \E i \in 1 .. k : first[i] = s
  BY <1>2 DEF InSequence
<1> HIDE DEF k
<1>4. \A c \in Sources(def) : /\ CombDependencies(def, c) \in SUBSET PortsOf(def)
                              /\ SeqReceivers(def, c) \in SUBSET PortsOf(def)
                              /\ \A s \in SeqReceivers(def, c) : s.cell \in Registers(def) \cup Memories(def)
  BY <1>0, DependenciesArePorts
<1>5. PortsOf(def) \subseteq [cell : CellId, port : Port] BY <1>0 DEF PortsOf
<1>6. \A p \in S : /\ p[1] \in Sources(def) /\ p[2] \in CombDependencies(def, p[1])
                   /\ p[2] \in PortsOf(def) /\ p[2] \in freshChanges
  BY <1>1, <1>4 DEF PassedOn
<1>7. \A c \in Sources(def) : \A s \in CombDependencies(def, c) : <<c, s>> \in S
  BY <1>4, <1>5 DEF PassedOn
<1> HIDE DEF S
<1>8. /\ DOMAIN combChanges = 1 .. k /\ combChanges \in Seq(PortsOf(def))
      /\ \A i \in 1 .. k : combChanges[i] = first[i][2]
      /\ \A i \in DOMAIN combChanges : combChanges[i] \in freshChanges
  <2>1. \A i \in 1 .. k : first[i][2] \in PortsOf(def) /\ first[i][2] \in freshChanges BY <1>3, <1>6
  <2> QED BY <1>1, <1>3, <2>1
<1>9. ScheduleTypes
  <2>1. freshChanges \in SUBSET PortsOf(def) /\ seqChanges \in SUBSET PortsOf(def) BY <1>1, <1>4
  <2>2. \A s \in seqChanges \cup visit : s.cell \in Registers(def) \cup Memories(def) BY <1>1, <1>4
  <2> QED BY <1>0, <1>1, <1>8, <2>1, <2>2 DEF ScheduleTypes
<1>10. FromSources(def, combChanges, seqChanges)
  <2>1. ASSUME NEW c \in Sources(def), NEW s \in CombDependencies(def, c)
        PROVE  \E i \in DOMAIN combChanges : combChanges[i] = s
    <3>1. PICK i \in 1 .. k : first[i] = <<c, s>> BY <1>3, <1>7
    <3> QED BY <1>8, <3>1
  <2>2. \A c \in Sources(def) : SeqReceivers(def, c) \subseteq seqChanges BY <1>1
  <2> QED BY <2>1, <2>2 DEF FromSources
<1>11. GroupAtWork
  BY <1>1, <1>8, <1>10 DEF GroupAtWork, ReadersFollow, ClockedQueued
<1>12. GroupsCover(def, updates) BY <1>1 DEF GroupsCover, Odd
<1> QED BY <1>9, <1>11, <1>12 DEF ScheduleInv

LEMMA SpreadInv ==
  ASSUME ScheduleInv, Spread PROVE ScheduleInv'
<1> DEFINE s == First(freshChanges)
           deps == CombDependencies(def, s.cell)
<1>1. /\ phase = "spreading" /\ freshChanges # {}
      /\ combChanges' = combChanges \o InOrder(deps)
      /\ freshChanges' = (freshChanges \ {s}) \cup deps
      /\ seqChanges' = seqChanges \cup SeqReceivers(def, s.cell)
      /\ def' = def /\ visit' = visit /\ updates' = updates /\ phase' = phase
  BY DEF Spread
<1>2. ScheduleTypes /\ GroupAtWork /\ GroupsCover(def, updates) BY DEF ScheduleInv
<1>3. WellFormed(def) /\ Cells(def) \subseteq CellId /\ Active(def) \subseteq CellId BY <1>2, CircuitFacts DEF ScheduleTypes
<1>4. s \in freshChanges /\ s.cell \in CellId
  <2>1. freshChanges \in SUBSET SigPorts BY <1>2, PortsOfAreSigPorts DEF ScheduleTypes
  <2>2. s \in freshChanges BY <1>1, <2>1, FirstIsIn
  <2> QED BY <1>2, <1>3, <2>2 DEF ScheduleTypes, PortsOf
<1> HIDE DEF s
<1>5. /\ deps \in SUBSET PortsOf(def) /\ SeqReceivers(def, s.cell) \in SUBSET PortsOf(def)
      /\ \A t \in SeqReceivers(def, s.cell) : t.cell \in Registers(def) \cup Memories(def)
  BY <1>3, <1>4, DependenciesArePorts
<1> HIDE DEF deps
<1>6. combChanges \in Seq(PortsOf(def)) BY <1>2 DEF ScheduleTypes
<1>7. /\ combChanges' \in Seq(PortsOf(def))
      /\ \A i \in DOMAIN combChanges : i \in DOMAIN combChanges' /\ combChanges'[i] = combChanges[i]
      /\ \A i \in DOMAIN combChanges' \ DOMAIN combChanges : combChanges'[i] \in deps
      /\ \A t \in deps : \E j \in DOMAIN combChanges' \ DOMAIN combChanges : combChanges'[j] = t
      /\ \A i \in DOMAIN combChanges, j \in DOMAIN combChanges' \ DOMAIN combChanges : i < j
  BY <1>1, <1>5, <1>6, AppendedPorts
<1>8. ScheduleTypes'
  BY <1>1, <1>2, <1>4, <1>5, <1>7 DEF ScheduleTypes
<1>9. ReadersFollow(def, combChanges', freshChanges')
  <2> SUFFICES ASSUME NEW i \in DOMAIN combChanges'
               PROVE  \/ \E t \in freshChanges' : t.cell = combChanges'[i].cell
                      \/ \A t \in CombDependencies(def, combChanges'[i].cell) :
                           \E j \in DOMAIN combChanges' : i < j /\ combChanges'[j] = t
    BY DEF ReadersFollow
  <2>1. CASE i \notin DOMAIN combChanges BY <2>1, <1>1, <1>7
  <2>2. CASE i \in DOMAIN combChanges /\ combChanges[i].cell = s.cell
    BY <2>2, <1>7 DEF deps
  <2>3. CASE i \in DOMAIN combChanges /\ combChanges[i].cell # s.cell
    <3>1. \/ \E t \in freshChanges : t.cell = combChanges[i].cell
          \/ \A t \in CombDependencies(def, combChanges[i].cell) :
               \E j \in DOMAIN combChanges : i < j /\ combChanges[j] = t
      BY <2>3, <1>2 DEF GroupAtWork, ReadersFollow
    <3> QED BY <3>1, <2>3, <1>1, <1>7
  <2> QED BY <2>1, <2>2, <2>3
<1>10. ClockedQueued(def, combChanges', freshChanges', seqChanges')
  <2> SUFFICES ASSUME NEW i \in DOMAIN combChanges'
               PROVE  \/ \E t \in freshChanges' : t.cell = combChanges'[i].cell
                      \/ SeqReceivers(def, combChanges'[i].cell) \subseteq seqChanges'
    BY DEF ClockedQueued
  <2>1. CASE i \notin DOMAIN combChanges BY <2>1, <1>1, <1>7
  <2>2. CASE i \in DOMAIN combChanges /\ combChanges[i].cell = s.cell BY <2>2, <1>1, <1>7
  <2>3. CASE i \in DOMAIN combChanges /\ combChanges[i].cell # s.cell
    <3>1. \/ \E t \in freshChanges : t.cell = combChanges[i].cell
          \/ SeqReceivers(def, combChanges[i].cell) \subseteq seqChanges
      BY <2>3, <1>2 DEF GroupAtWork, ClockedQueued
    <3> QED BY <3>1, <2>3, <1>1, <1>7
  <2> QED BY <2>1, <2>2, <2>3
<1>11. updates = <<>> => FromSources(def, combChanges', seqChanges')
  <2>1. updates = <<>> => FromSources(def, combChanges, seqChanges) BY <1>2 DEF GroupAtWork
  <2> QED BY <2>1, <1>1, <1>7 DEF FromSources
<1>12. updates # <<>> => \A c \in Range(updates[Len(updates)]) :
         \/ \E i \in DOMAIN combChanges' : combChanges'[i].cell = c
         \/ \E t \in visit : t.cell = c
  <2>1. updates # <<>> => \A c \in Range(updates[Len(updates)]) :
         \/ \E i \in DOMAIN combChanges : combChanges[i].cell = c
         \/ \E t \in visit : t.cell = c
    BY <1>1, <1>2 DEF GroupAtWork
  <2> QED BY <2>1, <1>7
<1>13. GroupAtWork'
  <2>1. visit = {} BY <1>1, <1>2 DEF GroupAtWork
  <2> QED BY <1>1, <1>9, <1>10, <1>11, <1>12, <2>1 DEF GroupAtWork
<1> QED BY <1>1, <1>2, <1>8, <1>13 DEF ScheduleInv

\* Emit.  A complete group has its readers behind every cell, once it is filtered.
LEMMA FilteredReadersBehind ==
  ASSUME NEW n, NEW T, NEW ports \in Seq(T),
         \A i \in DOMAIN ports : \A s \in CombDependencies(n, ports[i].cell) :
           \E j \in DOMAIN ports : i < j /\ ports[j] = s
  PROVE  ReadersBehind(n, Filtered(ports))
<1> DEFINE group == Filtered(ports)
<1> SUFFICES ASSUME NEW a \in DOMAIN group, NEW s \in CombDependencies(n, group[a])
             PROVE  \E b \in DOMAIN group : a < b /\ group[b] = s.cell
  BY DEF ReadersBehind
<1>1. PICK i \in LastUpdates(ports) :
        /\ group[a] = ports[i].cell
        /\ \A j \in LastUpdates(ports) : i < j =>
             \E b \in DOMAIN group : a < b /\ group[b] = ports[j].cell
  BY FilteredGroup
<1>2. i \in DOMAIN ports BY DEF LastUpdates
<1>3. PICK j \in DOMAIN ports : i < j /\ ports[j] = s BY <1>1, <1>2
<1>4. PICK k \in LastUpdates(ports) : j <= k /\ ports[k].cell = s.cell BY <1>3, LastUpdateExists
<1>5. i < k
  <2>1. DOMAIN ports \subseteq Nat OBVIOUS
  <2>2. i \in Nat /\ j \in Nat /\ k \in Nat BY <1>2, <1>4, <2>1 DEF LastUpdates
  <2> QED BY <1>3, <1>4, <2>2
<1> QED BY <1>1, <1>4, <1>5

\* Two more groups.
LEMMA TwoMore ==
  ASSUME NEW T, NEW u \in Seq(T), NEW a \in T, NEW b \in T
  PROVE  LET w == u \o <<a, b>>
         IN  /\ w \in Seq(T) /\ Len(u) \in Nat /\ Len(w) = Len(u) + 2
             /\ w[Len(u) + 1] = a /\ w[Len(u) + 2] = b
             /\ \A i \in 1 .. Len(u) : w[i] = u[i]
<1> DEFINE m == <<a, b>>
<1>1. m \in Seq(T) OBVIOUS
<1>2. Len(m) = 2 /\ m[1] = a /\ m[2] = b OBVIOUS
<1> HIDE DEF m
<1> DEFINE w == u \o m
<1>3. w \in Seq(T) /\ Len(w) = Len(u) + Len(m) /\ Len(u) \in Nat BY <1>1
<1>4. \A i \in 1 .. Len(u) : w[i] = u[i] BY <1>1
<1>5. \A i \in 1 .. Len(m) : w[Len(u) + i] = m[i] BY <1>1
<1>6. 1 \in 1 .. Len(m) /\ 2 \in 1 .. Len(m) BY <1>2
<1> HIDE DEF w
<1>7. w[Len(u) + 1] = m[1] /\ w[Len(u) + 2] = m[2] BY <1>5, <1>6
<1> QED BY <1>2, <1>3, <1>4, <1>7 DEF m, w

LEMMA EmitInv ==
  ASSUME ScheduleInv, CircuitsAcyclic, Emit PROVE ScheduleInv'
<1> DEFINE queue == InOrder(seqChanges)
           comb  == Filtered(combChanges)
           seq   == Filtered(queue)
           n     == Len(updates)
<1>1. /\ phase = "spreading" /\ freshChanges = {}
      /\ updates' = updates \o <<comb, seq>>
      /\ combChanges' = <<>> /\ visit' = seqChanges /\ phase' = "clocking"
      /\ def' = def /\ freshChanges' = freshChanges /\ seqChanges' = seqChanges
  BY DEF Emit
<1>2. ScheduleTypes /\ GroupAtWork /\ GroupsCover(def, updates) BY DEF ScheduleInv
<1>3. /\ WellFormed(def) /\ FullyDriven(def) /\ Acyclic(def)
      /\ combChanges \in Seq(PortsOf(def)) /\ seqChanges \in SUBSET PortsOf(def)
      /\ updates \in Seq(Seq(Active(def)))
  BY <1>2, CircuitFacts DEF ScheduleTypes, CircuitsAcyclic
<1>4. queue \in Seq(seqChanges) /\ \A s \in seqChanges : \E i \in DOMAIN queue : queue[i] = s
  BY <1>3, PortsInOrder, PortsOfAreSigPorts
<1>5. /\ comb \in Seq(CellsOf(combChanges))
      /\ \A c \in CellsOf(combChanges) : \E a \in DOMAIN comb : comb[a] = c
  BY <1>3, FilteredGroup
<1> HIDE DEF queue
<1>6. /\ seq \in Seq(CellsOf(queue))
      /\ \A c \in CellsOf(queue) : \E a \in DOMAIN seq : seq[a] = c
  BY <1>4, FilteredGroup
<1>7. ReadersBehind(def, comb)
  <2>1. \A i \in DOMAIN combChanges : \A s \in CombDependencies(def, combChanges[i].cell) :
          \E j \in DOMAIN combChanges : i < j /\ combChanges[j] = s
    BY <1>1, <1>2 DEF GroupAtWork, ReadersFollow
  <2> QED BY <1>3, <2>1, FilteredReadersBehind
<1> HIDE DEF comb, seq
<1>8. Range(comb) = CellsOf(combChanges) BY <1>5 DEF Range
<1>9. Range(seq) = {s.cell : s \in seqChanges}
  <2>1. CellsOf(queue) = {s.cell : s \in seqChanges} BY <1>4 DEF CellsOf
  <2>2. Range(seq) = CellsOf(queue) BY <1>6 DEF Range
  <2> QED BY <2>1, <2>2
<1>10. comb \in Seq(Active(def)) /\ seq \in Seq(Active(def))
  <2>1. CellsOf(combChanges) \subseteq Active(def)
    <3>1. \A i \in DOMAIN combChanges : combChanges[i] \in PortsOf(def) BY <1>3
    <3> QED BY <3>1 DEF CellsOf, PortsOf
  <2>2. {s.cell : s \in seqChanges} \subseteq Active(def) BY <1>3 DEF PortsOf
  <2>3. CellsOf(queue) \subseteq {s.cell : s \in seqChanges} BY <1>4 DEF CellsOf
  <2> QED BY <1>5, <1>6, <2>1, <2>2, <2>3
<1>11. /\ n \in Nat /\ n % 2 = 0 /\ DOMAIN updates = 1 .. n
       /\ updates' \in Seq(Seq(Active(def))) /\ Len(updates') = n + 2 /\ DOMAIN updates' = 1 .. n + 2
       /\ updates'[n + 1] = comb /\ updates'[n + 2] = seq
       /\ \A i \in 1 .. n : updates'[i] = updates[i]
  <2>1. n % 2 = 0 BY <1>2 DEF GroupsCover
  <2>2. n \in Nat /\ DOMAIN updates = 1 .. n BY <1>3
  <2>3. /\ updates' \in Seq(Seq(Active(def))) /\ Len(updates') = n + 2
        /\ updates'[n + 1] = comb /\ updates'[n + 2] = seq
        /\ \A i \in 1 .. n : updates'[i] = updates[i]
    BY <1>1, <1>3, <1>10, TwoMore
  <2>4. DOMAIN updates' = 1 .. n + 2 BY <2>3
  <2> QED BY <2>1, <2>2, <2>3, <2>4
<1>12. ClockedNext(def, Range(comb), seq)
  <2>1. \A i \in DOMAIN combChanges : SeqReceivers(def, combChanges[i].cell) \subseteq seqChanges
    BY <1>1, <1>2 DEF GroupAtWork, ClockedQueued
  <2> QED BY <1>8, <1>9, <2>1 DEF ClockedNext, CellsOf
<1>13. updates = <<>> => /\ Evaluated(def) \ Memories(def) \subseteq Range(comb)
                         /\ ClockedNext(def, Sources(def), seq)
  <2> SUFFICES ASSUME updates = <<>>
               PROVE  Evaluated(def) \ Memories(def) \subseteq Range(comb) /\ ClockedNext(def, Sources(def), seq)
    OBVIOUS
  <2>1. FromSources(def, combChanges, seqChanges) BY <1>2 DEF GroupAtWork
  <2>2. \A c \in Sources(def) : \A s \in CombDependencies(def, c) : s.cell \in Range(comb)
    BY <1>8, <2>1 DEF FromSources, CellsOf
  <2>3. \A c \in Range(comb) : \A s \in CombDependencies(def, c) : s.cell \in Range(comb)
    BY <1>7 DEF ReadersBehind, Range
  <2>4. Evaluated(def) \ Memories(def) \subseteq Range(comb) BY <1>3, <2>2, <2>3, ClosedSetCovers
  <2>5. ClockedNext(def, Sources(def), seq) BY <1>9, <2>1 DEF FromSources, ClockedNext
  <2> QED BY <2>4, <2>5
<1>14. updates # <<>> => Range(updates[n]) \subseteq Range(comb)
  <2>1. visit = {} BY <1>1, <1>2 DEF GroupAtWork
  <2>2. updates # <<>> => \A c \in Range(updates[n]) : \E i \in DOMAIN combChanges : combChanges[i].cell = c
    BY <1>1, <1>2, <2>1 DEF GroupAtWork
  <2> QED BY <1>8, <2>2 DEF CellsOf
<1>15. updates = <<>> <=> n = 0 BY <1>3
<1>16. ScheduleTypes'
  BY <1>1, <1>2, <1>11 DEF ScheduleTypes
<1>17. GroupAtWork'
  <2>1. updates' # <<>> /\ Len(updates') = n + 2 BY <1>11
  <2>2. \A c \in Range(updates'[Len(updates')]) : \E s \in visit' : s.cell = c
    <3>1. Range(updates'[Len(updates')]) = {s.cell : s \in seqChanges} BY <1>9, <1>11
    <3> QED BY <1>1, <3>1
  <2>3. DOMAIN combChanges' = {} BY <1>1
  <2> QED BY <1>1, <2>1, <2>2, <2>3 DEF GroupAtWork, ReadersFollow, ClockedQueued
<1>18. GroupsCover(def, updates')
  <2>1. Len(updates') % 2 = 0 BY <1>11
  <2>2. Evaluated(def) \ Memories(def) \subseteq Range(updates'[1])
    <3>1. CASE n = 0 BY <3>1, <1>11, <1>13, <1>15
    <3>2. CASE n # 0
      <4>1. updates'[1] = updates[1] BY <3>2, <1>11
      <4> QED BY <4>1, <3>2, <1>2, <1>15 DEF GroupsCover
    <3> QED BY <3>1, <3>2
  <2>3. ASSUME NEW g \in Odd(updates')
        PROVE  /\ ReadersBehind(def, updates'[g])
               /\ ClockedNext(def, Range(updates'[g]) \cup (IF g = 1 THEN Sources(def) ELSE {}), updates'[g + 1])
               /\ g > 1 => Range(updates'[g - 1]) \subseteq Range(updates'[g])
    <3>1. g \in 1 .. n + 2 /\ g % 2 = 1 BY <1>11 DEF Odd
    <3>2. CASE g < n
      <4>1. g \in Odd(updates) /\ g + 1 \in 1 .. n /\ g \in 1 .. n /\ (g > 1 => g - 1 \in 1 .. n)
        BY <3>1, <3>2, <1>11 DEF Odd
      <4>2. updates'[g] = updates[g] /\ updates'[g + 1] = updates[g + 1]
            /\ (g > 1 => updates'[g - 1] = updates[g - 1])
        BY <4>1, <1>11
      <4> QED BY <4>1, <4>2, <1>2 DEF GroupsCover
    <3>3. CASE g = n + 1
      <4>1. updates'[g] = comb /\ updates'[g + 1] = seq BY <3>3, <1>11
      <4>2. g > 1 => n \in 1 .. n /\ updates'[g - 1] = updates[n] BY <3>3, <1>11
      <4>3. g = 1 <=> n = 0 BY <3>3, <1>11
      <4>4. ClockedNext(def, Range(comb) \cup (IF g = 1 THEN Sources(def) ELSE {}), seq)
        BY <4>3, <1>12, <1>13, <1>15 DEF ClockedNext
      <4>5. g > 1 => Range(updates'[g - 1]) \subseteq Range(comb) BY <4>2, <4>3, <1>11, <1>14, <1>15
      <4> QED BY <4>1, <4>4, <4>5, <1>7
    <3>4. g # n /\ g # n + 2
      <4>1. n \in Nat /\ n % 2 = 0 BY <1>11
      <4> HIDE DEF n
      <4>2. (n + 2) % 2 = 0 BY <4>1
      <4> QED BY <3>1, <4>1, <4>2
    <3>5. g < n \/ g = n + 1
      <4>1. n \in Nat /\ g \in Nat /\ g <= n + 2 BY <3>1, <1>11
      <4> HIDE DEF n
      <4> QED BY <3>4, <4>1
    <3> QED BY <3>2, <3>3, <3>5
  <2>4. updates' # <<>> BY <1>11
  <2> QED BY <2>1, <2>2, <2>3 DEF GroupsCover
<1> QED BY <1>1, <1>16, <1>17, <1>18 DEF ScheduleInv

LEMMA ClockingInv ==
  ASSUME ScheduleInv, Clocking PROVE ScheduleInv'
<1> DEFINE s     == First(visit)
           again == [cell |-> s.cell, port |-> IF s.cell \in Memories(def) THEN "RADDR" ELSE "OUT"]
           deps  == CombDependencies(def, s.cell)
           more  == SeqReceivers(def, s.cell) \ seqChanges
           late  == {t \in more : Below(s, t)}
           one   == Append(combChanges, again)
<1>1. /\ phase = "clocking" /\ visit # {}
      /\ combChanges' = one \o InOrder(deps)
      /\ freshChanges' = freshChanges \cup {again} \cup deps
      /\ seqChanges' = seqChanges \cup more
      /\ visit' = (visit \ {s}) \cup late
      /\ def' = def /\ updates' = updates /\ phase' = phase
  BY DEF Clocking
<1>2. ScheduleTypes /\ GroupAtWork /\ GroupsCover(def, updates) BY DEF ScheduleInv
<1>3. WellFormed(def) /\ Cells(def) \subseteq CellId /\ Active(def) \subseteq CellId /\ def \in Net
  BY <1>2, CircuitFacts DEF ScheduleTypes
<1>4. s \in visit /\ s.cell \in CellId /\ s.cell \in Registers(def) \cup Memories(def)
  <2>1. visit \in SUBSET SigPorts BY <1>2, PortsOfAreSigPorts DEF ScheduleTypes
  <2>2. s \in visit BY <1>1, <2>1, FirstIsIn
  <2> QED BY <1>2, <1>3, <2>2 DEF ScheduleTypes, PortsOf
<1> HIDE DEF s
<1>5. /\ deps \in SUBSET PortsOf(def) /\ SeqReceivers(def, s.cell) \in SUBSET PortsOf(def)
      /\ \A t \in SeqReceivers(def, s.cell) : t.cell \in Registers(def) \cup Memories(def)
  BY <1>3, <1>4, DependenciesArePorts
<1>6. again \in PortsOf(def) /\ again.cell = s.cell
  <2>1. s.cell \in Cells(def) BY <1>4 DEF Registers, Memories
  <2>2. def.type[s.cell] \in Kind BY <1>3, <2>1, NetFields DEF Cells
  <2>3. again.port \in Port BY <1>4, <2>2, PortsAreNamed DEF Registers, Memories, Tp
  <2>4. s.cell \in Active(def) BY <1>4 DEF Active, Evaluated, Registers, Memories, Inputs
  <2> QED BY <2>3, <2>4 DEF PortsOf
<1> HIDE DEF deps, again
<1>7. combChanges \in Seq(PortsOf(def)) BY <1>2 DEF ScheduleTypes
<1>8. /\ one \in Seq(PortsOf(def)) /\ Len(combChanges) \in Nat
      /\ DOMAIN combChanges = 1 .. Len(combChanges) /\ DOMAIN one = 1 .. Len(combChanges) + 1
      /\ one[Len(combChanges) + 1] = again
      /\ \A i \in DOMAIN combChanges : one[i] = combChanges[i]
  BY <1>6, <1>7
<1> HIDE DEF one
<1>9. /\ combChanges' \in Seq(PortsOf(def))
      /\ \A i \in DOMAIN one : i \in DOMAIN combChanges' /\ combChanges'[i] = one[i]
      /\ \A i \in DOMAIN combChanges' \ DOMAIN one : combChanges'[i] \in deps
  BY <1>1, <1>5, <1>8, AppendedPorts
<1>10. /\ \A i \in DOMAIN combChanges : i \in DOMAIN combChanges' /\ combChanges'[i] = combChanges[i]
       /\ \E i \in DOMAIN combChanges' : combChanges'[i].cell = s.cell
  BY <1>6, <1>8, <1>9
<1>11. \A i \in DOMAIN combChanges' : \E t \in freshChanges' : t.cell = combChanges'[i].cell
  <2> TAKE i \in DOMAIN combChanges'
  <2>1. CASE i \in DOMAIN combChanges
    <3>1. \E t \in freshChanges : t.cell = combChanges[i].cell BY <2>1, <1>1, <1>2 DEF GroupAtWork
    <3> QED BY <3>1, <2>1, <1>1, <1>10
  <2>2. CASE i \in DOMAIN one \ DOMAIN combChanges
    <3>1. i = Len(combChanges) + 1 BY <2>2, <1>8
    <3>2. combChanges'[i] = again BY <3>1, <2>2, <1>8, <1>9
    <3> QED BY <3>2, <1>1
  <2>3. CASE i \notin DOMAIN one BY <2>3, <1>1, <1>9
  <2> QED BY <2>1, <2>2, <2>3
<1>12. ScheduleTypes'
  <2>1. more \in SUBSET PortsOf(def) /\ \A t \in more : t.cell \in Registers(def) \cup Memories(def)
    BY <1>5
  <2>2. late \subseteq more OBVIOUS
  <2> HIDE DEF more, late
  <2> QED BY <1>1, <1>2, <1>5, <1>6, <1>9, <2>1, <2>2 DEF ScheduleTypes
<1>13. updates # <<>> /\ \A c \in Range(updates[Len(updates)]) :
         \/ \E i \in DOMAIN combChanges' : combChanges'[i].cell = c
         \/ \E t \in visit' : t.cell = c
  <2>1. updates # <<>> BY <1>1, <1>2 DEF GroupAtWork
  <2> HIDE DEF late
  <2>2. ASSUME NEW c \in Range(updates[Len(updates)])
        PROVE  \/ \E i \in DOMAIN combChanges' : combChanges'[i].cell = c
               \/ \E t \in visit' : t.cell = c
    <3>1. \/ \E i \in DOMAIN combChanges : combChanges[i].cell = c
          \/ \E t \in visit : t.cell = c
      BY <1>1, <1>2, <2>1 DEF GroupAtWork
    <3> QED BY <3>1, <1>1, <1>10
  <2> QED BY <2>1, <2>2
<1>14. GroupAtWork'
  BY <1>1, <1>11, <1>13 DEF GroupAtWork, ReadersFollow, ClockedQueued
<1> QED BY <1>1, <1>2, <1>12, <1>14 DEF ScheduleInv

LEMMA ClockedInv ==
  ASSUME ScheduleInv, Clocked PROVE ScheduleInv'
<1>1. /\ phase = "clocking" /\ visit = {} /\ seqChanges' = {}
      /\ phase' = IF combChanges = <<>> THEN "compiled" ELSE "spreading"
      /\ def' = def /\ combChanges' = combChanges /\ freshChanges' = freshChanges
      /\ visit' = visit /\ updates' = updates
  BY DEF Clocked
<1>2. ScheduleTypes /\ GroupAtWork /\ GroupsCover(def, updates) BY DEF ScheduleInv
<1>3. ScheduleTypes' BY <1>1, <1>2 DEF ScheduleTypes
<1>4. \A i \in DOMAIN combChanges : \E s \in freshChanges : s.cell = combChanges[i].cell
  BY <1>1, <1>2 DEF GroupAtWork
<1>5. updates # <<>> /\ \A c \in Range(updates[Len(updates)]) :
         \E i \in DOMAIN combChanges : combChanges[i].cell = c
  BY <1>1, <1>2 DEF GroupAtWork
<1>6. GroupAtWork'
  BY <1>1, <1>4, <1>5 DEF GroupAtWork, ReadersFollow, ClockedQueued
<1> QED BY <1>1, <1>2, <1>3, <1>6 DEF ScheduleInv

\* What leaves the schedule alone, and does not begin another.
LEMMA ScheduleStays ==
  ASSUME ScheduleInv, phase \notin {"spreading", "clocking"}, phase' \notin {"spreading", "clocking"},
         UNCHANGED <<def, combChanges, freshChanges, seqChanges, visit, updates>>
  PROVE  ScheduleInv'
<1>1. ScheduleTypes' BY DEF ScheduleInv, ScheduleTypes
<1>2. GroupAtWork' BY DEF ScheduleInv, GroupAtWork
<1> QED BY <1>1, <1>2 DEF ScheduleInv

LEMMA ScheduleStutters ==
  ASSUME ScheduleInv, UNCHANGED scheduling PROVE ScheduleInv'
BY DEF ScheduleInv, ScheduleTypes, GroupAtWork, scheduling

-----------------------------------------------------------------------------
(* The schedule in the compiled simulation.                                  *)

LEMMA ScheduleIsInductive ==
  ASSUME CircuitsAcyclic PROVE ScheduleInv /\ [Next]_vars => ScheduleInv'
<1> SUFFICES ASSUME ScheduleInv, [Next]_vars PROVE ScheduleInv' OBVIOUS
<1>1. CASE Compile
  BY <1>1, SpreadInv, EmitInv, ClockingInv, ClockedInv DEF Compile
<1>2. CASE SimulateRaw
  BY <1>2, ScheduleStays DEF SimulateRaw, Waiting
<1>3. ASSUME NEW c \in CellId, NEW v \in Fresh, SetFreshValue(c, v) PROVE ScheduleInv'
  BY <1>3, ScheduleStutters DEF SetFreshValue
<1>4. ASSUME NEW c \in CellId, NEW v \in Fresh \ {X}, SetFreshValueTwoState(c, v) PROVE ScheduleInv'
  BY <1>4, ScheduleStays DEF SetFreshValueTwoState, Waiting
<1>5. CASE Update BY <1>5, ScheduleStays DEF Update, Waiting
<1>6. CASE CombBlock BY <1>6, ScheduleStutters DEF CombBlock
<1>7. CASE SeqBlock BY <1>7, ScheduleStutters DEF SeqBlock
<1>8. CASE Return BY <1>8, ScheduleStays DEF Return
<1>9. CASE UNCHANGED vars BY <1>9, ScheduleStutters DEF vars
<1> QED BY <1>1, <1>2, <1>3, <1>4, <1>5, <1>6, <1>7, <1>8, <1>9 DEF Next

\* Of every compiled definition without combinational cycles: its schedule follows every
\* change, and no cell is evaluated before what it reads.
THEOREM ScheduleCoversTheDefinition ==
  ASSUME CircuitsAcyclic PROVE Spec => []ScheduleCovers
<1>1. Init => ScheduleInv BY ScheduleInitInv DEF Init
<1>2. ScheduleInv /\ [Next]_vars => ScheduleInv' BY ScheduleIsInductive
<1>3. ScheduleInv => ScheduleCovers BY InvariantCovers
<1> QED BY <1>1, <1>2, <1>3, PTL DEF Spec

-----------------------------------------------------------------------------
(* The types of the table.  Only a sum is more than a bit.                   *)

Summing == {"ADD", "SUB"}

Byt(n) == IF \E c \in Cells(n) : Tp(n, c) \in Summing THEN Byte ELSE {0, 1}

\* A byte is one even where the code would be wrong to read it as an address.
LEMMA BytFacts ==
  ASSUME NEW n \in Circuits
  PROVE  /\ {0, 1} \subseteq Byt(n) /\ Byt(n) \subseteq Byte
         /\ Memories(n) # {} => Byt(n) = {0, 1}
         /\ \A c \in Cells(n) : Tp(n, c) \in Summing => Byt(n) = Byte
         /\ Byt(n) \subseteq IF \E k \in Kind : k.tp \in Summing THEN Byte ELSE {0, 1}
<1>1. Memories(n) # {} => \A c \in Cells(n) : Tp(n, c) \notin Summing
  BY CompiledAssumption DEF Summing
<1>2. \A c \in Cells(n) : n.type[c] \in Kind
  BY CircuitFacts, NetFields DEF Cells
<1> QED BY <1>1, <1>2 DEF Byt, Byte, Tp

\* Bitwise operations.
LEMMA BitsOfBits ==
  /\ \A x \in {0, 1} : Bits(x) = (IF x = 1 THEN {0} ELSE {})
  /\ \A S : FromBits(S) \in Byte
  /\ \A S \in SUBSET {0} : FromBits(S) = (IF 0 \in S THEN 1 ELSE 0)
<1>1. /\ 2^0 = 1 /\ 2^1 = 2 /\ 2^2 = 4 /\ 2^3 = 8
      /\ 2^4 = 16 /\ 2^5 = 32 /\ 2^6 = 64 /\ 2^7 = 128
  OBVIOUS
<1>2. ASSUME NEW x \in {0, 1} PROVE Bits(x) = (IF x = 1 THEN {0} ELSE {})
  <2> DEFINE shown(i) == (x \div 2^i) % 2
  <2>1. \A d \in {1, 2, 4, 8, 16, 32, 64, 128} : 0 \div d = 0 /\ 1 \div d = (IF d = 1 THEN 1 ELSE 0)
    OBVIOUS
  <2>2. 0 % 2 = 0 /\ 1 % 2 = 1 OBVIOUS
  <2>3. \A i \in 0 .. 7 : 2^i \in {1, 2, 4, 8, 16, 32, 64, 128} /\ (2^i = 1 <=> i = 0)
    <3> TAKE i \in 0 .. 7
    <3>0. CASE i = 0 BY <3>0, <1>1
    <3>1. CASE i = 1 BY <3>1, <1>1
    <3>2. CASE i = 2 BY <3>2, <1>1
    <3>3. CASE i = 3 BY <3>3, <1>1
    <3>4. CASE i = 4 BY <3>4, <1>1
    <3>5. CASE i = 5 BY <3>5, <1>1
    <3>6. CASE i = 6 BY <3>6, <1>1
    <3>7. CASE i = 7 BY <3>7, <1>1
    <3> QED BY <3>0, <3>1, <3>2, <3>3, <3>4, <3>5, <3>6, <3>7
  <2>4. \A i \in 0 .. 7 : shown(i) = (IF x = 1 /\ i = 0 THEN 1 ELSE 0)
    <3>1. CASE x = 0 BY <3>1, <2>1, <2>2, <2>3
    <3>2. CASE x = 1 BY <3>2, <2>1, <2>2, <2>3
    <3> QED BY <3>1, <3>2
  <2>5. Bits(x) = {i \in 0 .. 7 : shown(i) = 1} BY DEF Bits
  <2> HIDE DEF shown
  <2> QED BY <2>4, <2>5
<1>3. ASSUME NEW S PROVE FromBits(S) \in Byte
  <2> DEFINE bit(i) == IF i \in S THEN 2^i ELSE 0
  <2>1. /\ bit(0) \in 0 .. 1 /\ bit(1) \in 0 .. 2 /\ bit(2) \in 0 .. 4 /\ bit(3) \in 0 .. 8
        /\ bit(4) \in 0 .. 16 /\ bit(5) \in 0 .. 32 /\ bit(6) \in 0 .. 64 /\ bit(7) \in 0 .. 128
    BY <1>1
  <2>2. FromBits(S) = bit(0) + bit(1) + bit(2) + bit(3) + bit(4) + bit(5) + bit(6) + bit(7)
    BY DEF FromBits
  <2> HIDE DEF bit
  <2> QED BY <2>1, <2>2 DEF Byte
<1>4. ASSUME NEW S \in SUBSET {0} PROVE FromBits(S) = (IF 0 \in S THEN 1 ELSE 0)
  <2> DEFINE bit(i) == IF i \in S THEN 2^i ELSE 0
  <2>1. /\ bit(0) = (IF 0 \in S THEN 1 ELSE 0) /\ bit(1) = 0 /\ bit(2) = 0 /\ bit(3) = 0
        /\ bit(4) = 0 /\ bit(5) = 0 /\ bit(6) = 0 /\ bit(7) = 0
    BY <1>1
  <2>2. FromBits(S) = bit(0) + bit(1) + bit(2) + bit(3) + bit(4) + bit(5) + bit(6) + bit(7)
    BY DEF FromBits
  <2> HIDE DEF bit
  <2> QED BY <2>1, <2>2
<1> QED BY <1>2, <1>3, <1>4

LEMMA BitwiseTypes ==
  ASSUME NEW B \in {{0, 1}, Byte}, NEW x \in B, NEW y \in B
  PROVE  /\ FromBits(Bits(x) \cap Bits(y)) \in B
         /\ FromBits(Bits(x) \cup Bits(y)) \in B
         /\ FromBits((Bits(x) \cup Bits(y)) \ (Bits(x) \cap Bits(y))) \in B
<1>1. CASE B = Byte
  BY <1>1, BitsOfBits
<1>2. CASE B = {0, 1}
  <2>1. Bits(x) \subseteq {0} /\ Bits(y) \subseteq {0} BY <1>2, BitsOfBits
  <2>2. \A S \in SUBSET {0} : FromBits(S) \in B BY <1>2, BitsOfBits
  <2> HIDE DEF Bits, FromBits
  <2> QED BY <2>1, <2>2
<1> QED BY <1>1, <1>2

\* What a cell reads: outputs, and with a memory an address.
LEMMA OperandTypes ==
  ASSUME NEW n \in Circuits, NEW B, NEW v \in [CellId -> B], NEW c \in Evaluated(n),
         NEW p \in Reads(Tp(n, c))
  PROVE  In(n, v, c, p) \in B
BY CircuitFacts, ReadsCells DEF In, Cells

LEMMA AddressTypes ==
  ASSUME NEW n \in Circuits, NEW v \in [CellId -> Byt(n)], NEW c \in Evaluated(n), Tp(n, c) = "MEM"
  PROVE  In(n, v, c, "RADDR") \in Addr
<1>1. c \in Memories(n) BY CircuitFacts, EvaluatedTypes
<1>2. "RADDR" \in Reads(Tp(n, c)) BY DEF Reads, Binary, Comparator
<1>3. In(n, v, c, "RADDR") \in Byt(n) BY <1>2, OperandTypes
<1> QED BY <1>1, <1>3, BytFacts DEF Addr

LEMMA ComputeType ==
  ASSUME def \in Circuits, NEW v \in [CellId -> Byt(def)], NEW m \in [CellId -> [Addr -> Byt(def)]],
         NEW c \in Evaluated(def)
  PROVE  Compute(v, m, c) \in Byt(def)
<1> DEFINE tp == Tp(def, c)
           a  == Operand(v, c, "IN")
           x  == Operand(v, c, "IN0")
           y  == Operand(v, c, "IN1")
<1>1. /\ tp \in CombTypes /\ tp # "ANDR" /\ c \in Cells(def) /\ c \in CellId
  BY CircuitFacts, EvaluatedTypes, CompiledAssumption DEF Tp, Cells
<1>2. \A p \in Reads(tp) : Operand(v, c, p) \in Byt(def)
  BY OperandTypes DEF Operand
<1>3. \A q : Bool(q) \in Byt(def)
  BY BytFacts DEF Bool
<1>4. Byt(def) \in {{0, 1}, Byte} BY DEF Byt
<1>5. CASE tp \in (Unary \ {"ANDR"}) \cup {"PORT"}
  <2>1. a \in Byt(def) BY <1>2, <1>5 DEF Reads, Unary, Binary, Comparator
  <2>2. a \in Nat BY <2>1, BytFacts DEF Byte
  <2>3. a % 2 \in {0, 1} /\ Complement(a) \in {0, 1}
    <3> HIDE DEF a
    <3>1. a % 2 \in {0, 1} BY <2>2
    <3> QED BY <3>1 DEF Complement
  <2>4. Compute(v, m, c) \in {a, a % 2, Complement(a), Bool(a # 0)}
    BY <1>5 DEF Compute, Unary
  <2> QED BY <2>1, <2>3, <2>4, <1>3, BytFacts
<1>6. CASE tp \in Binary
  <2>1. x \in Byt(def) /\ y \in Byt(def) BY <1>2, <1>6 DEF Reads, Unary, Binary, Comparator
  <2>2. CASE tp \in {"AND", "OR", "XOR"}
    <3>1. /\ FromBits(Bits(x) \cap Bits(y)) \in Byt(def)
          /\ FromBits(Bits(x) \cup Bits(y)) \in Byt(def)
          /\ FromBits((Bits(x) \cup Bits(y)) \ (Bits(x) \cap Bits(y))) \in Byt(def)
      BY <2>1, <1>4, BitwiseTypes
    <3> QED BY <3>1, <2>2 DEF Compute
  <2>3. CASE tp \in Summing
    <3>1. Byt(def) = Byte BY <2>3, <1>1, BytFacts
    <3>2. x \in Int /\ y \in Int BY <2>1, <3>1 DEF Byte
    <3>3. (x + y) % 256 \in Byte /\ (x - y) % 256 \in Byte
      <4> HIDE DEF x, y
      <4> QED BY <3>2 DEF Byte
    <3>4. Compute(v, m, c) \in {(x + y) % 256, (x - y) % 256} BY <2>3 DEF Compute, Summing
    <3> QED BY <3>1, <3>3, <3>4
  <2>4. CASE tp \in Comparator
    BY <2>4, <1>3 DEF Compute, Comparator
  <2> QED BY <1>6, <2>2, <2>3, <2>4 DEF Binary, Summing
<1>7. CASE tp = "MUX"
  <2>1. Chosen(v, c) \in Reads(tp) BY <1>7 DEF Chosen, Reads, Binary, Comparator
  <2> QED BY <2>1, <1>2, <1>7 DEF Compute
<1>8. CASE tp = "MEM"
  <2>1. Operand(v, c, "RADDR") \in Addr BY <1>8, AddressTypes DEF Operand
  <2>2. Loaded(v, m, c) \in Byt(def) BY <2>1, <1>1 DEF Loaded
  <2> QED BY <2>2, <1>8 DEF Compute
<1> QED BY <1>1, <1>5, <1>6, <1>7, <1>8 DEF CombTypes

LEMMA XMaskType ==
  ASSUME def \in Circuits, NEW v \in [CellId -> Byt(def)], NEW x \in [CellId -> {0, 1}],
         NEW m \in [CellId -> [Addr -> {0, 1}]], NEW c \in Evaluated(def)
  PROVE  XMask(v, x, m, c) \in {0, 1}
<1> DEFINE tp == Tp(def, c)
<1>1. tp \in CombTypes /\ c \in CellId
  BY CircuitFacts, EvaluatedTypes DEF Cells
<1>2. \A p \in Reads(tp) : Operand(x, c, p) \in {0, 1}
  BY OperandTypes DEF Operand
<1>3. CASE tp \in Unary \cup {"PORT"}
  <2>1. Operand(x, c, "IN") \in {0, 1} BY <1>2, <1>3 DEF Reads, Unary, Binary, Comparator
  <2> QED BY <2>1, <1>3 DEF XMask, Unary, Binary, Comparator
<1>4. CASE tp \in Binary
  <2>1. Operand(x, c, "IN0") \in {0, 1} /\ Operand(x, c, "IN1") \in {0, 1}
    BY <1>2, <1>4 DEF Reads, Unary, Binary, Comparator
  <2>2. FromBits(Bits(Operand(x, c, "IN0")) \cup Bits(Operand(x, c, "IN1"))) \in {0, 1}
    BY <2>1, BitwiseTypes
  <2>3. XMask(v, x, m, c) = FromBits(Bits(Operand(x, c, "IN0")) \cup Bits(Operand(x, c, "IN1")))
    BY <1>4 DEF XMask, Unary, Binary, Comparator
  <2> QED BY <2>2, <2>3
<1>5. CASE tp = "MUX"
  <2>1. Chosen(v, c) \in Reads(tp) BY <1>5 DEF Chosen, Reads, Binary, Comparator
  <2> QED BY <2>1, <1>2, <1>5 DEF XMask, Unary, Binary, Comparator
<1>6. CASE tp = "MEM"
  <2>1. Operand(v, c, "RADDR") \in Addr BY <1>6, AddressTypes DEF Operand
  <2>2. Loaded(v, m, c) \in {0, 1} BY <2>1, <1>1 DEF Loaded
  <2> QED BY <2>2, <1>6 DEF XMask, Unary, Binary, Comparator
<1> QED BY <1>1, <1>3, <1>4, <1>5, <1>6 DEF CombTypes

-----------------------------------------------------------------------------
(* The code of a combinational group, cell by cell.                          *)

Table == [v : [CellId -> Byt(def)], x : [CellId -> {0, 1}]]

\* The table after each of the first k cells.
Steps(cells, k, f) ==
  f = [i \in 0 .. k |-> IF i = 0 THEN [v |-> value, x |-> xValue] ELSE Store(f[i - 1], cells[i])]

LEMMA StepsExist ==
  ASSUME NEW cells, NEW k \in Nat PROVE \E f : Steps(cells, k, f)
<1> DEFINE T == {j \in Nat : ~ \E f : Steps(cells, j, f)}
<1> SUFFICES ASSUME T # {} PROVE FALSE OBVIOUS
<1>1. PICK j \in T : \A i \in T : j <= i BY LeastNumber
<1>2. Steps(cells, 0, [i \in 0 .. 0 |-> [v |-> value, x |-> xValue]])
  BY DEF Steps
<1>3. j # 0 BY <1>2
<1>4. j - 1 \in Nat /\ j - 1 \notin T BY <1>1, <1>3
<1>5. PICK f : Steps(cells, j - 1, f) BY <1>4
<1> DEFINE g == [i \in 0 .. j |-> IF i = j THEN Store(f[j - 1], cells[j]) ELSE f[i]]
<1>6. \A i \in 0 .. j - 1 : f[i] = IF i = 0 THEN [v |-> value, x |-> xValue] ELSE Store(f[i - 1], cells[i])
  BY <1>5 DEF Steps
<1>7. \A i \in 0 .. j : i # j => i \in 0 .. j - 1 /\ g[i] = f[i] BY <1>4
<1>8. g[j] = Store(f[j - 1], cells[j]) /\ j - 1 \in 0 .. j /\ j - 1 # j BY <1>4
<1>9. g = [i \in 0 .. j |-> g[i]] OBVIOUS
<1> HIDE DEF g
<1>10. \A i \in 0 .. j : g[i] = IF i = 0 THEN [v |-> value, x |-> xValue] ELSE Store(g[i - 1], cells[i])
  <2> TAKE i \in 0 .. j
  <2>1. CASE i = j BY <2>1, <1>3, <1>7, <1>8
  <2>2. CASE i # j
    <3>1. i # 0 => i - 1 \in 0 .. j /\ i - 1 # j BY <2>2, <1>4
    <3> QED BY <2>2, <3>1, <1>6, <1>7
  <2> QED BY <2>1, <2>2
<1>11. Steps(cells, j, g) BY <1>9, <1>10 DEF Steps
<1> QED BY <1>1, <1>11

\* Evaluate runs through such a sequence of tables.
LEMMA EvaluateSteps ==
  ASSUME NEW cells \in Seq(Active(def))
  PROVE  \E f : /\ f[0] = [v |-> value, x |-> xValue]
                /\ \A i \in 1 .. Len(cells) : f[i] = Store(f[i - 1], cells[i])
                /\ Evaluate(cells) = f[Len(cells)]
<1> DEFINE k == Len(cells)
<1>1. k \in Nat OBVIOUS
<1> DEFINE after == CHOOSE f : f = [i \in 0 .. k |-> IF i = 0 THEN [v |-> value, x |-> xValue]
                                                     ELSE Store(f[i - 1], cells[i])]
<1>2. Evaluate(cells) = after[k] BY DEF Evaluate
<1>3. after = CHOOSE f : Steps(cells, k, f) BY DEF Steps
<1>4. Steps(cells, k, after) BY <1>1, <1>3, StepsExist
<1> HIDE DEF after
<1>5. \A i \in 0 .. k : after[i] = IF i = 0 THEN [v |-> value, x |-> xValue] ELSE Store(after[i - 1], cells[i])
  BY <1>4 DEF Steps
<1>6. after[0] = [v |-> value, x |-> xValue] BY <1>1, <1>5
<1>7. \A i \in 1 .. k : after[i] = Store(after[i - 1], cells[i]) BY <1>1, <1>5
<1> QED BY <1>2, <1>6, <1>7

\* The types of all variables but those of the schedule.
TableTypes ==
  /\ simRaw \in BOOLEAN
  /\ value \in [CellId -> Byt(def)] /\ past \in [CellId -> Byt(def)] /\ reg \in [CellId -> Byt(def)]
  /\ mem \in [CellId -> [Addr -> Byt(def)]]
  /\ xValue \in [CellId -> {0, 1}] /\ xReg \in [CellId -> {0, 1}]
  /\ xMem \in [CellId -> [Addr -> {0, 1}]]
  /\ userInputs \in [CellId -> SUBSET Val]
  /\ phase \in {"spreading", "clocking", "running"} \cup Waiting

LEMMA StoreType ==
  ASSUME def \in Circuits, TableTypes, NEW w \in Table, NEW c \in Active(def)
  PROVE  Store(w, c) \in Table
<1> DEFINE shows == IF c \in Registers(def) THEN [v |-> reg[c], x |-> xReg[c]]
                    ELSE [v |-> Compute(w.v, mem, c), x |-> XMask(w.v, w.x, xMem, c)]
<1>1. c \in CellId BY CircuitFacts
<1>2. w.v \in [CellId -> Byt(def)] /\ w.x \in [CellId -> {0, 1}] BY DEF Table
<1>3. shows.v \in Byt(def) /\ shows.x \in {0, 1}
  <2>1. CASE c \in Registers(def) BY <2>1, <1>1 DEF TableTypes
  <2>2. CASE c \notin Registers(def)
    <3>1. c \in Evaluated(def) BY <2>2 DEF Active
    <3> QED BY <2>2, <3>1, <1>2, ComputeType, XMaskType DEF TableTypes
  <2> QED BY <2>1, <2>2
<1> HIDE DEF shows
<1>4. Store(w, c) = [v |-> [w.v EXCEPT ![c] = shows.v],
                     x |-> IF simRaw THEN w.x ELSE [w.x EXCEPT ![c] = shows.x]]
  BY DEF Store, shows
<1> QED BY <1>1, <1>2, <1>3, <1>4 DEF Table

LEMMA EvaluateType ==
  ASSUME def \in Circuits, TableTypes, NEW cells \in Seq(Active(def))
  PROVE  Evaluate(cells) \in Table
<1>1. PICK f : /\ f[0] = [v |-> value, x |-> xValue]
               /\ \A i \in 1 .. Len(cells) : f[i] = Store(f[i - 1], cells[i])
               /\ Evaluate(cells) = f[Len(cells)]
  BY EvaluateSteps
<1> DEFINE T == {i \in 0 .. Len(cells) : f[i] \notin Table}
<1>2. Len(cells) \in Nat /\ T \in SUBSET Nat /\ \A i \in 1 .. Len(cells) : cells[i] \in Active(def)
  OBVIOUS
<1>3. f[0] \in Table BY <1>1 DEF Table, TableTypes
<1>4. \A i \in 1 .. Len(cells) : f[i - 1] \in Table => f[i] \in Table
  BY <1>1, <1>2, StoreType
<1>5. T = {}
  <2> SUFFICES ASSUME T # {} PROVE FALSE OBVIOUS
  <2>1. PICK i \in T : \A j \in T : i <= j BY <1>2, LeastNumber
  <2>2. i \in 1 .. Len(cells) /\ i - 1 \in 0 .. Len(cells) /\ i - 1 < i BY <1>2, <1>3, <2>1
  <2>3. i - 1 \notin T BY <1>2, <2>1, <2>2
  <2> QED BY <1>4, <2>1, <2>2, <2>3
<1> QED BY <1>1, <1>2, <1>5

\* What the table shows, and what a client gives.
LEMMA ShownType ==
  ASSUME NEW B, B \subseteq Nat, NEW v \in [CellId -> B], NEW x
  PROVE  \A c \in CellId : Shown(x, v)[c] \in Val /\ TwoState(Shown(x, v)[c]) \in {0, 1}
<1> TAKE c \in CellId
<1>1. v[c] \in Nat OBVIOUS
<1>2. v[c] % 2 \in {0, 1} BY <1>1
<1>3. DOMAIN v = CellId OBVIOUS
<1>4. Shown(x, v)[c] = IF x[c] % 2 = 1 THEN X ELSE v[c] % 2 BY <1>3 DEF Shown
<1>5. Shown(x, v)[c] \in {0, 1, X} BY <1>2, <1>4
<1> QED BY <1>5 DEF TwoState, Val, X

\* The value that is written last.
LEMMA LargestInput ==
  ASSUME NEW S \in SUBSET Val, S # {}
  PROVE  (CHOOSE v \in S : \A w \in S : ~QLess(v, w)) \in S
<1>1. \E v \in S : \A w \in S : ~QLess(v, w)
  <2>1. CASE 1 \in S BY <2>1 DEF QLess, IsBinary
  <2>2. CASE 1 \notin S BY <2>2 DEF QLess, IsBinary
  <2> QED BY <2>1, <2>2
<1> QED BY <1>1

\* What a register loads, and what a memory stores, are outputs of cells.
LEMMA SampledCells ==
  ASSUME def \in Circuits, NEW c \in Registers(def) \cup Memories(def), NEW p \in Samples(Tp(def, c))
  PROVE  Driver(def, c, p) \in CellId
<1>1. WellFormed(def) /\ FullyDriven(def) /\ def \in Net BY CircuitFacts
<1>2. /\ c \in Cells(def) /\ def.type[c] \in Kind
      /\ Tp(def, c) \in {"REG", "REG_ARST", "MEM"} /\ Tp(def, c) = def.type[c].tp
  BY <1>1, NetFields DEF Registers, Memories, Cells, Tp
<1>3. p \in DOMAIN PortWidths(def.type[c]) /\ p \in {"IN", "WADDR", "WDATA", "WEN"}
  BY <1>2, SamplesArePorts
<1>4. Driver(def, c, p) \in Cells(def) BY <1>1, <1>2, <1>3, PortIsDriven
<1> QED BY <1>4 DEF Cells

\* What a register starts with, or is reset to.
LEMMA ResetType ==
  ASSUME def \in Circuits, NEW c \in Registers(def) PROVE def.type[c].init[1] \in Val
<1>1. def.type[c] \in Kind /\ def.type[c].tp \in {"REG", "REG_ARST"}
  BY CircuitFacts, NetFields DEF Registers, Cells, Tp
<1> QED BY <1>1, SemanticsAssumption

LEMMA NextRegType ==
  ASSUME def \in Circuits, TableTypes, NEW c \in Registers(def)
  PROVE  NextReg(c) \in Byt(def) /\ NextXReg(c) \in {0, 1}
<1>1. c \in CellId BY DEF Registers, Cells
<1>2. "IN" \in Samples(Tp(def, c)) BY DEF Registers, Samples
<1>3. Driver(def, c, "IN") \in CellId BY <1>2, SampledCells
<1>4. Operand(value, c, "IN") \in Byt(def) /\ Operand(xValue, c, "IN") \in {0, 1}
  BY <1>3 DEF Operand, In, TableTypes
<1>5. TwoState(def.type[c].init[1]) \in {0, 1} BY ResetType DEF TwoState, Val, X
<1>6. reg[c] \in Byt(def) /\ xReg[c] \in {0, 1} BY <1>1 DEF TableTypes
<1>7. NextReg(c) \in {TwoState(def.type[c].init[1]), Operand(value, c, "IN"), reg[c]} BY DEF NextReg
<1>8. NextXReg(c) \in {0, Operand(xValue, c, "IN"), xReg[c]} BY DEF NextXReg
<1> QED BY <1>4, <1>5, <1>6, <1>7, <1>8, BytFacts

LEMMA NextMemType ==
  ASSUME def \in Circuits, TableTypes, NEW c \in Memories(def)
  PROVE  NextMem(c) \in [Addr -> Byt(def)] /\ NextXMem(c) \in [Addr -> {0, 1}]
<1>1. c \in CellId BY DEF Memories, Cells
<1>2. "WDATA" \in Samples(Tp(def, c)) BY DEF Memories, Samples
<1>3. Driver(def, c, "WDATA") \in CellId BY <1>2, SampledCells
<1> DEFINE d == Operand(value, c, "WDATA")
           e == Operand(xValue, c, "WDATA")
           a == Operand(value, c, "WADDR")
<1>4. d \in Byt(def) /\ e \in {0, 1}
  BY <1>3 DEF Operand, In, TableTypes
<1>5. mem[c] \in [Addr -> Byt(def)] /\ xMem[c] \in [Addr -> {0, 1}] BY <1>1 DEF TableTypes
<1>6. NextMem(c) = [mem[c] EXCEPT ![a] = IF Writes(c) THEN d ELSE @] BY DEF NextMem
<1>7. NextXMem(c) = [xMem[c] EXCEPT ![a] = IF Writes(c) /\ ~simRaw THEN e ELSE @] BY DEF NextXMem
<1> HIDE DEF a, d, e
<1>8. NextMem(c) \in [Addr -> Byt(def)]
  <2>1. CASE Writes(c) BY <2>1, <1>4, <1>5, <1>6
  <2>2. CASE ~Writes(c) BY <2>2, <1>5, <1>6
  <2> QED BY <2>1, <2>2
<1>9. NextXMem(c) \in [Addr -> {0, 1}]
  <2>1. CASE Writes(c) /\ ~simRaw BY <2>1, <1>4, <1>5, <1>7
  <2>2. CASE ~(Writes(c) /\ ~simRaw) BY <2>2, <1>5, <1>7
  <2> QED BY <2>1, <2>2
<1> QED BY <1>8, <1>9

LEMMA InitTypes ==
  ASSUME CircuitsAcyclic, Init PROVE TableTypes
<1> DEFINE r == [c \in CellId |-> IF c \in Registers(def) THEN InitialValue(def, c) ELSE X]
           m == [c \in CellId |-> [a \in Addr |-> X]]
           i == [c \in CellId |-> X]
           w == Wires(def, i, r, m)
<1>1. def \in Circuits BY DEF Init, ScheduleInit
<1>2. /\ simRaw = FALSE /\ phase = "spreading"
      /\ value = [c \in CellId |-> TwoState(w[c])] /\ xValue = [c \in CellId |-> IsX(w[c])]
      /\ reg = [c \in CellId |-> TwoState(r[c])] /\ xReg = [c \in CellId |-> IsX(r[c])]
      /\ past = [c \in CellId |-> 0]
      /\ mem = [c \in CellId |-> [a \in Addr |-> 0]]
      /\ xMem = [c \in CellId |-> [a \in Addr |-> 1]]
      /\ userInputs = [c \in CellId |-> {}]
  BY DEF Init, ScheduleInit
<1>3. \A c \in CellId : r[c] \in Val
  <2>1. ASSUME NEW c \in Registers(def) PROVE InitialValue(def, c) \in Val
    <3>1. InitialValue(def, c) = def.type[c].init[1]
      BY DEF InitialValue, Registers, Memories
    <3> QED BY <3>1, <1>1, ResetType
  <2> QED BY <2>1 DEF Val, X
<1>4. \A c \in CellId : w[c] \in Val
  <2>1. /\ WellFormed(def) /\ FullyDriven(def) /\ Acyclic(def) /\ def \in Net
    BY <1>1, CircuitFacts DEF CircuitsAcyclic
  <2>2. Agree(def, i, r, m, w, CellId) BY <2>1, WiresSolve
  <2>3. \A c \in CellId : i[c] \in Val /\ m[c] \in [Addr -> Val] BY DEF Val, X
  <2> HIDE DEF w, i, r, m
  <2> DEFINE S == {c \in CellId : w[c] \notin Val}
  <2>4. \A c \in CellId \ Evaluated(def) : w[c] \in Val
    <3> TAKE c \in CellId \ Evaluated(def)
    <3>1. w[c] = WireValue(def, i, r, m, w, c) BY <2>2 DEF Agree
    <3>2. InitialValue(def, c) \in Val
      <4>1. CASE c \notin Cells(def) BY <4>1 DEF InitialValue, Val, X
      <4>2. CASE c \in Cells(def) /\ Tp(def, c) \in {"CONST", "REG", "REG_ARST"}
        <5>1. def.type[c] \in Kind /\ def.type[c].tp = Tp(def, c) BY <4>2, <2>1, NetFields DEF Cells, Tp
        <5>2. def.type[c].init[1] \in Val BY <5>1, <4>2, SemanticsAssumption
        <5> QED BY <4>2, <5>2 DEF InitialValue, Memories
      <4>3. CASE c \in Memories(def)
        BY <4>3 DEF InitialValue, Memories, Val
      <4>4. CASE c \in Cells(def) \ Memories(def) /\ Tp(def, c) \notin {"CONST", "REG", "REG_ARST"}
        BY <4>4 DEF InitialValue, Val, X
      <4> QED BY <4>1, <4>2, <4>3, <4>4
    <3> QED BY <3>1, <3>2, <1>3, <2>3 DEF WireValue
  <2>5. S \in SUBSET Evaluated(def) BY <2>4
  <2>6. SUFFICES ASSUME S # {} PROVE FALSE OBVIOUS
  <2>7. PICK c \in S : \A p \in Reads(Tp(def, c)) : Driver(def, c, p) \notin S
    BY <2>1, <2>5, <2>6 DEF Acyclic
  <2>8. c \in Evaluated(def) /\ Tp(def, c) \in CombTypes BY <2>1, <2>5, EvaluatedTypes
  <2>9. \A p \in Reads(Tp(def, c)) : In(def, w, c, p) \in Val
    BY <2>1, <2>7, <2>8, ReadsCells DEF In, Cells
  <2>10. Eval(def, w, m, c) \in Val BY <2>3, <2>8, <2>9, EvalType
  <2>11. w[c] = Eval(def, w, m, c) BY <2>2, <2>8 DEF Agree, WireValue
  <2> QED BY <2>10, <2>11
<1> HIDE DEF w, r, m, i
<1>5. \A q \in Val : TwoState(q) \in {0, 1} /\ IsX(q) \in {0, 1} BY DEF TwoState, IsX, Bool, Val, X
<1>6. /\ value \in [CellId -> {0, 1}] /\ past \in [CellId -> {0, 1}] /\ reg \in [CellId -> {0, 1}]
      /\ mem \in [CellId -> [Addr -> {0, 1}]]
      /\ xValue \in [CellId -> {0, 1}] /\ xReg \in [CellId -> {0, 1}]
      /\ xMem \in [CellId -> [Addr -> {0, 1}]]
  BY <1>2, <1>3, <1>4, <1>5
<1>7. {0, 1} \subseteq Byt(def) BY <1>1, BytFacts
<1>8. /\ value \in [CellId -> Byt(def)] /\ past \in [CellId -> Byt(def)] /\ reg \in [CellId -> Byt(def)]
      /\ mem \in [CellId -> [Addr -> Byt(def)]]
  <2>1. \A c \in CellId : mem[c] \in [Addr -> Byt(def)]
    <3> TAKE c \in CellId
    <3>1. mem[c] \in [Addr -> {0, 1}] BY <1>6
    <3> QED BY <3>1, <1>7
  <2>2. mem \in [CellId -> [Addr -> Byt(def)]] BY <2>1, <1>6
  <2> QED BY <2>2, <1>6, <1>7
<1> QED BY <1>2, <1>6, <1>8 DEF TableTypes

LEMMA SimulateRawTypes ==
  ASSUME ScheduleInv, TableTypes, Fresh \subseteq Val, SimulateRaw PROVE TableTypes'
<1> DEFINE shown == Shown(xValue, value)
           kept == [c \in CellId |->
                      IF c \in Registers(def) \/ (c \in Cells(def) /\ Tp(def, c) = "CONST")
                      THEN TwoState(shown[c]) ELSE 0]
<1>0. def \in Circuits BY DEF ScheduleInv, ScheduleTypes
<1>1. /\ value' = kept /\ reg' = [c \in CellId |-> IF c \in Registers(def) THEN kept[c] ELSE 0]
      /\ past' = [c \in CellId |-> 0] /\ mem' = [c \in CellId |-> [a \in Addr |-> 0]]
      /\ xValue' = past' /\ xReg' = past' /\ xMem' = mem'
      /\ simRaw' = TRUE /\ phase' = "compiled" /\ def' = def /\ userInputs' = userInputs
  BY DEF SimulateRaw
<1>2. {0, 1} \subseteq Byt(def) /\ Byt(def) \subseteq Nat BY <1>0, BytFacts DEF Byte
<1>3. \A c \in CellId : TwoState(shown[c]) \in {0, 1} BY <1>2, ShownType DEF TableTypes
<1> HIDE DEF shown
<1>4. kept \in [CellId -> {0, 1}] BY <1>3
<1> HIDE DEF kept
<1>5. /\ value' \in [CellId -> Byt(def)] /\ reg' \in [CellId -> Byt(def)] /\ past' \in [CellId -> Byt(def)]
      /\ mem' \in [CellId -> [Addr -> Byt(def)]]
  BY <1>1, <1>2, <1>4
<1>6. /\ xValue' \in [CellId -> {0, 1}] /\ xReg' \in [CellId -> {0, 1}]
      /\ xMem' \in [CellId -> [Addr -> {0, 1}]]
  BY <1>1
<1>7. phase' \in Waiting /\ simRaw' \in BOOLEAN /\ userInputs' \in [CellId -> SUBSET Val]
  BY <1>1 DEF TableTypes, Waiting
<1> QED BY <1>1, <1>5, <1>6, <1>7 DEF TableTypes

LEMMA UpdateTypes ==
  ASSUME ScheduleInv, TableTypes, Update PROVE TableTypes'
<1> DEFINE shown == Shown(xValue, value)
           largest(c) == CHOOSE v \in userInputs[c] : \A w \in userInputs[c] : ~QLess(v, w)
           given == [c \in CellId |-> IF userInputs[c] = {} THEN shown[c] ELSE largest(c)]
<1>0. def \in Circuits BY DEF ScheduleInv, ScheduleTypes
<1>1. /\ value' = [c \in CellId |->
                     IF userInputs[c] = {} \/ (~simRaw /\ given[c] = X) THEN value[c]
                     ELSE TwoState(given[c])]
      /\ xValue' = [c \in CellId |->
                      IF userInputs[c] = {} THEN xValue[c] ELSE Bool(~simRaw /\ given[c] = X)]
      /\ userInputs' = [c \in CellId |-> {}]
      /\ phase' = "running" /\ simRaw' = simRaw /\ def' = def
      /\ past' = past /\ reg' = reg /\ mem' = mem /\ xReg' = xReg /\ xMem' = xMem
  BY DEF Update
<1>2. {0, 1} \subseteq Byt(def) BY <1>0, BytFacts
<1>3. \A c \in CellId : userInputs[c] # {} => TwoState(given[c]) \in {0, 1}
  <2> SUFFICES ASSUME NEW c \in CellId, userInputs[c] # {} PROVE TwoState(given[c]) \in {0, 1}
    OBVIOUS
  <2>1. userInputs[c] \in SUBSET Val BY DEF TableTypes
  <2>2. largest(c) \in Val BY <2>1, LargestInput
  <2> HIDE DEF largest
  <2>3. given[c] \in {0, 1, 2} BY <2>2 DEF Val
  <2> HIDE DEF given
  <2> QED BY <2>3 DEF TwoState, X
<1> HIDE DEF given
<1>4. \A q : Bool(q) \in {0, 1} BY DEF Bool
<1>5. value' \in [CellId -> Byt(def)] BY <1>1, <1>2, <1>3 DEF TableTypes
<1>6. xValue' \in [CellId -> {0, 1}] BY <1>1, <1>4 DEF TableTypes
<1>7. userInputs' \in [CellId -> SUBSET Val] BY <1>1
<1> QED BY <1>1, <1>5, <1>6, <1>7 DEF TableTypes

LEMMA CombBlockTypes ==
  ASSUME ScheduleInv, TableTypes, CombBlock PROVE TableTypes'
<1> DEFINE done == Evaluate(updates[at])
<1>0. def \in Circuits /\ updates \in Seq(Seq(Active(def))) BY DEF ScheduleInv, ScheduleTypes
<1>1. /\ at \in DOMAIN updates /\ value' = done.v /\ xValue' = done.x
      /\ past' = [c \in CellId |-> IF c \in Range(updates[at]) /\ SeqReceivers(def, c) # {}
                                   THEN value[c] ELSE past[c]]
      /\ def' = def /\ phase' = phase /\ simRaw' = simRaw /\ reg' = reg /\ mem' = mem
      /\ xReg' = xReg /\ xMem' = xMem /\ userInputs' = userInputs
  BY DEF CombBlock, scheduling
<1>2. updates[at] \in Seq(Active(def)) BY <1>0, <1>1
<1>3. done \in Table BY <1>0, <1>2, EvaluateType
<1> HIDE DEF done
<1>4. done.v \in [CellId -> Byt(def)] /\ done.x \in [CellId -> {0, 1}] BY <1>3 DEF Table
<1>5. past' \in [CellId -> Byt(def)] BY <1>1 DEF TableTypes
<1> QED BY <1>1, <1>4, <1>5 DEF TableTypes

LEMMA SeqBlockTypes ==
  ASSUME ScheduleInv, TableTypes, SeqBlock PROVE TableTypes'
<1> DEFINE regs == Range(updates[at]) \cap Registers(def)
           mems == Range(updates[at]) \cap Memories(def)
<1>0. def \in Circuits BY DEF ScheduleInv, ScheduleTypes
<1>1. /\ reg'  = [c \in CellId |-> IF c \in regs THEN NextReg(c) ELSE reg[c]]
      /\ xReg' = [c \in CellId |-> IF c \in regs THEN NextXReg(c) ELSE xReg[c]]
      /\ mem'  = [c \in CellId |-> IF c \in mems THEN NextMem(c) ELSE mem[c]]
      /\ xMem' = [c \in CellId |-> IF c \in mems THEN NextXMem(c) ELSE xMem[c]]
      /\ def' = def /\ phase' = phase /\ simRaw' = simRaw /\ value' = value /\ past' = past
      /\ xValue' = xValue /\ userInputs' = userInputs
  BY DEF SeqBlock, scheduling
<1>2. \A c \in regs : NextReg(c) \in Byt(def) /\ NextXReg(c) \in {0, 1} BY <1>0, NextRegType
<1>3. \A c \in mems : NextMem(c) \in [Addr -> Byt(def)] /\ NextXMem(c) \in [Addr -> {0, 1}]
  BY <1>0, NextMemType
<1> HIDE DEF regs, mems
<1>4. reg' \in [CellId -> Byt(def)] /\ xReg' \in [CellId -> {0, 1}] BY <1>1, <1>2 DEF TableTypes
<1>5. mem' \in [CellId -> [Addr -> Byt(def)]] /\ xMem' \in [CellId -> [Addr -> {0, 1}]]
  BY <1>1, <1>3 DEF TableTypes
<1> QED BY <1>1, <1>4, <1>5 DEF TableTypes

CompiledInv == ScheduleInv /\ TableTypes

LEMMA CompiledInvIsInductive ==
  ASSUME CircuitsAcyclic PROVE CompiledInv /\ [Next]_vars => CompiledInv'
<1> SUFFICES ASSUME CompiledInv, [Next]_vars PROVE CompiledInv' OBVIOUS
<1>0. ScheduleInv /\ TableTypes /\ ScheduleInv' BY ScheduleIsInductive DEF CompiledInv
<1>1. def' = def /\ {0, 1} \subseteq Byt(def)
  <2>1. def' = def
    BY DEF Next, vars, scheduling, Compile, Spread, Emit, Clocking, Clocked, SimulateRaw, SetFreshValue,
           SetFreshValueTwoState, Update, CombBlock, SeqBlock, Return
  <2> QED BY <2>1, <1>0, BytFacts DEF ScheduleInv, ScheduleTypes
<1>2. CASE Compile /\ UNCHANGED <<simRaw, table, userInputs, at>>
  <2>1. phase' \in {"spreading", "clocking", "compiled"}
    BY <1>2, <1>0 DEF Compile, Spread, Emit, Clocking, Clocked
  <2>2. TableTypes' BY <1>0, <1>1, <1>2, <2>1 DEF TableTypes, table, masks, Waiting
  <2> QED BY <2>2, <1>0 DEF CompiledInv
<1>3. CASE SimulateRaw
  BY <1>0, <1>3, SimulateRawTypes, CompiledAssumption DEF CompiledInv
<1>4. ASSUME NEW c \in CellId, NEW v \in Fresh, SetFreshValue(c, v) PROVE CompiledInv'
  <2>1. v \in Val BY CompiledAssumption
  <2>2. userInputs' \in [CellId -> SUBSET Val] BY <1>0, <1>4, <2>1 DEF SetFreshValue, TableTypes
  <2>3. TableTypes' BY <1>0, <1>1, <1>4, <2>2 DEF SetFreshValue, TableTypes, table, masks, scheduling
  <2> QED BY <2>3, <1>0 DEF CompiledInv
<1>5. ASSUME NEW c \in CellId, NEW v \in Fresh \ {X}, SetFreshValueTwoState(c, v) PROVE CompiledInv'
  <2>1. v \in {0, 1} BY CompiledAssumption DEF Val, X
  <2>2. value' \in [CellId -> Byt(def)] BY <1>0, <1>1, <1>5, <2>1 DEF SetFreshValueTwoState, TableTypes
  <2>3. TableTypes'
    BY <1>0, <1>1, <1>5, <2>2 DEF SetFreshValueTwoState, TableTypes, masks, Waiting
  <2> QED BY <2>3, <1>0 DEF CompiledInv
<1>6. CASE Update BY <1>0, <1>6, UpdateTypes DEF CompiledInv
<1>7. CASE CombBlock BY <1>0, <1>7, CombBlockTypes DEF CompiledInv
<1>8. CASE SeqBlock BY <1>0, <1>8, SeqBlockTypes DEF CompiledInv
<1>9. CASE Return
  <2>1. past' \in [CellId -> Byt(def)] BY <1>0, <1>9 DEF Return, TableTypes
  <2>2. TableTypes' BY <1>0, <1>1, <1>9, <2>1 DEF Return, TableTypes, masks, Waiting
  <2> QED BY <2>2, <1>0 DEF CompiledInv
<1>10. CASE UNCHANGED vars
  <2>1. TableTypes' BY <1>0, <1>1, <1>10 DEF TableTypes, vars, table, masks, scheduling
  <2> QED BY <2>1, <1>0 DEF CompiledInv
<1> QED BY <1>2, <1>3, <1>4, <1>5, <1>6, <1>7, <1>8, <1>9, <1>10 DEF Next

LEMMA CompiledTypes ==
  ASSUME CompiledInv PROVE TypeOK
<1> DEFINE B == IF \E k \in Kind : k.tp \in {"ADD", "SUB"} THEN Byte ELSE {0, 1}
<1>1. ScheduleTypes /\ TableTypes BY DEF CompiledInv, ScheduleInv
<1>2. /\ def \in Circuits /\ Active(def) \subseteq Cells(def) /\ Byt(def) \subseteq B
  BY <1>1, CircuitFacts, BytFacts DEF ScheduleTypes, Summing
<1> HIDE DEF B
<1>3. /\ value \in [CellId -> B] /\ past \in [CellId -> B] /\ reg \in [CellId -> B]
      /\ mem \in [CellId -> [Addr -> B]]
  <2>1. \A c \in CellId : mem[c] \in [Addr -> B]
    <3> TAKE c \in CellId
    <3>1. mem[c] \in [Addr -> Byt(def)] BY <1>1 DEF TableTypes
    <3> QED BY <3>1, <1>2
  <2>2. mem \in [CellId -> [Addr -> B]] BY <1>1, <2>1 DEF TableTypes
  <2> QED BY <1>1, <1>2, <2>2 DEF TableTypes
<1>4. freshChanges \cup visit \cup seqChanges \cup Range(combChanges) \subseteq [cell : Cells(def), port : Port]
  <2>1. PortsOf(def) \subseteq [cell : Cells(def), port : Port] BY <1>2 DEF PortsOf
  <2>2. Range(combChanges) \subseteq PortsOf(def) BY <1>1 DEF ScheduleTypes, Range
  <2> QED BY <1>1, <2>1, <2>2 DEF ScheduleTypes
<1>5. \A g \in DOMAIN updates : Range(updates[g]) \subseteq Cells(def)
  <2> TAKE g \in DOMAIN updates
  <2>1. updates[g] \in Seq(Active(def)) BY <1>1 DEF ScheduleTypes
  <2> QED BY <1>2, <2>1 DEF Range
<1> QED BY <1>1, <1>3, <1>4, <1>5 DEF TypeOK, TableTypes, B

\* The compiled code of every definition without combinational cycles finds and leaves
\* bytes in its table: bits where nothing is added, and always addresses where it reads a
\* memory; and its masks are bits.
THEOREM CompiledTypeCorrect ==
  ASSUME CircuitsAcyclic PROVE Spec => []TypeOK
<1>1. Init => CompiledInv BY ScheduleInitInv, InitTypes DEF Init, CompiledInv
<1>2. CompiledInv /\ [Next]_vars => CompiledInv' BY CompiledInvIsInductive
<1>3. CompiledInv => TypeOK BY CompiledTypes
<1> QED BY <1>1, <1>2, <1>3, PTL DEF Spec

-----------------------------------------------------------------------------
(* A group leaves every cell with what its operands make of it.              *)

\* The table w shows of cell c what its code would store in it now.
Holds(w, c) ==
  IF c \in Registers(def) THEN w.v[c] = reg[c] /\ w.x[c] = xReg[c]
  ELSE w.v[c] = Compute(w.v, mem, c) /\ w.x[c] = XMask(w.v, w.x, xMem, c)

\* Once the raw table is in use nothing is unknown.
RawIsKnown ==
  simRaw => /\ \A c \in CellId : xValue[c] = 0 /\ xReg[c] = 0
            /\ \A c \in CellId : \A a \in Addr : xMem[c][a] = 0

LEMMA NoSelfRead ==
  ASSUME NEW n, Acyclic(n), NEW c \in Evaluated(n), NEW p \in Reads(Tp(n, c)) PROVE Driver(n, c, p) # c
<1>1. {c} \in SUBSET Evaluated(n) /\ {c} # {} OBVIOUS
<1>2. PICK d \in {c} : \A q \in Reads(Tp(n, d)) : Driver(n, d, q) \notin {c} BY <1>1 DEF Acyclic
<1> QED BY <1>2

\* What a cell reads it depends on, unless it is a memory.
LEMMA ReadersDepend ==
  ASSUME NEW n \in Circuits, NEW c \in Evaluated(n) \ Memories(n), NEW p \in Reads(Tp(n, c))
  PROVE  \E s \in CombDependencies(n, Driver(n, c, p)) : s.cell = c
<1> DEFINE s == [cell |-> c, port |-> p]
<1>1. WellFormed(n) /\ FullyDriven(n) BY CircuitFacts
<1>2. /\ PinOf(c, p) \in OutReceivers(n, Driver(n, c, p))
      /\ p \in {"IN", "IN0", "IN1", "SEL", "RADDR"}
  BY <1>1, ReadsCells
<1>3. s \in CombReceivers(n, Driver(n, c, p))
  <2>1. s = SigPort(PinOf(c, p)) /\ PinOf(c, p).port = p BY DEF SigPort, PinOf
  <2> QED BY <1>2, <2>1 DEF CombReceivers
<1>4. c \notin Registers(n) \cup Memories(n) BY DEF Evaluated
<1>5. s \in CombDependencies(n, Driver(n, c, p)) BY <1>3, <1>4 DEF CombDependencies
<1> QED BY <1>5

LEMMA CodeDependsOnReads ==
  ASSUME def \in Circuits, NEW c \in Evaluated(def), NEW v, NEW w, NEW x, NEW y, NEW m, NEW l, NEW s, NEW t,
         \A p \in Reads(Tp(def, c)) : /\ Operand(v, c, p) = Operand(w, c, p)
                                      /\ Operand(x, c, p) = Operand(y, c, p),
         m[c] = l[c], s[c] = t[c]
  PROVE  Compute(v, m, c) = Compute(w, l, c) /\ XMask(v, x, s, c) = XMask(w, y, t, c)
<1> DEFINE tp == Tp(def, c)
<1>1. tp \in CombTypes /\ tp # "ANDR"
  BY CircuitFacts, EvaluatedTypes, CompiledAssumption DEF Tp
<1>2. CASE tp \in (Unary \ {"ANDR"}) \cup {"PORT"}
  <2>1. Operand(v, c, "IN") = Operand(w, c, "IN") /\ Operand(x, c, "IN") = Operand(y, c, "IN")
    BY <1>2 DEF Reads, Unary, Binary, Comparator
  <2>2. Compute(v, m, c) = Compute(w, l, c)
    BY <2>1, <1>2 DEF Compute, Unary
  <2>3. XMask(v, x, s, c) = Operand(x, c, "IN") /\ XMask(w, y, t, c) = Operand(y, c, "IN")
    BY <1>2 DEF XMask, Unary, Binary, Comparator
  <2> QED BY <2>1, <2>2, <2>3
<1>3. CASE tp \in Binary
  <2>1. /\ Operand(v, c, "IN0") = Operand(w, c, "IN0") /\ Operand(x, c, "IN0") = Operand(y, c, "IN0")
        /\ Operand(v, c, "IN1") = Operand(w, c, "IN1") /\ Operand(x, c, "IN1") = Operand(y, c, "IN1")
    BY <1>3 DEF Reads, Unary, Binary, Comparator
  <2>2. Compute(v, m, c) = Compute(w, l, c)
    BY <2>1, <1>3 DEF Compute, Binary, Comparator
  <2>3. /\ XMask(v, x, s, c) = FromBits(Bits(Operand(x, c, "IN0")) \cup Bits(Operand(x, c, "IN1")))
        /\ XMask(w, y, t, c) = FromBits(Bits(Operand(y, c, "IN0")) \cup Bits(Operand(y, c, "IN1")))
    BY <1>3 DEF XMask, Unary, Binary, Comparator
  <2> QED BY <2>1, <2>2, <2>3
<1>4. CASE tp = "MUX"
  <2>1. "SEL" \in Reads(tp) /\ Chosen(v, c) \in Reads(tp)
    BY <1>4 DEF Chosen, Reads, Binary, Comparator
  <2>2. Chosen(v, c) = Chosen(w, c) BY <2>1 DEF Chosen
  <2> QED BY <2>1, <2>2, <1>4 DEF Compute, XMask, Unary, Binary, Comparator
<1>5. CASE tp = "MEM"
  <2>1. "RADDR" \in Reads(tp) BY <1>5 DEF Reads, Binary, Comparator
  <2>2. Loaded(v, m, c) = Loaded(w, l, c) /\ Loaded(v, s, c) = Loaded(w, t, c) BY <2>1 DEF Loaded
  <2> QED BY <2>2, <1>5 DEF Compute, XMask, Unary, Binary, Comparator
<1> QED BY <1>1, <1>2, <1>3, <1>4, <1>5 DEF CombTypes

\* Of operands that are all known the masks make a known output.
LEMMA KnownStaysKnown ==
  ASSUME def \in Circuits, NEW c \in Evaluated(def), NEW v \in [CellId -> Byt(def)], NEW x, NEW m,
         \A p \in Reads(Tp(def, c)) : Operand(x, c, p) = 0, \A a \in Addr : m[c][a] = 0
  PROVE  XMask(v, x, m, c) = 0
<1> DEFINE tp == Tp(def, c)
<1>1. tp \in CombTypes BY CircuitFacts, EvaluatedTypes
<1>2. CASE tp \in Unary \cup {"PORT"}
  <2>1. Operand(x, c, "IN") = 0 BY <1>2 DEF Reads, Unary, Binary, Comparator
  <2> QED BY <2>1, <1>2 DEF XMask, Unary, Binary, Comparator
<1>3. CASE tp \in Binary
  <2>1. Operand(x, c, "IN0") = 0 /\ Operand(x, c, "IN1") = 0
    BY <1>3 DEF Reads, Unary, Binary, Comparator
  <2>2. Bits(0) \cup Bits(0) \in SUBSET {0} /\ 0 \notin Bits(0) BY BitsOfBits
  <2>3. FromBits(Bits(0) \cup Bits(0)) = 0 BY <2>2, BitsOfBits
  <2>4. XMask(v, x, m, c) = FromBits(Bits(Operand(x, c, "IN0")) \cup Bits(Operand(x, c, "IN1")))
    BY <1>3 DEF XMask, Unary, Binary, Comparator
  <2> QED BY <2>1, <2>3, <2>4
<1>4. CASE tp = "MUX"
  <2>1. Chosen(v, c) \in Reads(tp) BY <1>4 DEF Chosen, Reads, Binary, Comparator
  <2> QED BY <2>1, <1>4 DEF XMask, Unary, Binary, Comparator
<1>5. CASE tp = "MEM"
  <2>1. Operand(v, c, "RADDR") \in Addr BY <1>5, AddressTypes DEF Operand
  <2> QED BY <2>1, <1>5 DEF XMask, Loaded, Unary, Binary, Comparator
<1> QED BY <1>1, <1>2, <1>3, <1>4, <1>5 DEF CombTypes

\* Storing a cell makes it hold, and disturbs its readers only: those that depend on it, and the
\* memories it is the address of.
LEMMA StoreHolds ==
  ASSUME def \in Circuits, Acyclic(def), TableTypes, RawIsKnown, NEW w \in Table,
         simRaw => \A c \in CellId : w.x[c] = 0, NEW d \in Active(def)
  PROVE  /\ Holds(Store(w, d), d)
         /\ \A c \in Active(def) :
              \/ Holds(w, c) => Holds(Store(w, d), c)
              \/ \E s \in CombDependencies(def, d) : s.cell = c
              \/ c \in Memories(def) /\ Driver(def, c, "RADDR") = d
         /\ simRaw => \A c \in CellId : Store(w, d).x[c] = 0
         /\ \A c \in CellId \ {d} : Store(w, d).v[c] = w.v[c] /\ Store(w, d).x[c] = w.x[c]
<1> DEFINE shows == IF d \in Registers(def) THEN [v |-> reg[d], x |-> xReg[d]]
                    ELSE [v |-> Compute(w.v, mem, d), x |-> XMask(w.v, w.x, xMem, d)]
           k == Store(w, d)
<1>0. /\ WellFormed(def) /\ FullyDriven(def) /\ Active(def) \subseteq CellId
      /\ d \in CellId /\ w.v \in [CellId -> Byt(def)] /\ w.x \in [CellId -> {0, 1}]
  BY CircuitFacts DEF Table
<1>1. k = [v |-> [w.v EXCEPT ![d] = shows.v],
           x |-> IF simRaw THEN w.x ELSE [w.x EXCEPT ![d] = shows.x]]
  BY DEF Store
<1>2. d \in Registers(def) \/ (d \in Evaluated(def) /\ d \notin Registers(def))
  BY DEF Active, Evaluated
<1>3. simRaw => shows.x = 0
  <2> SUFFICES ASSUME simRaw PROVE shows.x = 0 OBVIOUS
  <2>1. CASE d \in Registers(def) BY <2>1, <1>0 DEF RawIsKnown
  <2>2. CASE d \in Evaluated(def) /\ d \notin Registers(def)
    <3>1. \A p \in Reads(Tp(def, d)) : Operand(w.x, d, p) = 0
      BY <2>2, <1>0, ReadsCells DEF Operand, In, Cells
    <3>2. \A a \in Addr : xMem[d][a] = 0 BY <1>0 DEF RawIsKnown
    <3>3. XMask(w.v, w.x, xMem, d) = 0 BY <2>2, <3>1, <3>2, <1>0, KnownStaysKnown
    <3> QED BY <3>3, <2>2
  <2> QED BY <1>2, <2>1, <2>2
<1>4. shows.v = (IF d \in Registers(def) THEN reg[d] ELSE Compute(w.v, mem, d))
      /\ shows.x = (IF d \in Registers(def) THEN xReg[d] ELSE XMask(w.v, w.x, xMem, d))
  OBVIOUS
<1> HIDE DEF shows, k
<1>5. /\ k.v[d] = shows.v /\ k.x[d] = shows.x
      /\ \A c \in CellId \ {d} : k.v[c] = w.v[c] /\ k.x[c] = w.x[c]
  <2>1. CASE simRaw BY <2>1, <1>0, <1>1, <1>3
  <2>2. CASE ~simRaw BY <2>2, <1>0, <1>1
  <2> QED BY <2>1, <2>2
<1>6. ASSUME NEW c \in Evaluated(def), \A p \in Reads(Tp(def, c)) : Driver(def, c, p) # d
      PROVE  /\ Compute(k.v, mem, c) = Compute(w.v, mem, c)
             /\ XMask(k.v, k.x, xMem, c) = XMask(w.v, w.x, xMem, c)
  <2>1. \A p \in Reads(Tp(def, c)) : Driver(def, c, p) \in CellId BY <1>0, ReadsCells DEF Cells
  <2>2. \A p \in Reads(Tp(def, c)) : /\ Operand(k.v, c, p) = Operand(w.v, c, p)
                                     /\ Operand(k.x, c, p) = Operand(w.x, c, p)
    BY <2>1, <1>5, <1>6 DEF Operand, In
  <2> QED BY <2>2, CodeDependsOnReads
<1>7. Holds(k, d)
  <2>1. CASE d \in Registers(def) BY <2>1, <1>4, <1>5 DEF Holds
  <2>2. CASE d \in Evaluated(def) /\ d \notin Registers(def)
    <3>1. \A p \in Reads(Tp(def, d)) : Driver(def, d, p) # d BY <2>2, NoSelfRead
    <3> QED BY <3>1, <2>2, <1>4, <1>5, <1>6 DEF Holds
  <2> QED BY <1>2, <2>1, <2>2
<1>8. ASSUME NEW c \in Active(def), Holds(w, c), ~ \E s \in CombDependencies(def, d) : s.cell = c,
             ~(c \in Memories(def) /\ Driver(def, c, "RADDR") = d)
      PROVE  Holds(k, c)
  <2>1. CASE c = d BY <2>1, <1>7
  <2>2. CASE c # d /\ c \in Registers(def) BY <2>2, <1>0, <1>5, <1>8 DEF Holds
  <2>3. CASE c # d /\ c \notin Registers(def)
    <3>1. c \in Evaluated(def) /\ c \in CellId BY <2>3, <1>0 DEF Active
    <3>2. \A p \in Reads(Tp(def, c)) : Driver(def, c, p) # d
      <4>1. CASE c \in Memories(def)
        BY <4>1, <1>8 DEF Memories, Reads, Binary, Comparator
      <4>2. CASE c \notin Memories(def) BY <4>2, <3>1, <1>8, ReadersDepend
      <4> QED BY <4>1, <4>2
    <3> QED BY <2>3, <3>1, <3>2, <1>5, <1>6, <1>8 DEF Holds
  <2> QED BY <2>1, <2>2, <2>3
<1>9. simRaw => \A c \in CellId : k.x[c] = 0
  BY <1>3, <1>5
<1> QED BY <1>5, <1>7, <1>8, <1>9 DEF k

\* A group in which readers come behind, and which has all that may not hold but the cells of M,
\* leaves all but these holding, if it moves the address of no other memory.
Settled(w, P) == \A c \in Active(def) \ P : Holds(w, c)

LEMMA GroupSettles ==
  ASSUME def \in Circuits, Acyclic(def), TableTypes, RawIsKnown, NEW cells \in Seq(Active(def)),
         ReadersBehind(def, cells), NEW M, Settled([v |-> value, x |-> xValue], Range(cells) \cup M),
         \A c \in Memories(def) \ M : Driver(def, c, "RADDR") \notin Range(cells)
  PROVE  /\ Settled(Evaluate(cells), M)
         /\ simRaw => \A c \in CellId : Evaluate(cells).x[c] = 0
         /\ \A c \in CellId \ Active(def) : /\ Evaluate(cells).v[c] = value[c]
                                            /\ Evaluate(cells).x[c] = xValue[c]
<1> DEFINE k == Len(cells)
           behind(i, c) == \E j \in 1 .. k : i < j /\ cells[j] = c
<1>0. k \in Nat /\ DOMAIN cells = 1 .. k /\ \A i \in 1 .. k : cells[i] \in Active(def)
  OBVIOUS
<1>1. PICK f : /\ f[0] = [v |-> value, x |-> xValue]
               /\ \A i \in 1 .. k : f[i] = Store(f[i - 1], cells[i])
               /\ Evaluate(cells) = f[k]
  BY EvaluateSteps
<1> DEFINE Good(i) == /\ f[i] \in Table
                      /\ simRaw => \A c \in CellId : f[i].x[c] = 0
                      /\ \A c \in Active(def) \ M : Holds(f[i], c) \/ behind(i, c)
                      /\ \A c \in CellId \ Active(def) : f[i].v[c] = value[c] /\ f[i].x[c] = xValue[c]
           T == {i \in 0 .. k : ~Good(i)}
<1>2. Good(0)
  <2>1. f[0] \in Table BY <1>1 DEF Table, TableTypes
  <2>2. simRaw => \A c \in CellId : f[0].x[c] = 0 BY <1>1 DEF RawIsKnown
  <2>3. ASSUME NEW c \in Active(def), c \in Range(cells) PROVE behind(0, c)
    <3>1. PICK j \in 1 .. k : cells[j] = c BY <2>3, <1>0 DEF Range
    <3> QED BY <3>1
  <2>4. \A c \in Active(def) \ M : Holds(f[0], c) \/ behind(0, c)
    BY <1>1, <2>3 DEF Settled
  <2> QED BY <1>1, <2>1, <2>2, <2>4
<1>3. ASSUME NEW i \in 1 .. k, Good(i - 1) PROVE Good(i)
  <2> DEFINE d == cells[i]
             w == f[i - 1]
  <2>1. /\ d \in Active(def) /\ w \in Table /\ f[i] = Store(w, d)
        /\ simRaw => \A c \in CellId : w.x[c] = 0
    BY <1>0, <1>1, <1>3
  <2> HIDE DEF d, w
  <2>2. f[i] \in Table BY <2>1, StoreType
  <2>3. /\ Holds(f[i], d)
        /\ \A c \in Active(def) : \/ Holds(w, c) => Holds(f[i], c)
                                  \/ \E s \in CombDependencies(def, d) : s.cell = c
                                  \/ c \in Memories(def) /\ Driver(def, c, "RADDR") = d
        /\ simRaw => \A c \in CellId : f[i].x[c] = 0
        /\ \A c \in CellId \ {d} : f[i].v[c] = w.v[c] /\ f[i].x[c] = w.x[c]
    BY <2>1, StoreHolds
  <2>4. ASSUME NEW c \in Active(def) \ M PROVE Holds(f[i], c) \/ behind(i, c)
    <3>1. CASE c = d BY <3>1, <2>3
    <3>2. CASE \E s \in CombDependencies(def, d) : s.cell = c
      <4>1. \E j \in DOMAIN cells : i < j /\ cells[j] = c BY <3>2, <1>0 DEF ReadersBehind, d
      <4> QED BY <4>1, <1>0
    <3>3. CASE c # d /\ behind(i - 1, c)
      <4>1. PICK j \in 1 .. k : i - 1 < j /\ cells[j] = c BY <3>3
      <4>2. j # i BY <3>3, <4>1 DEF d
      <4>3. i < j BY <4>1, <4>2, <1>0
      <4> QED BY <4>1, <4>3
    <3>4. Holds(w, c) \/ behind(i - 1, c) BY <1>3 DEF w
    <3>5. ~(c \in Memories(def) /\ Driver(def, c, "RADDR") = d)
      <4>1. d \in Range(cells) BY <1>0 DEF Range, d
      <4> QED BY <4>1
    <3> QED BY <3>1, <3>2, <3>3, <3>4, <3>5, <2>3
  <2>5. \A c \in CellId \ Active(def) : f[i].v[c] = value[c] /\ f[i].x[c] = xValue[c]
    <3>1. \A c \in CellId \ Active(def) : w.v[c] = value[c] /\ w.x[c] = xValue[c] BY <1>3 DEF w
    <3> QED BY <3>1, <2>1, <2>3
  <2> QED BY <2>2, <2>3, <2>4, <2>5
<1> HIDE DEF Good
<1>4. T = {}
  <2> SUFFICES ASSUME T # {} PROVE FALSE OBVIOUS
  <2>1. T \in SUBSET Nat BY <1>0
  <2>2. PICK i \in T : \A j \in T : i <= j BY <2>1, LeastNumber
  <2>3. i \in 1 .. k /\ i - 1 \in 0 .. k /\ i - 1 < i BY <1>0, <1>2, <2>2
  <2>4. i - 1 \notin T BY <1>0, <2>2, <2>3
  <2> QED BY <1>3, <2>2, <2>3, <2>4
<1>5. Good(k) BY <1>0, <1>4
<1>6. \A c \in Active(def) : ~behind(k, c) BY <1>0
<1> QED BY <1>1, <1>5, <1>6 DEF Good, Settled

-----------------------------------------------------------------------------
(* The groups of a definition whose clocks and resets are input ports: only  *)
(* the first clocked group is not empty.                                     *)

ClockedOnce ==
  ClockedByInputs =>
    /\ updates # <<>> /\ phase = "spreading" => seqChanges = {}
    /\ \A g \in DOMAIN updates : g % 2 = 0 /\ g > 2 => Range(updates[g]) = {}

LEMMA InputsClock ==
  ASSUME ClockedByInputs, def \in Circuits, NEW c \in Active(def) PROVE SeqReceivers(def, c) = {}
BY CircuitFacts DEF ClockedByInputs, Active, Evaluated, Registers, Inputs

\* The two groups that Emit adds.
LEMMA EmittedGroups ==
  ASSUME ScheduleInv, Emit
  PROVE  LET n == Len(updates)
         IN  /\ n \in Nat /\ n % 2 = 0 /\ DOMAIN updates = 1 .. n /\ DOMAIN updates' = 1 .. n + 2
             /\ updates'[n + 1] \in Seq(CellsOf(combChanges))
             /\ updates'[n + 2] \in Seq(CellsOf(InOrder(seqChanges)))
             /\ InOrder(seqChanges) \in Seq(seqChanges)
             /\ \A i \in 1 .. n : updates'[i] = updates[i]
<1> DEFINE queue == InOrder(seqChanges)
           comb  == Filtered(combChanges)
           seq   == Filtered(queue)
           n     == Len(updates)
<1>1. updates' = updates \o <<comb, seq>> BY DEF Emit
<1>2. ScheduleTypes /\ n % 2 = 0 BY DEF ScheduleInv, GroupsCover
<1>3. /\ combChanges \in Seq(PortsOf(def)) /\ seqChanges \in SUBSET PortsOf(def)
      /\ updates \in Seq(Seq(Active(def)))
  BY <1>2 DEF ScheduleTypes
<1>4. queue \in Seq(seqChanges) BY <1>3, PortsInOrder, PortsOfAreSigPorts
<1> HIDE DEF queue
<1>5. comb \in Seq(CellsOf(combChanges)) /\ seq \in Seq(CellsOf(queue))
  BY <1>3, <1>4, FilteredGroup
<1> DEFINE All == Seq(Active(def)) \cup {comb, seq}
<1>6. updates \in Seq(All) /\ comb \in All /\ seq \in All BY <1>3
<1> HIDE DEF comb, seq, All
<1>7. /\ n \in Nat /\ DOMAIN updates = 1 .. n /\ DOMAIN updates' = 1 .. n + 2
      /\ updates'[n + 1] = comb /\ updates'[n + 2] = seq /\ \A i \in 1 .. n : updates'[i] = updates[i]
  <2>1. n \in Nat /\ DOMAIN updates = 1 .. n BY <1>6
  <2>2. /\ updates' \in Seq(All) /\ Len(updates') = n + 2
        /\ updates'[n + 1] = comb /\ updates'[n + 2] = seq /\ \A i \in 1 .. n : updates'[i] = updates[i]
    BY <1>1, <1>6, TwoMore
  <2>3. DOMAIN updates' = 1 .. n + 2 BY <2>2
  <2> QED BY <2>1, <2>2, <2>3
<1> QED BY <1>2, <1>4, <1>5, <1>7 DEF queue

LEMMA EmitClocksOnce ==
  ASSUME ScheduleInv, ClockedOnce, Emit PROVE ClockedOnce'
<1> DEFINE queue == InOrder(seqChanges)
           n     == Len(updates)
<1>1. phase' = "clocking" /\ def' = def /\ phase = "spreading"
  BY DEF Emit
<1>2. /\ n \in Nat /\ n % 2 = 0 /\ DOMAIN updates = 1 .. n /\ DOMAIN updates' = 1 .. n + 2
      /\ updates'[n + 2] \in Seq(CellsOf(queue)) /\ queue \in Seq(seqChanges)
      /\ \A i \in 1 .. n : updates'[i] = updates[i]
  BY EmittedGroups
<1> HIDE DEF queue
<1>8. ClockedByInputs' <=> ClockedByInputs BY <1>1 DEF ClockedByInputs
<1>9. ASSUME ClockedByInputs, NEW g \in DOMAIN updates', g % 2 = 0, g > 2
      PROVE  Range(updates'[g]) = {}
  <2>1. CASE g <= n
    <3>1. g \in DOMAIN updates BY <2>1, <1>2, <1>9
    <3> QED BY <3>1, <2>1, <1>2, <1>9 DEF ClockedOnce
  <2>2. CASE g > n
    <3>1. g = n + 2
      <4>1. n \in Nat /\ n % 2 = 0 /\ g \in Nat /\ g > n /\ g <= n + 2 /\ g % 2 = 0 BY <1>2, <1>9, <2>2
      <4> HIDE DEF n
      <4>2. (n + 1) % 2 = 1 BY <4>1
      <4>3. g = n + 1 \/ g = n + 2 BY <4>1
      <4> QED BY <4>1, <4>2, <4>3
    <3>2. n # 0 BY <3>1, <1>9
    <3>3. updates # <<>> BY <3>2
    <3>4. seqChanges = {} BY <3>3, <1>1, <1>9 DEF ClockedOnce
    <3>5. \A q \in Seq(seqChanges) : DOMAIN q = {}
      <4> SUFFICES ASSUME NEW q \in Seq({}) PROVE DOMAIN q = {} BY <3>4
      <4>1. Len(q) \in Nat /\ DOMAIN q = 1 .. Len(q) /\ \A i \in 1 .. Len(q) : q[i] \in {} OBVIOUS
      <4> QED BY <4>1
    <3>6. CellsOf(queue) = {} BY <1>2, <3>5 DEF CellsOf
    <3>7. Range(updates'[n + 2]) = {} BY <1>2, <3>6 DEF Range
    <3> QED BY <3>1, <3>7
  <2>3. g \in Nat /\ n \in Nat BY <1>2, <1>9
  <2> QED BY <2>1, <2>2, <2>3
<1> QED BY <1>1, <1>8, <1>9 DEF ClockedOnce

LEMMA ClockedOnceIsInductive ==
  ASSUME CircuitsAcyclic PROVE ScheduleInv /\ ClockedOnce /\ [Next]_vars => ClockedOnce'
<1> SUFFICES ASSUME ScheduleInv, ClockedOnce, [Next]_vars PROVE ClockedOnce' OBVIOUS
<1>0. ScheduleTypes /\ def \in Circuits BY DEF ScheduleInv, ScheduleTypes
<1>1. CASE Spread
  <2> DEFINE s == First(freshChanges)
  <2>1. /\ phase = "spreading" /\ freshChanges # {} /\ phase' = phase /\ def' = def /\ updates' = updates
        /\ seqChanges' = seqChanges \cup SeqReceivers(def, s.cell)
    BY <1>1 DEF Spread
  <2>2. s \in PortsOf(def)
    <3>1. freshChanges \in SUBSET SigPorts BY <1>0, PortsOfAreSigPorts DEF ScheduleTypes
    <3>2. s \in freshChanges BY <2>1, <3>1, FirstIsIn
    <3> QED BY <1>0, <3>2 DEF ScheduleTypes
  <2> HIDE DEF s
  <2>3. ClockedByInputs => SeqReceivers(def, s.cell) = {} BY <1>0, <2>2, InputsClock DEF PortsOf
  <2> QED BY <2>1, <2>3 DEF ClockedOnce, ClockedByInputs
<1>2. CASE Emit BY <1>2, EmitClocksOnce
<1>3. CASE Clocking BY <1>3 DEF Clocking, ClockedOnce, ClockedByInputs
<1>4. CASE Clocked BY <1>4 DEF Clocked, ClockedOnce, ClockedByInputs
<1>5. ASSUME phase' # "spreading", updates' = updates, def' = def PROVE ClockedOnce'
  BY <1>5 DEF ClockedOnce, ClockedByInputs
<1>6. ASSUME UNCHANGED <<phase, updates, def, seqChanges>> PROVE ClockedOnce'
  BY <1>6 DEF ClockedOnce, ClockedByInputs
<1>7. CASE SimulateRaw BY <1>5, <1>7 DEF SimulateRaw
<1>8. ASSUME NEW c \in CellId, NEW v \in Fresh, SetFreshValue(c, v) PROVE ClockedOnce'
  BY <1>6, <1>8 DEF SetFreshValue, scheduling
<1>9. ASSUME NEW c \in CellId, NEW v \in Fresh \ {X}, SetFreshValueTwoState(c, v) PROVE ClockedOnce'
  BY <1>5, <1>9 DEF SetFreshValueTwoState
<1>10. CASE Update BY <1>5, <1>10 DEF Update
<1>11. CASE CombBlock BY <1>6, <1>11 DEF CombBlock, scheduling
<1>12. CASE SeqBlock BY <1>6, <1>12 DEF SeqBlock, scheduling
<1>13. CASE Return BY <1>5, <1>13 DEF Return
<1>14. CASE UNCHANGED vars BY <1>6, <1>14 DEF vars, scheduling
<1> QED BY <1>1, <1>2, <1>3, <1>4, <1>7, <1>8, <1>9, <1>10, <1>11, <1>12, <1>13, <1>14 DEF Next, Compile

-----------------------------------------------------------------------------
(* After the first, combinational groups have only what registers and        *)
(* memories reach.                                                           *)

FromStates == Reached(def, Registers(def) \cup Memories(def))

LaterGroups ==
  /\ updates # <<>> => /\ \A i \in DOMAIN combChanges : combChanges[i].cell \in FromStates
                       /\ \A s \in freshChanges : s.cell \in FromStates
  /\ \A g \in Odd(updates) : g > 1 => Range(updates[g]) \subseteq FromStates

LEMMA FromStatesIsClosed ==
  ASSUME ScheduleInv
  PROVE  /\ Registers(def) \cup Memories(def) \subseteq FromStates
         /\ \A d \in FromStates : \A s \in CombDependencies(def, d) : s.cell \in FromStates
<1>1. WellFormed(def) BY CircuitFacts DEF ScheduleInv, ScheduleTypes
<1>2. Registers(def) \cup Memories(def) \in SUBSET Cells(def) BY DEF Registers, Memories
<1> QED BY <1>1, <1>2, ReachedIsClosed DEF FromStates

LEMMA InitLater ==
  ASSUME Init PROVE LaterGroups
<1>1. updates = <<>> BY DEF Init, ScheduleInit
<1>2. Odd(updates) = {} BY <1>1 DEF Odd
<1> QED BY <1>1, <1>2 DEF LaterGroups

LEMMA SpreadLater ==
  ASSUME ScheduleInv, LaterGroups, Spread PROVE LaterGroups'
<1> DEFINE s == First(freshChanges)
           deps == CombDependencies(def, s.cell)
<1>1. /\ freshChanges # {} /\ def' = def /\ updates' = updates
      /\ combChanges' = combChanges \o InOrder(deps)
      /\ freshChanges' = (freshChanges \ {s}) \cup deps
  BY DEF Spread
<1>2. /\ combChanges \in Seq(PortsOf(def)) /\ freshChanges \in SUBSET PortsOf(def)
      /\ WellFormed(def) /\ Active(def) \subseteq CellId
  BY CircuitFacts DEF ScheduleInv, ScheduleTypes
<1>3. s \in freshChanges /\ s.cell \in CellId
  <2>1. s \in freshChanges BY <1>1, <1>2, FirstIsIn, PortsOfAreSigPorts
  <2> QED BY <2>1, <1>2 DEF PortsOf
<1> HIDE DEF s
<1>4. deps \in SUBSET PortsOf(def) BY <1>2, <1>3, DependenciesArePorts
<1>5. updates # <<>> => \A t \in deps : t.cell \in FromStates
  BY <1>3, FromStatesIsClosed DEF LaterGroups
<1> HIDE DEF deps
<1>6. \A i \in DOMAIN combChanges' : \/ i \in DOMAIN combChanges /\ combChanges'[i] = combChanges[i]
                                   \/ combChanges'[i] \in deps
  BY <1>1, <1>2, <1>4, AppendedPorts
<1> QED BY <1>1, <1>5, <1>6 DEF LaterGroups, FromStates

LEMMA EmitLater ==
  ASSUME ScheduleInv, LaterGroups, Emit PROVE LaterGroups'
<1> DEFINE n == Len(updates)
<1>1. /\ n \in Nat /\ n % 2 = 0 /\ DOMAIN updates = 1 .. n /\ DOMAIN updates' = 1 .. n + 2
      /\ updates'[n + 1] \in Seq(CellsOf(combChanges))
      /\ \A i \in 1 .. n : updates'[i] = updates[i]
  BY EmittedGroups
<1>2. combChanges' = <<>> /\ freshChanges' = {} /\ def' = def BY DEF Emit
<1>3. FromStates' = FromStates BY <1>2 DEF FromStates
<1>4. ASSUME NEW g \in Odd(updates'), g > 1 PROVE Range(updates'[g]) \subseteq FromStates
  <2>0. g \in 1 .. n + 2 /\ g % 2 = 1 BY <1>1 DEF Odd
  <2>1. CASE g <= n
    <3>1. g \in Odd(updates) /\ updates'[g] = updates[g] BY <2>0, <2>1, <1>1 DEF Odd
    <3> QED BY <3>1, <1>4 DEF LaterGroups
  <2>2. CASE g = n + 1
    <3>1. updates # <<>>
      <4>1. n # 0 BY <2>2, <1>4
      <4> QED BY <4>1
    <3>2. CellsOf(combChanges) \subseteq FromStates BY <3>1 DEF LaterGroups, CellsOf
    <3>3. Range(updates'[n + 1]) \subseteq CellsOf(combChanges) BY <1>1 DEF Range
    <3> QED BY <3>2, <3>3, <2>2
  <2>3. g # n + 2
    <3>1. n \in Nat /\ n % 2 = 0 BY <1>1
    <3> HIDE DEF n
    <3>2. (n + 2) % 2 = 0 BY <3>1
    <3> QED BY <2>0, <3>2
  <2>4. g <= n \/ g = n + 1 \/ g = n + 2
    <3>1. n \in Nat /\ g \in Nat /\ g <= n + 2 BY <1>1, <2>0
    <3> HIDE DEF n
    <3> QED BY <3>1
  <2> QED BY <2>1, <2>2, <2>3, <2>4
<1>5. DOMAIN combChanges' = {} BY <1>2
<1> QED BY <1>2, <1>3, <1>4, <1>5 DEF LaterGroups

LEMMA ClockingLater ==
  ASSUME ScheduleInv, LaterGroups, Clocking PROVE LaterGroups'
<1> DEFINE s     == First(visit)
           again == [cell |-> s.cell, port |-> IF s.cell \in Memories(def) THEN "RADDR" ELSE "OUT"]
           deps  == CombDependencies(def, s.cell)
           one   == Append(combChanges, again)
<1>1. /\ visit # {} /\ def' = def /\ updates' = updates
      /\ combChanges' = one \o InOrder(deps)
      /\ freshChanges' = freshChanges \cup {again} \cup deps
  BY DEF Clocking
<1>2. /\ combChanges \in Seq(PortsOf(def)) /\ visit \in SUBSET PortsOf(def)
      /\ \A t \in visit : t.cell \in Registers(def) \cup Memories(def)
      /\ WellFormed(def) /\ Active(def) \subseteq CellId /\ def \in Net
  BY CircuitFacts DEF ScheduleInv, ScheduleTypes
<1>3. s \in visit /\ s.cell \in CellId /\ s.cell \in Registers(def) \cup Memories(def)
  <2>1. s \in visit BY <1>1, <1>2, FirstIsIn, PortsOfAreSigPorts
  <2> QED BY <2>1, <1>2 DEF PortsOf
<1> HIDE DEF s
<1>4. deps \in SUBSET PortsOf(def) BY <1>2, <1>3, DependenciesArePorts
<1>5. again.cell \in FromStates /\ \A t \in deps : t.cell \in FromStates
  BY <1>3, FromStatesIsClosed
<1>6. again \in PortsOf(def)
  <2>1. s.cell \in Cells(def) BY <1>3 DEF Registers, Memories
  <2>2. def.type[s.cell] \in Kind BY <1>2, <2>1, NetFields DEF Cells
  <2>3. again.port \in Port BY <1>3, <2>2, PortsAreNamed DEF Registers, Memories, Tp
  <2>4. s.cell \in Active(def) BY <1>3 DEF Active, Evaluated, Registers, Memories, Inputs
  <2> QED BY <2>3, <2>4 DEF PortsOf
<1> HIDE DEF deps, again
<1>7. /\ one \in Seq(PortsOf(def))
      /\ \A i \in DOMAIN one : \/ i \in DOMAIN combChanges /\ one[i] = combChanges[i]
                             \/ one[i] = again
  BY <1>2, <1>6
<1> HIDE DEF one
<1>8. \A i \in DOMAIN combChanges' : \/ i \in DOMAIN one /\ combChanges'[i] = one[i]
                                   \/ combChanges'[i] \in deps
  BY <1>1, <1>4, <1>7, AppendedPorts
<1>9. \A i \in DOMAIN combChanges' : \/ i \in DOMAIN combChanges /\ combChanges'[i] = combChanges[i]
                                   \/ combChanges'[i] \in deps \cup {again}
  BY <1>7, <1>8
<1> QED BY <1>1, <1>5, <1>9 DEF LaterGroups, FromStates

LEMMA LaterGroupsIsInductive ==
  ScheduleInv /\ LaterGroups /\ [Next]_vars => LaterGroups'
<1> SUFFICES ASSUME ScheduleInv, LaterGroups, [Next]_vars PROVE LaterGroups' OBVIOUS
<1>1. ASSUME UNCHANGED <<def, combChanges, freshChanges, updates>> PROVE LaterGroups'
  BY <1>1 DEF LaterGroups, FromStates
<1>2. CASE Compile
  BY <1>1, <1>2, SpreadLater, EmitLater, ClockingLater DEF Compile, Clocked
<1>3. CASE UNCHANGED <<def, combChanges, freshChanges, updates>> BY <1>1, <1>3
<1>4. Compile \/ UNCHANGED <<def, combChanges, freshChanges, updates>>
  BY DEF Next, vars, scheduling, SimulateRaw, SetFreshValue, SetFreshValueTwoState, Update, CombBlock,
         SeqBlock, Return
<1> QED BY <1>2, <1>3, <1>4

-----------------------------------------------------------------------------
(* The table through an update: before a combinational group only the cells  *)
(* of the clocked group before it may not hold, or, at first, any gate;      *)
(* after the first combinational group still the memories may not.           *)

Now == [v |-> value, x |-> xValue]

RegistersShown == \A c \in Registers(def) : value[c] = reg[c] /\ xValue[c] = xReg[c]

ConstantsShown ==
  \A c \in Cells(def) : Tp(def, c) = "CONST" =>
    LET init == def.type[c].init[1]
    IN  value[c] = TwoState(init) /\ xValue[c] = IF simRaw THEN 0 ELSE IsX(init)

OnlyInputsAreGiven == \A c \in CellId \ Inputs(def) : userInputs[c] = {}

AddressesStill == \A n \in Circuits : AddressesHoldStill(n)

Unsettled == IF at % 2 = 1 THEN Range(updates[at - 1]) ELSE IF at = 2 THEN Memories(def) ELSE {}

Settling ==
  /\ phase = "idle" => Settled(Now, {})
  /\ phase # "running" => RegistersShown
  /\ phase = "running" => /\ at \in 1 .. Len(updates) + 1
                          /\ at = 1 => RegistersShown
                          /\ at > 1 => Settled(Now, Unsettled)

RunInv == RawIsKnown /\ ConstantsShown /\ OnlyInputsAreGiven /\ Settling

\* The kinds of cells do not overlap.
LEMMA CellsApart ==
  ASSUME NEW n, NEW c \in Cells(n)
  PROVE  /\ c \in Registers(n) => c \notin Evaluated(n) /\ c \notin Inputs(n) /\ Tp(n, c) # "CONST"
         /\ c \in Inputs(n) => c \notin Evaluated(n) /\ Tp(n, c) # "CONST"
         /\ Tp(n, c) = "CONST" => c \notin Active(n)
         /\ c \notin Active(n) => c \in Inputs(n) \/ Tp(n, c) = "CONST"
BY DEF Registers, Evaluated, Inputs, Active

\* Cells hold as long as neither the table nor any state they show or read changes.
LEMMA HoldsStill ==
  ASSUME def \in Circuits, def' = def, value' = value, xValue' = xValue, NEW c \in Active(def), Holds(Now, c),
         c \in Registers(def) => reg'[c] = reg[c] /\ xReg'[c] = xReg[c],
         c \in Evaluated(def) => mem'[c] = mem[c] /\ xMem'[c] = xMem[c]
  PROVE  Holds(Now, c)'
<1>1. Now' = Now BY DEF Now
<1>2. CASE c \in Registers(def) BY <1>1, <1>2 DEF Holds
<1>3. CASE c \in Evaluated(def) /\ c \notin Registers(def)
  <2>1. Compute(Now.v, mem', c) = Compute(Now.v, mem, c) /\ XMask(Now.v, Now.x, xMem', c) = XMask(Now.v, Now.x, xMem, c)
    BY <1>3, CodeDependsOnReads
  <2>2. Compute(Now.v, mem, c)' = Compute(Now.v, mem', c) /\ XMask(Now.v, Now.x, xMem, c)' = XMask(Now.v, Now.x, xMem', c)
    BY <1>1 DEF Compute, XMask, Operand, Chosen, Loaded
  <2> QED BY <1>1, <1>3, <2>1, <2>2 DEF Holds
<1> QED BY <1>2, <1>3 DEF Active

LEMMA SettledStill ==
  ASSUME def \in Circuits, UNCHANGED <<def, value, xValue, reg, xReg, mem, xMem>>
  PROVE  /\ \A P : Settled(Now, P) => Settled(Now, P)'
         /\ RegistersShown => RegistersShown'
<1>1. ASSUME NEW P, Settled(Now, P) PROVE Settled(Now, P)'
  <2>1. \A c \in Active(def) \ P : Holds(Now, c)' BY <1>1, HoldsStill DEF Settled
  <2> QED BY <2>1 DEF Settled, Active
<1>2. RegistersShown => RegistersShown' BY DEF RegistersShown
<1> QED BY <1>1, <1>2

LEMMA InitRuns ==
  ASSUME CircuitsAcyclic, Init PROVE RunInv
<1> DEFINE r == [c \in CellId |-> IF c \in Registers(def) THEN InitialValue(def, c) ELSE X]
           m == [c \in CellId |-> [a \in Addr |-> X]]
           i == [c \in CellId |-> X]
           w == Wires(def, i, r, m)
<1>0. def \in Circuits BY DEF Init, ScheduleInit
<1>1. /\ simRaw = FALSE /\ phase = "spreading"
      /\ value = [c \in CellId |-> TwoState(w[c])] /\ xValue = [c \in CellId |-> IsX(w[c])]
      /\ reg = [c \in CellId |-> TwoState(r[c])] /\ xReg = [c \in CellId |-> IsX(r[c])]
      /\ userInputs = [c \in CellId |-> {}]
  BY DEF Init, ScheduleInit
<1>2. /\ WellFormed(def) /\ FullyDriven(def) /\ Acyclic(def) /\ Cells(def) \subseteq CellId
  BY <1>0, CircuitFacts DEF CircuitsAcyclic
<1>3. Agree(def, i, r, m, w, CellId) BY <1>2, WiresSolve
<1> HIDE DEF w, i, m
<1>4. \A c \in Registers(def) : w[c] = r[c] /\ c \in CellId
  <2> TAKE c \in Registers(def)
  <2>1. c \in Cells(def) /\ c \in CellId BY <1>2 DEF Registers
  <2>2. w[c] = WireValue(def, i, r, m, w, c) BY <1>3, <2>1 DEF Agree
  <2> QED BY <2>1, <2>2, CellsApart DEF WireValue
<1>5. \A c \in Cells(def) : Tp(def, c) = "CONST" => w[c] = def.type[c].init[1]
  <2> SUFFICES ASSUME NEW c \in Cells(def), Tp(def, c) = "CONST" PROVE w[c] = def.type[c].init[1]
    OBVIOUS
  <2>1. w[c] = WireValue(def, i, r, m, w, c) BY <1>2, <1>3 DEF Agree
  <2>2. c \notin Evaluated(def) /\ c \notin Inputs(def) /\ c \notin Registers(def) /\ c \notin Memories(def)
    BY CellsApart DEF Active, Memories
  <2> QED BY <2>1, <2>2 DEF WireValue, InitialValue
<1> HIDE DEF r
<1>6. RegistersShown BY <1>1, <1>4 DEF RegistersShown
<1>7. ConstantsShown BY <1>1, <1>2, <1>5 DEF ConstantsShown
<1>8. RawIsKnown /\ OnlyInputsAreGiven BY <1>1 DEF RawIsKnown, OnlyInputsAreGiven
<1> QED BY <1>1, <1>6, <1>7, <1>8 DEF RunInv, Settling

LEMMA SimulateRawRuns ==
  ASSUME CompiledInv, RunInv, SimulateRaw PROVE RunInv'
<1> DEFINE shown == Shown(xValue, value)
           kept == [c \in CellId |->
                      IF c \in Registers(def) \/ (c \in Cells(def) /\ Tp(def, c) = "CONST")
                      THEN TwoState(shown[c]) ELSE 0]
<1>0. def \in Circuits /\ TableTypes /\ Cells(def) \subseteq CellId
  BY CircuitFacts DEF CompiledInv, ScheduleInv, ScheduleTypes
<1>1. /\ value' = kept /\ reg' = [c \in CellId |-> IF c \in Registers(def) THEN kept[c] ELSE 0]
      /\ past' = [c \in CellId |-> 0] /\ mem' = [c \in CellId |-> [a \in Addr |-> 0]]
      /\ xValue' = past' /\ xReg' = past' /\ xMem' = mem'
      /\ ~simRaw /\ simRaw' = TRUE /\ phase' = "compiled" /\ def' = def /\ userInputs' = userInputs
  BY DEF SimulateRaw
<1>2. \A c \in Cells(def) : Tp(def, c) = "CONST" => kept[c] = TwoState(def.type[c].init[1])
  <2> SUFFICES ASSUME NEW c \in Cells(def), Tp(def, c) = "CONST"
               PROVE  kept[c] = TwoState(def.type[c].init[1])
    OBVIOUS
  <2> DEFINE init == def.type[c].init[1]
  <2>1. init \in {0, 1, 2}
    <3>1. def.type[c] \in Kind /\ def.type[c].tp = "CONST" BY <1>0, CircuitFacts, NetFields DEF Cells, Tp
    <3> QED BY <3>1, SemanticsAssumption DEF Val
  <2>2. value[c] = TwoState(init) /\ xValue[c] = IsX(init) BY <1>1 DEF RunInv, ConstantsShown
  <2>3. DOMAIN value = CellId BY <1>0 DEF TableTypes
  <2>4. shown[c] = IF xValue[c] % 2 = 1 THEN X ELSE value[c] % 2 BY <1>0, <2>3 DEF Shown
  <2> HIDE DEF shown, init
  <2>5. 0 % 2 = 0 /\ 1 % 2 = 1 OBVIOUS
  <2>6. TwoState(shown[c]) = TwoState(init)
    BY <2>1, <2>2, <2>4, <2>5 DEF TwoState, IsX, Bool, X
  <2>7. kept[c] = TwoState(shown[c]) BY <1>0
  <2> QED BY <2>6, <2>7 DEF init
<1> HIDE DEF kept
<1>3. ConstantsShown' BY <1>0, <1>1, <1>2 DEF ConstantsShown
<1>4. RegistersShown' BY <1>0, <1>1 DEF RegistersShown, Registers
<1>5. RawIsKnown' BY <1>1 DEF RawIsKnown
<1>6. OnlyInputsAreGiven' BY <1>1 DEF OnlyInputsAreGiven, RunInv
<1>7. Settling' BY <1>1, <1>4 DEF Settling
<1> QED BY <1>3, <1>5, <1>6, <1>7 DEF RunInv

LEMMA UpdateRuns ==
  ASSUME CompiledInv, RunInv, Update PROVE RunInv'
<1>0. def \in Circuits /\ TableTypes /\ Cells(def) \subseteq CellId /\ updates \in Seq(Seq(Active(def)))
  BY CircuitFacts DEF CompiledInv, ScheduleInv, ScheduleTypes
<1>1. /\ \A c \in CellId : userInputs[c] = {} => value'[c] = value[c] /\ xValue'[c] = xValue[c]
      /\ \A c \in CellId : userInputs[c] # {} => (simRaw => xValue'[c] = 0)
      /\ userInputs' = [c \in CellId |-> {}]
      /\ phase \in Waiting /\ phase' = "running" /\ at' = 1
      /\ UNCHANGED <<def, simRaw, reg, mem, xReg, xMem, updates>>
  BY <1>0 DEF Update, Bool
<1>2. \A c \in Cells(def) \ Inputs(def) : value'[c] = value[c] /\ xValue'[c] = xValue[c]
  BY <1>0, <1>1 DEF RunInv, OnlyInputsAreGiven
<1>3. RegistersShown
  BY <1>1 DEF RunInv, Settling, Waiting
<1>4. RegistersShown'
  <2>1. \A c \in Registers(def) : c \in Cells(def) \ Inputs(def) BY CellsApart DEF Registers
  <2> QED BY <1>1, <1>2, <1>3, <2>1 DEF RegistersShown, Registers
<1>5. ConstantsShown'
  <2>1. \A c \in Cells(def) : Tp(def, c) = "CONST" => c \in Cells(def) \ Inputs(def) BY CellsApart
  <2> QED BY <1>1, <1>2, <2>1 DEF RunInv, ConstantsShown, Cells, Tp
<1>6. RawIsKnown' BY <1>1 DEF RunInv, RawIsKnown
<1>7. OnlyInputsAreGiven' BY <1>1 DEF OnlyInputsAreGiven
<1>8. Settling'
  <2>1. Len(updates) \in Nat BY <1>0
  <2> QED BY <1>1, <1>4, <2>1 DEF Settling
<1> QED BY <1>5, <1>6, <1>7, <1>8 DEF RunInv

\* What the code of a combinational group makes of the table.  The first does not come to the
\* memories; those after it find every memory at the address it had before.
LEMMA CombBlockSettles ==
  ASSUME CircuitsAcyclic, AddressesStill, CompiledInv, LaterGroups, RunInv, CombBlock
  PROVE  LET done == Evaluate(updates[at])
         IN  /\ Settled(done, IF at = 1 THEN Memories(def) ELSE {})
             /\ simRaw => \A c \in CellId : done.x[c] = 0
             /\ \A c \in CellId \ Active(def) : done.v[c] = value[c] /\ done.x[c] = xValue[c]
<1> DEFINE group == updates[at]
           done == Evaluate(group)
<1>0. /\ def \in Circuits /\ TableTypes /\ Cells(def) \subseteq CellId /\ Acyclic(def)
      /\ updates \in Seq(Seq(Active(def))) /\ GroupsCover(def, updates)
  BY CircuitFacts DEF CompiledInv, ScheduleInv, ScheduleTypes, CircuitsAcyclic
<1>1. /\ phase = "running" /\ at \in DOMAIN updates /\ at % 2 = 1
      /\ value' = done.v /\ xValue' = done.x /\ at' = at + 1
      /\ UNCHANGED <<def, phase, updates, simRaw, reg, mem, xReg, xMem, userInputs>>
  BY DEF CombBlock, scheduling
<1>2. /\ Len(updates) \in Nat /\ at \in 1 .. Len(updates) /\ group \in Seq(Active(def)) /\ at \in Odd(updates)
      /\ updates # <<>>
  BY <1>0, <1>1 DEF Odd
<1>3. ReadersBehind(def, group) BY <1>0, <1>2 DEF GroupsCover
<1>4. PICK M : M = IF at = 1 THEN Memories(def) ELSE {} OBVIOUS
<1>5. Settled(Now, Range(group) \cup M)
  <2>1. CASE at = 1
    <3>1. RegistersShown BY <2>1, <1>1 DEF RunInv, Settling
    <3>2. Evaluated(def) \ Memories(def) \subseteq Range(group) BY <2>1, <1>0, <1>2 DEF GroupsCover
    <3>3. \A c \in Active(def) \ (Range(group) \cup M) : c \in Registers(def)
      BY <3>2, <2>1, <1>4 DEF Active
    <3> QED BY <3>1, <3>3 DEF Settled, Holds, RegistersShown, Now
  <2>2. CASE at # 1
    <3>1. at > 1 BY <2>2, <1>2
    <3>2. Settled(Now, Range(updates[at - 1])) BY <3>1, <1>1 DEF RunInv, Settling, Unsettled
    <3>3. Range(updates[at - 1]) \subseteq Range(group) BY <3>1, <1>0, <1>2 DEF GroupsCover
    <3> QED BY <3>2, <3>3 DEF Settled
  <2> QED BY <2>1, <2>2
<1>6. \A c \in Memories(def) \ M : Driver(def, c, "RADDR") \notin Range(group)
  <2> SUFFICES ASSUME NEW c \in Memories(def), c \notin M
               PROVE  Driver(def, c, "RADDR") \notin Range(group)
    OBVIOUS
  <2>1. at > 1 BY <1>2, <1>4
  <2>2. Range(group) \subseteq FromStates BY <2>1, <1>2 DEF LaterGroups
  <2>3. Driver(def, c, "RADDR") \notin FromStates
    BY <1>0 DEF AddressesStill, AddressesHoldStill, FromStates
  <2> QED BY <2>2, <2>3
<1>7. /\ Settled(done, M)
      /\ simRaw => \A c \in CellId : done.x[c] = 0
      /\ \A c \in CellId \ Active(def) : done.v[c] = value[c] /\ done.x[c] = xValue[c]
  BY <1>0, <1>2, <1>3, <1>5, <1>6, GroupSettles DEF RunInv, Now
<1> QED BY <1>4, <1>7

LEMMA CombBlockRuns ==
  ASSUME CircuitsAcyclic, AddressesStill, CompiledInv, LaterGroups, RunInv, CombBlock PROVE RunInv'
<1> DEFINE group == updates[at]
           done == Evaluate(group)
<1>0. /\ def \in Circuits /\ TableTypes /\ Cells(def) \subseteq CellId /\ updates \in Seq(Seq(Active(def)))
  BY CircuitFacts DEF CompiledInv, ScheduleInv, ScheduleTypes
<1>1. /\ phase = "running" /\ at \in DOMAIN updates /\ at % 2 = 1
      /\ value' = done.v /\ xValue' = done.x /\ at' = at + 1
      /\ UNCHANGED <<def, phase, updates, simRaw, reg, mem, xReg, xMem, userInputs>>
  BY DEF CombBlock, scheduling
<1>2. Len(updates) \in Nat /\ at \in 1 .. Len(updates) /\ group \in Seq(Active(def))
  BY <1>0, <1>1
<1>4. PICK M : M = IF at = 1 THEN Memories(def) ELSE {} OBVIOUS
<1>5. /\ Settled(done, M)
      /\ simRaw => \A c \in CellId : done.x[c] = 0
      /\ \A c \in CellId \ Active(def) : done.v[c] = value[c] /\ done.x[c] = xValue[c]
  BY <1>4, CombBlockSettles
<1>6. done \in Table BY <1>0, <1>2, EvaluateType
<1> HIDE DEF done
<1>7. Now' = done BY <1>1, <1>6 DEF Now, Table
<1>8. \A c \in Active(def) \ M : Holds(Now, c)'
  <2>1. \A c \in Active(def) \ M : Holds(done, c) BY <1>5 DEF Settled
  <2> QED BY <1>1, <1>7, <2>1 DEF Holds, Compute, XMask, Operand, Chosen, Loaded
<1>9. RawIsKnown' BY <1>1, <1>5 DEF RunInv, RawIsKnown
<1>10. ConstantsShown'
  <2>1. \A c \in Cells(def) : Tp(def, c) = "CONST" => c \in CellId \ Active(def) BY <1>0, CellsApart
  <2> QED BY <1>1, <1>5, <2>1 DEF RunInv, ConstantsShown, Cells, Tp
<1>11. OnlyInputsAreGiven' BY <1>1 DEF RunInv, OnlyInputsAreGiven
<1>12. Settling'
  <2>1. at' > 1 /\ at' % 2 # 1 /\ at' \in 1 .. Len(updates) + 1 /\ (at' = 2 <=> at = 1)
    <3>1. at \in Nat /\ at >= 1 /\ at <= Len(updates) /\ at % 2 = 1 /\ Len(updates) \in Nat BY <1>1, <1>2
    <3>2. (at + 1) % 2 = 0 BY ONLY <3>1
    <3> QED BY <3>1, <3>2, <1>1
  <2>2. Unsettled' = M
    <3>1. Memories(def)' = Memories(def) BY <1>1
    <3> QED BY <3>1, <2>1, <1>4 DEF Unsettled
  <2>3. Settled(Now, Unsettled)' BY <2>2, <1>1, <1>8 DEF Settled
  <2> QED BY <2>1, <2>3, <1>1 DEF Settling
<1> QED BY <1>9, <1>10, <1>11, <1>12 DEF RunInv

LEMMA SeqBlockRuns ==
  ASSUME CompiledInv, RunInv, SeqBlock PROVE RunInv'
<1> DEFINE group == updates[at]
           regs == Range(group) \cap Registers(def)
           mems == Range(group) \cap Memories(def)
<1>0. /\ def \in Circuits /\ TableTypes /\ Cells(def) \subseteq CellId /\ Active(def) \subseteq CellId
      /\ updates \in Seq(Seq(Active(def)))
  BY CircuitFacts DEF CompiledInv, ScheduleInv, ScheduleTypes
<1>1. /\ phase = "running" /\ at \in DOMAIN updates /\ at % 2 = 0 /\ at' = at + 1
      /\ reg'  = [c \in CellId |-> IF c \in regs THEN NextReg(c) ELSE reg[c]]
      /\ xReg' = [c \in CellId |-> IF c \in regs THEN NextXReg(c) ELSE xReg[c]]
      /\ mem'  = [c \in CellId |-> IF c \in mems THEN NextMem(c) ELSE mem[c]]
      /\ xMem' = [c \in CellId |-> IF c \in mems THEN NextXMem(c) ELSE xMem[c]]
      /\ UNCHANGED <<def, phase, updates, simRaw, value, xValue, userInputs>>
  BY DEF SeqBlock, scheduling
<1>2. Len(updates) \in Nat /\ at \in 1 .. Len(updates) BY <1>0, <1>1
<1>3. at > 1 /\ at % 2 # 1 BY <1>1, <1>2
<1>4. Settled(Now, Range(group))
  <2>1. Settled(Now, IF at = 2 THEN Memories(def) ELSE {}) BY <1>1, <1>3 DEF RunInv, Settling, Unsettled
  <2>2. at = 2 => Memories(def) \subseteq Range(group)
    <3>1. updates # <<>> BY <1>2
    <3> QED BY <3>1, MemoriesAreClocked DEF CompiledInv
  <2> QED BY <2>1, <2>2 DEF Settled
<1>5. /\ at' > 1 /\ at' % 2 = 1 /\ at' - 1 = at /\ at' \in 1 .. Len(updates) + 1
  <2>1. at \in Nat /\ at >= 1 /\ at <= Len(updates) /\ at % 2 = 0 /\ Len(updates) \in Nat BY <1>1, <1>2
  <2>2. (at + 1) % 2 = 1 BY ONLY <2>1
  <2> QED BY <2>1, <2>2, <1>1
<1>6. PICK P : P = Range(group) OBVIOUS
<1>7. Settled(Now, P)'
  <2> SUFFICES ASSUME NEW c \in Active(def)', c \notin P PROVE Holds(Now, c)'
    BY DEF Settled
  <2>1. c \in Active(def) BY <1>1
  <2>2. c \notin regs /\ c \notin mems BY <1>6
  <2>3. reg'[c] = reg[c] /\ xReg'[c] = xReg[c] /\ mem'[c] = mem[c] /\ xMem'[c] = xMem[c]
    BY <2>1, <2>2, <1>0, <1>1
  <2>4. Holds(Now, c) BY <2>1, <1>4, <1>6 DEF Settled
  <2> QED BY <2>1, <2>3, <2>4, <1>0, <1>1, HoldsStill
<1>11. Settling'
  <2>1. Unsettled' = P
    <3>1. updates'[at' - 1] = group BY <1>1, <1>5
    <3> QED BY <3>1, <1>5, <1>6 DEF Unsettled
  <2>2. Settled(Now, Unsettled)' BY <1>7, <2>1 DEF Settled
  <2> QED BY <2>2, <1>1, <1>5 DEF Settling
<1>8. RawIsKnown'
  <2> SUFFICES ASSUME simRaw PROVE RawIsKnown' BY <1>1 DEF RawIsKnown
  <2>1. \A c \in CellId : xReg'[c] = 0 /\ xValue'[c] = 0
    BY <1>1 DEF RunInv, RawIsKnown, NextXReg
  <2>2. ASSUME NEW c \in CellId, NEW a \in Addr PROVE xMem'[c][a] = 0
    <3>1. xMem[c] \in [Addr -> {0, 1}] /\ xMem[c][a] = 0 BY <1>0 DEF TableTypes, RunInv, RawIsKnown
    <3>2. xMem'[c] = xMem[c] \/ xMem'[c] = NextXMem(c) BY <1>1
    <3> DEFINE b == Operand(value, c, "WADDR")
    <3>3. NextXMem(c) = [xMem[c] EXCEPT ![b] = IF Writes(c) /\ ~simRaw THEN Operand(xValue, c, "WDATA") ELSE @]
      BY DEF NextXMem
    <3> HIDE DEF b
    <3>4. NextXMem(c)[a] = xMem[c][a] BY <3>1, <3>3
    <3> QED BY <3>1, <3>2, <3>4
  <2> QED BY <2>1, <2>2 DEF RawIsKnown
<1>9. ConstantsShown' BY <1>1 DEF RunInv, ConstantsShown
<1>10. OnlyInputsAreGiven' BY <1>1 DEF RunInv, OnlyInputsAreGiven
<1> QED BY <1>8, <1>9, <1>10, <1>11 DEF RunInv

LEMMA ReturnRuns ==
  ASSUME CompiledInv, RunInv, Return PROVE RunInv'
<1>0. /\ def \in Circuits /\ updates \in Seq(Seq(Active(def))) /\ GroupsCover(def, updates) /\ GroupAtWork
  BY DEF CompiledInv, ScheduleInv, ScheduleTypes
<1>1. /\ phase = "running" /\ at \notin DOMAIN updates /\ phase' = "idle"
      /\ UNCHANGED <<def, simRaw, value, xValue, reg, xReg, mem, xMem, userInputs>>
  BY DEF Return, masks
<1>2. at = Len(updates) + 1 /\ Len(updates) \in Nat BY <1>0, <1>1 DEF RunInv, Settling
<1>3. updates # <<>> /\ Range(updates[Len(updates)]) = {} BY <1>0, <1>1 DEF GroupAtWork
<1>4. Len(updates) % 2 = 0 /\ Len(updates) # 0 BY <1>0, <1>3 DEF GroupsCover
<1>5. at > 1 /\ at - 1 = Len(updates) BY <1>2, <1>4
<1>6. Settled(Now, {})
  <2>1. Settled(Now, Unsettled) BY <1>1, <1>5 DEF RunInv, Settling
  <2>2. at % 2 = 1
    <3>1. \A k \in Nat : k % 2 = 0 => (k + 1) % 2 = 1 OBVIOUS
    <3> QED BY <3>1, <1>2, <1>4
  <2> QED BY <2>1, <2>2, <1>3, <1>5 DEF Unsettled
<1>7. Settled(Now, {})' BY <1>0, <1>1, <1>6, SettledStill
<1>8. RegistersShown'
  <2>1. \A c \in Registers(def) : c \in Active(def) BY DEF Active
  <2>2. RegistersShown BY <1>6, <2>1 DEF Settled, Holds, RegistersShown, Now
  <2> QED BY <2>2, <1>0, <1>1, SettledStill
<1>9. Settling' BY <1>1, <1>7, <1>8 DEF Settling
<1>10. RawIsKnown' /\ ConstantsShown' /\ OnlyInputsAreGiven'
  BY <1>1 DEF RunInv, RawIsKnown, ConstantsShown, OnlyInputsAreGiven
<1> QED BY <1>9, <1>10 DEF RunInv

LEMMA RunInvIsInductive ==
  ASSUME CircuitsAcyclic, AddressesStill
  PROVE  CompiledInv /\ LaterGroups /\ RunInv /\ [Next]_vars => RunInv'
<1> SUFFICES ASSUME CompiledInv, LaterGroups, RunInv, [Next]_vars PROVE RunInv' OBVIOUS
<1>0. def \in Circuits /\ TableTypes /\ Cells(def) \subseteq CellId
  BY CircuitFacts DEF CompiledInv, ScheduleInv, ScheduleTypes
<1>1. CASE Compile /\ UNCHANGED <<simRaw, table, userInputs, at>>
  <2>1. /\ phase \in {"spreading", "clocking"} /\ phase' \in {"spreading", "clocking", "compiled"}
        /\ def' = def
    BY <1>1 DEF Compile, Spread, Emit, Clocking, Clocked
  <2>2. UNCHANGED <<simRaw, value, xValue, reg, xReg, mem, xMem, userInputs>> BY <1>1 DEF table, masks
  <2>3. RegistersShown' BY <1>0, <2>1, <2>2, SettledStill DEF RunInv, Settling
  <2> QED BY <2>1, <2>2, <2>3 DEF RunInv, RawIsKnown, ConstantsShown, OnlyInputsAreGiven, Settling
<1>2. CASE SimulateRaw BY <1>2, SimulateRawRuns
<1>3. ASSUME UNCHANGED <<scheduling, simRaw, table, at>>, OnlyInputsAreGiven' PROVE RunInv'
  <2>1. UNCHANGED <<def, phase, updates, at, simRaw, value, xValue, reg, xReg, mem, xMem>>
    BY <1>3 DEF scheduling, table, masks
  <2>2. Settling'
    <3>1. /\ \A P : Settled(Now, P) => Settled(Now, P)'
          /\ RegistersShown => RegistersShown'
      BY <1>0, <2>1, SettledStill
    <3>2. phase = "idle" => Settled(Now, {})' BY <3>1 DEF RunInv, Settling
    <3>3. phase # "running" => RegistersShown' BY <3>1 DEF RunInv, Settling
    <3>4. phase = "running" => /\ at \in 1 .. Len(updates) + 1
                               /\ at = 1 => RegistersShown'
      BY <3>1 DEF RunInv, Settling
    <3>5. phase = "running" /\ at > 1 => Settled(Now, Unsettled)'
      <4>1. Unsettled' = Unsettled BY <2>1 DEF Unsettled
      <4>2. phase = "running" /\ at > 1 => Settled(Now, Unsettled) BY DEF RunInv, Settling
      <4>3. Settled(Now, Unsettled) => Settled(Now, Unsettled)'
        <5> SUFFICES ASSUME Settled(Now, Unsettled), NEW c \in Active(def)', c \notin Unsettled'
                     PROVE  Holds(Now, c)'
          BY DEF Settled
        <5>1. c \in Active(def) /\ Holds(Now, c) BY <2>1, <4>1 DEF Settled
        <5> QED BY <5>1, <1>0, <2>1, HoldsStill
      <4> QED BY <4>2, <4>3
    <3> QED BY <2>1, <3>2, <3>3, <3>4, <3>5 DEF Settling
  <2>3. RawIsKnown' /\ ConstantsShown' BY <2>1 DEF RunInv, RawIsKnown, ConstantsShown
  <2> QED BY <1>3, <2>2, <2>3 DEF RunInv
<1>4. ASSUME NEW c \in CellId, NEW v \in Fresh, SetFreshValue(c, v) PROVE RunInv'
  <2>1. OnlyInputsAreGiven'
    <3>1. c \in Inputs(def) /\ def' = def /\ \A d \in CellId \ {c} : userInputs'[d] = userInputs[d]
      BY <1>0, <1>4 DEF SetFreshValue, scheduling, TableTypes
    <3> QED BY <3>1 DEF RunInv, OnlyInputsAreGiven
  <2> QED BY <1>3, <1>4, <2>1 DEF SetFreshValue
<1>5. ASSUME NEW c \in CellId, NEW v \in Fresh \ {X}, SetFreshValueTwoState(c, v) PROVE RunInv'
  <2>1. /\ c \in Inputs(def) /\ phase \in Waiting /\ phase' = "written" /\ c \in Cells(def)
        /\ \A d \in CellId \ {c} : value'[d] = value[d]
        /\ UNCHANGED <<def, simRaw, xValue, reg, xReg, mem, xMem, userInputs>>
    BY <1>5 DEF SetFreshValueTwoState, masks, Inputs
  <2>2. RegistersShown'
    <3>1. \A d \in Registers(def) : d \in CellId \ {c} BY <1>0, <2>1, CellsApart DEF Registers
    <3>2. RegistersShown BY <2>1 DEF RunInv, Settling, Waiting
    <3> QED BY <2>1, <3>1, <3>2 DEF RegistersShown
  <2>3. ConstantsShown'
    <3>1. \A d \in Cells(def) : Tp(def, d) = "CONST" => d \in CellId \ {c} BY <1>0, <2>1, CellsApart
    <3> QED BY <2>1, <3>1 DEF RunInv, ConstantsShown, Cells, Tp
  <2> QED BY <2>1, <2>2, <2>3 DEF RunInv, RawIsKnown, OnlyInputsAreGiven, Settling
<1>6. CASE Update BY <1>6, UpdateRuns
<1>7. CASE CombBlock BY <1>7, CombBlockRuns
<1>8. CASE SeqBlock BY <1>8, SeqBlockRuns
<1>9. CASE Return BY <1>9, ReturnRuns
<1>10. CASE UNCHANGED vars
  BY <1>3, <1>10 DEF vars, RunInv, OnlyInputsAreGiven, scheduling
<1> QED BY <1>1, <1>2, <1>4, <1>5, <1>6, <1>7, <1>8, <1>9, <1>10 DEF Next

-----------------------------------------------------------------------------
(* Where nothing is summed and constants and resets are known, the table     *)
(* shows after an update what the interpreter would.                         *)

NothingIsSummed == \A n \in Circuits : \A c \in Cells(n) : Tp(n, c) \notin Summing

ConstantsAreKnown == \A k \in Kind : k.tp \in {"CONST", "REG_ARST"} => k.init[1] # X

\* What the code of a cell goes by.
Needs(v, c) == IF Tp(def, c) = "MUX" THEN {"SEL", Chosen(v, c)} ELSE Reads(Tp(def, c))

LEMMA GatesOfBits ==
  ASSUME NEW x \in {0, 1}, NEW y \in {0, 1}
  PROVE  /\ FromBits(Bits(x) \cap Bits(y)) = QAnd(x, y)
         /\ FromBits(Bits(x) \cup Bits(y)) = QOr(x, y)
         /\ FromBits((Bits(x) \cup Bits(y)) \ (Bits(x) \cap Bits(y))) = QXor(x, y)
<1>1. \A z \in {0, 1} : Bits(z) \in SUBSET {0} /\ (0 \in Bits(z) <=> z = 1) BY BitsOfBits
<1>2. \A S \in SUBSET {0} : FromBits(S) = (IF 0 \in S THEN 1 ELSE 0) BY BitsOfBits
<1> HIDE DEF Bits, FromBits
<1> DEFINE both   == Bits(x) \cap Bits(y)
           either == Bits(x) \cup Bits(y)
           one    == either \ both
<1>3. both \in SUBSET {0} /\ either \in SUBSET {0} /\ one \in SUBSET {0} BY <1>1
<1>4. /\ 0 \in both <=> x = 1 /\ y = 1
      /\ 0 \in either <=> x = 1 \/ y = 1
      /\ 0 \in one <=> (x = 1 \/ y = 1) /\ ~(x = 1 /\ y = 1)
  BY <1>1
<1> HIDE DEF both, either, one
<1>5. FromBits(both) = QAnd(x, y) BY <1>2, <1>3, <1>4 DEF QAnd, X
<1>6. FromBits(either) = QOr(x, y) BY <1>2, <1>3, <1>4 DEF QOr, X
<1>7. FromBits(one) = QXor(x, y)
  <2>1. (0 + 0) % 2 = 0 /\ (0 + 1) % 2 = 1 /\ (1 + 0) % 2 = 1 /\ (1 + 1) % 2 = 0 OBVIOUS
  <2> QED BY <2>1, <1>2, <1>3, <1>4 DEF QXor, X
<1> QED BY <1>5, <1>6, <1>7 DEF both, either, one

\* On bits the code computes the function of the cell; of a multiplexer it needs what it
\* chooses only.
LEMMA CodeIsEval ==
  ASSUME def \in Circuits, NothingIsSummed, NEW c \in Evaluated(def), NEW v \in [CellId -> {0, 1}], NEW m,
         NEW w, NEW l,
         \A p \in Needs(v, c) : In(def, w, c, p) = Operand(v, c, p),
         Tp(def, c) = "MEM" => l[c][Operand(v, c, "RADDR")] = m[c][Operand(v, c, "RADDR")]
  PROVE  Compute(v, m, c) = Eval(def, w, l, c)
<1> DEFINE tp == Tp(def, c)
           a  == Operand(v, c, "IN")
           x  == Operand(v, c, "IN0")
           y  == Operand(v, c, "IN1")
<1>1. /\ tp \in CombTypes /\ tp # "ANDR" /\ tp \notin Summing /\ c \in Cells(def)
  BY CircuitFacts, EvaluatedTypes, CompiledAssumption DEF Tp, NothingIsSummed
<1>2. \A p \in Reads(tp) : Operand(v, c, p) \in {0, 1}
  BY OperandTypes DEF Operand
<1>3. 0 % 2 = 0 /\ 1 % 2 = 1 OBVIOUS
<1>4. CASE tp \in (Unary \ {"ANDR"}) \cup {"PORT"}
  <2>1. a \in {0, 1} /\ In(def, w, c, "IN") = a
    BY <1>2, <1>4 DEF Needs, Reads, Unary, Binary, Comparator
  <2>2. CASE tp \in {"PORT", "PASSTHROUGH", "ZEXT"} BY <2>1, <2>2 DEF Compute, Eval
  <2>3. CASE tp = "SLICE"
    <3>1. Compute(v, m, c) = a % 2 /\ Eval(def, w, l, c) = a BY <2>1, <2>3 DEF Compute, Eval
    <3> HIDE DEF a
    <3> QED BY <3>1, <2>1, <1>3
  <2>4. CASE tp = "NOT"
    <3>1. Compute(v, m, c) = Complement(a) /\ Eval(def, w, l, c) = QNot(a) BY <2>1, <2>4 DEF Compute, Eval
    <3> HIDE DEF a
    <3>2. Complement(a) = QNot(a) BY <2>1, <1>3 DEF Complement, QNot, X
    <3> QED BY <3>1, <3>2
  <2>5. CASE tp = "ORR"
    <3>1. Compute(v, m, c) = Bool(a # 0) /\ Eval(def, w, l, c) = Bool(a = 1) BY <2>1, <2>5 DEF Compute, Eval
    <3> HIDE DEF a
    <3> QED BY <3>1, <2>1 DEF Bool
  <2> QED BY <1>4, <2>2, <2>3, <2>4, <2>5 DEF Unary
<1>5. CASE tp \in Binary
  <2>1. /\ x \in {0, 1} /\ y \in {0, 1}
        /\ In(def, w, c, "IN0") = x /\ In(def, w, c, "IN1") = y
    BY <1>2, <1>5 DEF Needs, Reads, Unary, Binary, Comparator
  <2>2. CASE tp = "AND"
    BY <2>1, <2>2, GatesOfBits DEF Compute, Eval
  <2>3. CASE tp = "OR"
    BY <2>1, <2>3, GatesOfBits DEF Compute, Eval
  <2>4. CASE tp = "XOR"
    BY <2>1, <2>4, GatesOfBits DEF Compute, Eval
  <2>5. CASE tp \in {"EQ", "NEQ"}
    <3>1. QEquals(x, y) <=> x = y BY <2>1 DEF QEquals, X
    <3> QED BY <3>1, <2>1, <2>5 DEF Compute, Eval, Bool
  <2>6. CASE tp \in {"ULT", "UGT", "ULE", "UGE"}
    <3> HIDE DEF x, y
    <3>1. /\ QLess(x, y) <=> x < y
          /\ QLess(y, x) <=> x > y
          /\ QLess(x, y) \/ QEquals(x, y) <=> x <= y
          /\ QLess(y, x) \/ QEquals(x, y) <=> x >= y
      BY <2>1 DEF QLess, QEquals, IsBinary, X
    <3>2. /\ tp = "ULT" => Compute(v, m, c) = Bool(x < y) /\ Eval(def, w, l, c) = Bool(QLess(x, y))
          /\ tp = "UGT" => Compute(v, m, c) = Bool(x > y) /\ Eval(def, w, l, c) = Bool(QLess(y, x))
          /\ tp = "ULE" => Compute(v, m, c) = Bool(x <= y) /\ Eval(def, w, l, c) = Bool(QLess(x, y) \/ QEquals(x, y))
          /\ tp = "UGE" => Compute(v, m, c) = Bool(x >= y) /\ Eval(def, w, l, c) = Bool(QLess(y, x) \/ QEquals(x, y))
      BY <2>1, <2>6 DEF Compute, Eval, x, y
    <3> QED BY <3>1, <3>2, <2>6 DEF Bool
  <2> QED BY <1>1, <1>5, <2>2, <2>3, <2>4, <2>5, <2>6 DEF Binary, Comparator, Summing
<1>6. CASE tp = "MUX"
  <2>1. /\ In(def, w, c, "SEL") = Operand(v, c, "SEL")
        /\ In(def, w, c, Chosen(v, c)) = Operand(v, c, Chosen(v, c))
        /\ Operand(v, c, "SEL") \in {0, 1}
    BY <1>2, <1>6 DEF Needs, Reads, Binary, Comparator
  <2>2. Eval(def, w, l, c) = IF In(def, w, c, "SEL") = 1 THEN In(def, w, c, "IN1") ELSE In(def, w, c, "IN0")
    BY <1>6 DEF Eval
  <2>3. Compute(v, m, c) = Operand(v, c, Chosen(v, c)) BY <1>6 DEF Compute
  <2> QED BY <2>1, <2>2, <2>3 DEF Chosen
<1>7. CASE tp = "MEM"
  <2>1. /\ In(def, w, c, "RADDR") = Operand(v, c, "RADDR")
        /\ Operand(v, c, "RADDR") \in {0, 1}
    BY <1>2, <1>7 DEF Needs, Reads, Binary, Comparator
  <2> QED BY <2>1, <1>7 DEF Compute, Eval, Loaded, IsBinary
<1> QED BY <1>1, <1>4, <1>5, <1>6, <1>7 DEF CombTypes

\* The masks: of an output that is known, all that the code goes by but selects and
\* addresses is known.
LEMMA KnownOperands ==
  ASSUME def \in Circuits, NEW c \in Evaluated(def), NEW v, NEW x \in [CellId -> {0, 1}], NEW m,
         XMask(v, x, m, c) = 0
  PROVE  /\ \A p \in Needs(v, c) \ {"SEL", "RADDR"} : Operand(x, c, p) = 0
         /\ Tp(def, c) = "MEM" => m[c][Operand(v, c, "RADDR")] = 0
<1> DEFINE tp == Tp(def, c)
<1>1. tp \in CombTypes BY CircuitFacts, EvaluatedTypes
<1>2. \A p \in Reads(tp) : Operand(x, c, p) \in {0, 1}
  BY OperandTypes DEF Operand
<1>3. CASE tp \in Unary \cup {"PORT"}
  <2>1. Operand(x, c, "IN") = 0 /\ Needs(v, c) = {"IN"}
    BY <1>3 DEF XMask, Needs, Reads, Unary, Binary, Comparator
  <2> QED BY <2>1, <1>3 DEF Unary
<1>4. CASE tp \in Binary
  <2> DEFINE a == Operand(x, c, "IN0")
             b == Operand(x, c, "IN1")
  <2>1. /\ a \in {0, 1} /\ b \in {0, 1} /\ Needs(v, c) = {"IN0", "IN1"}
        /\ XMask(v, x, m, c) = FromBits(Bits(a) \cup Bits(b))
    BY <1>2, <1>4 DEF XMask, Needs, Reads, Unary, Binary, Comparator
  <2>2. QOr(a, b) = 0
    <3> HIDE DEF a, b
    <3> QED BY <2>1, GatesOfBits
  <2>3. a = 0 /\ b = 0
    <3> HIDE DEF a, b
    <3> QED BY <2>1, <2>2 DEF QOr, X
  <2> QED BY <2>1, <2>3, <1>4 DEF Binary, Comparator
<1>5. CASE tp = "MUX"
  <2>1. Operand(x, c, Chosen(v, c)) = 0 /\ Needs(v, c) = {"SEL", Chosen(v, c)}
    BY <1>5 DEF XMask, Needs, Unary, Binary, Comparator
  <2> QED BY <2>1, <1>5
<1>6. CASE tp = "MEM"
  <2>1. Loaded(v, m, c) = 0 /\ Needs(v, c) = {"RADDR"}
    BY <1>6 DEF XMask, Needs, Reads, Unary, Binary, Comparator
  <2> QED BY <2>1 DEF Loaded
<1> QED BY <1>1, <1>3, <1>4, <1>5, <1>6 DEF CombTypes

\* What a cell needs it reads.
LEMMA NeedsAreReads ==
  ASSUME def \in Circuits, NEW v, NEW c \in Evaluated(def)
  PROVE  /\ Needs(v, c) \subseteq Reads(Tp(def, c))
         /\ \A p \in Needs(v, c) : PinOf(c, p) \in InBits(def) /\ Driver(def, c, p) \in Cells(def)
<1>1. Needs(v, c) \subseteq Reads(Tp(def, c)) BY DEF Needs, Chosen, Reads, Binary, Comparator
<1>2. WellFormed(def) /\ FullyDriven(def) BY CircuitFacts
<1> QED BY <1>1, <1>2, ReadsCells

\* What a cell reads no cell of M reaches, if M is no memories or all, unless one reaches the cell.
LEMMA ReadsUnreached ==
  ASSUME def \in Circuits, NEW M, M = {} \/ M = Memories(def),
         NEW c \in Evaluated(def) \ Reached(def, M), NEW p \in Reads(Tp(def, c))
  PROVE  Driver(def, c, p) \in Cells(def) \ Reached(def, M)
<1>1. WellFormed(def) /\ FullyDriven(def) /\ Driver(def, c, p) \in Cells(def)
  BY CircuitFacts, ReadsCells
<1>2. M \in SUBSET Cells(def) BY DEF Memories
<1>3. /\ M \subseteq Reached(def, M)
      /\ \A d \in Reached(def, M) : \A s \in CombDependencies(def, d) : s.cell \in Reached(def, M)
  BY <1>1, <1>2, ReachedIsClosed
<1>4. CASE c \in Memories(def)
  <2>1. M = {} BY <1>3, <1>4
  <2> QED BY <2>1, <1>1, NothingReached
<1>5. CASE c \notin Memories(def)
  <2>1. PICK s \in CombDependencies(def, Driver(def, c, p)) : s.cell = c BY <1>5, ReadersDepend
  <2> QED BY <2>1, <1>1, <1>3
<1> QED BY <1>4, <1>5

\* The values a client reads of the table, when all holds; or when all but the memories holds,
\* of the cells no memory reaches.
LEMMA BitsAreWires ==
  ASSUME CircuitsAcyclic, NothingIsSummed, ConstantsAreKnown, CompiledInv, RunInv,
         NEW M, M = {} \/ M = Memories(def), Settled(Now, M), NEW in, NEW r, NEW m,
         \A c \in Inputs(def) : in[c] = value[c],
         \A c \in Registers(def) : r[c] = reg[c],
         \A c \in Memories(def) : \A a \in Addr : m[c][a] = mem[c][a]
  PROVE  \A c \in Cells(def) \ Reached(def, M) : Wires(def, in, r, m)[c] = value[c]
<1> DEFINE w == Wires(def, in, r, m)
           S == {c \in Evaluated(def) \ Reached(def, M) : w[c] # value[c]}
<1>0. /\ def \in Circuits /\ TableTypes /\ Cells(def) \subseteq CellId
      /\ WellFormed(def) /\ FullyDriven(def) /\ Acyclic(def) /\ def \in Net
  BY CircuitFacts DEF CompiledInv, ScheduleInv, ScheduleTypes, CircuitsAcyclic
<1>1. Byt(def) = {0, 1} BY <1>0 DEF Byt, NothingIsSummed
<1>2. value \in [CellId -> {0, 1}] BY <1>0, <1>1 DEF TableTypes
<1>3. \A c \in CellId : w[c] = WireValue(def, in, r, m, w, c)
  BY <1>0, WiresSolve DEF Agree
<1>4. M \subseteq Reached(def, M)
  <2>1. M \in SUBSET Cells(def) BY DEF Memories
  <2> QED BY <2>1, <1>0, ReachedIsClosed
<1> HIDE DEF w
<1>5. ASSUME NEW c \in Cells(def) \ Evaluated(def) PROVE w[c] = value[c]
  <2>0. c \in CellId /\ w[c] = WireValue(def, in, r, m, w, c) BY <1>0, <1>3
  <2>1. CASE c \in Inputs(def)
    BY <2>0, <2>1, <1>5 DEF WireValue
  <2>2. CASE c \in Registers(def)
    <3>1. Holds(Now, c)
      <4>1. c \notin M BY <2>2 DEF Registers, Memories
      <4> QED BY <4>1, <2>2 DEF Settled, Active
    <3>2. value[c] = reg[c] BY <2>2, <3>1 DEF Holds, Now
    <3> QED BY <2>0, <2>2, <3>2, <1>5, CellsApart DEF WireValue
  <2>3. CASE Tp(def, c) = "CONST"
    <3> DEFINE init == def.type[c].init[1]
    <3>1. value[c] = TwoState(init) BY <2>3 DEF RunInv, ConstantsShown
    <3>2. init # X
      <4>1. def.type[c] \in Kind /\ def.type[c].tp = "CONST" BY <2>3, <1>0, NetFields DEF Cells, Tp
      <4> QED BY <4>1 DEF ConstantsAreKnown
    <3>3. InitialValue(def, c) = init BY <2>3 DEF InitialValue, Memories
    <3>4. c \notin Evaluated(def) /\ c \notin Inputs(def) /\ c \notin Registers(def)
      BY <2>3, CellsApart DEF Active
    <3> QED BY <2>0, <3>1, <3>2, <3>3, <3>4 DEF WireValue, TwoState
  <2> QED BY <1>5, <2>1, <2>2, <2>3, CellsApart DEF Active
<1>6. S = {}
  <2> SUFFICES ASSUME S # {} PROVE FALSE OBVIOUS
  <2>1. S \in SUBSET Evaluated(def) OBVIOUS
  <2>2. PICK c \in S : \A p \in Reads(Tp(def, c)) : Driver(def, c, p) \notin S
    BY <2>1, <1>0 DEF Acyclic
  <2>3. /\ c \in Evaluated(def) \ Reached(def, M) /\ w[c] # value[c] /\ c \in Cells(def) /\ c \in CellId
        /\ c \notin Registers(def)
    BY <2>2, <1>0, CellsApart DEF Evaluated
  <2>4. Holds(Now, c) BY <2>3, <1>4 DEF Settled, Active
  <2>5. value[c] = Compute(value, mem, c) BY <2>3, <2>4 DEF Holds, Now
  <2>6. ASSUME NEW p \in Needs(value, c) PROVE In(def, w, c, p) = Operand(value, c, p)
    <3>1. p \in Reads(Tp(def, c)) BY <1>0, <2>3, NeedsAreReads
    <3>2. Driver(def, c, p) \in Cells(def) \ Reached(def, M) BY <3>1, <2>3, <1>0, ReadsUnreached
    <3>3. Driver(def, c, p) \notin S BY <2>2, <3>1
    <3>4. w[Driver(def, c, p)] = value[Driver(def, c, p)] BY <3>2, <3>3, <1>5
    <3> QED BY <3>4 DEF Operand, In
  <2>7. Tp(def, c) = "MEM" => m[c][Operand(value, c, "RADDR")] = mem[c][Operand(value, c, "RADDR")]
    <3> SUFFICES ASSUME Tp(def, c) = "MEM"
                 PROVE  m[c][Operand(value, c, "RADDR")] = mem[c][Operand(value, c, "RADDR")]
      OBVIOUS
    <3>1. Operand(value, c, "RADDR") \in Addr BY <2>3, <1>0, AddressTypes DEF Operand, TableTypes
    <3>2. c \in Memories(def) BY <2>3 DEF Memories
    <3> QED BY <3>1, <3>2
  <2>8. Compute(value, mem, c) = Eval(def, w, m, c) BY <2>3, <1>0, <1>2, <2>6, <2>7, CodeIsEval
  <2>9. w[c] = Eval(def, w, m, c) BY <1>3, <2>3 DEF WireValue
  <2> QED BY <2>3, <2>5, <2>8, <2>9
<1>7. \A c \in Cells(def) \ Reached(def, M) : w[c] = value[c] BY <1>5, <1>6
<1> QED BY <1>7 DEF w

\* What the table shows as known, where selects and addresses are those of the solution.
LEMMA KnownIsRight ==
  ASSUME CircuitsAcyclic, NothingIsSummed, ConstantsAreKnown, CompiledInv, RunInv, Settled(Now, {}), NEW in, NEW r, NEW m,
         \A c \in Inputs(def) : xValue[c] = 0 => in[c] = value[c],
         \A c \in Registers(def) : xReg[c] = 0 => r[c] = reg[c],
         \A c \in Memories(def) : \A a \in Addr : xMem[c][a] = 0 => m[c][a] = mem[c][a],
         \A b \in InBits(def) : b.port \in {"SEL", "RADDR"} =>
           value[Driver(def, b.cell, b.port)] = In(def, Wires(def, in, r, m), b.cell, b.port)
  PROVE  \A c \in Cells(def) : xValue[c] = 0 => Wires(def, in, r, m)[c] = value[c]
<1> DEFINE w == Wires(def, in, r, m)
           S == {c \in Evaluated(def) : xValue[c] = 0 /\ w[c] # value[c]}
<1>0. /\ def \in Circuits /\ TableTypes /\ Cells(def) \subseteq CellId
      /\ WellFormed(def) /\ FullyDriven(def) /\ Acyclic(def) /\ def \in Net
  BY CircuitFacts DEF CompiledInv, ScheduleInv, ScheduleTypes, CircuitsAcyclic
<1>1. Byt(def) = {0, 1} BY <1>0 DEF Byt, NothingIsSummed
<1>2. value \in [CellId -> {0, 1}] /\ xValue \in [CellId -> {0, 1}] BY <1>0, <1>1 DEF TableTypes
<1>3. \A c \in CellId : w[c] = WireValue(def, in, r, m, w, c)
  BY <1>0, WiresSolve DEF Agree
<1>4. \A b \in InBits(def) : b.port \in {"SEL", "RADDR"} =>
        value[Driver(def, b.cell, b.port)] = In(def, w, b.cell, b.port)
  OBVIOUS
<1> HIDE DEF w
<1>5. ASSUME NEW c \in Cells(def) \ Evaluated(def), xValue[c] = 0 PROVE w[c] = value[c]
  <2>0. c \in CellId /\ w[c] = WireValue(def, in, r, m, w, c) BY <1>0, <1>3
  <2>1. CASE c \in Inputs(def)
    BY <2>0, <2>1, <1>5 DEF WireValue
  <2>2. CASE c \in Registers(def)
    <3>1. Holds(Now, c) BY <2>2 DEF Settled, Active
    <3>2. value[c] = reg[c] /\ xReg[c] = 0 BY <2>2, <3>1, <1>5 DEF Holds, Now
    <3> QED BY <2>0, <2>2, <3>2, <1>5, CellsApart DEF WireValue
  <2>3. CASE Tp(def, c) = "CONST"
    <3> DEFINE init == def.type[c].init[1]
    <3>1. value[c] = TwoState(init) BY <2>3 DEF RunInv, ConstantsShown
    <3>2. init # X
      <4>1. def.type[c] \in Kind /\ def.type[c].tp = "CONST" BY <2>3, <1>0, NetFields DEF Cells, Tp
      <4> QED BY <4>1 DEF ConstantsAreKnown
    <3>3. InitialValue(def, c) = init BY <2>3 DEF InitialValue, Memories
    <3>4. c \notin Evaluated(def) /\ c \notin Inputs(def) /\ c \notin Registers(def)
      BY <2>3, CellsApart DEF Active
    <3> QED BY <2>0, <3>1, <3>2, <3>3, <3>4 DEF WireValue, TwoState
  <2> QED BY <1>5, <2>1, <2>2, <2>3, CellsApart DEF Active
<1>6. S = {}
  <2> SUFFICES ASSUME S # {} PROVE FALSE OBVIOUS
  <2>1. S \in SUBSET Evaluated(def) OBVIOUS
  <2>2. PICK c \in S : \A p \in Reads(Tp(def, c)) : Driver(def, c, p) \notin S
    BY <2>1, <1>0 DEF Acyclic
  <2>3. /\ c \in Evaluated(def) /\ xValue[c] = 0 /\ w[c] # value[c] /\ c \in Cells(def) /\ c \in CellId
        /\ c \notin Registers(def)
    BY <2>2, <1>0, CellsApart DEF Evaluated
  <2>4. Holds(Now, c) BY <2>3 DEF Settled, Active
  <2>5. value[c] = Compute(value, mem, c) /\ XMask(value, xValue, xMem, c) = 0
    BY <2>3, <2>4 DEF Holds, Now
  <2>6. /\ \A p \in Needs(value, c) \ {"SEL", "RADDR"} : Operand(xValue, c, p) = 0
        /\ Tp(def, c) = "MEM" => xMem[c][Operand(value, c, "RADDR")] = 0
    <3>1. def \in Circuits /\ xValue \in [CellId -> {0, 1}] BY <1>0, <1>2
    <3>2. c \in Evaluated(def) BY <2>3
    <3> HIDE DEF S
    <3> QED BY ONLY <3>1, <3>2, <2>5, KnownOperands
  <2>7. ASSUME NEW p \in Needs(value, c) PROVE In(def, w, c, p) = Operand(value, c, p)
    <3>1. /\ p \in Reads(Tp(def, c)) /\ PinOf(c, p) \in InBits(def) /\ Driver(def, c, p) \in Cells(def)
      BY <1>0, <2>3, NeedsAreReads
    <3>2. CASE p \in {"SEL", "RADDR"}
      <4>1. PinOf(c, p).cell = c /\ PinOf(c, p).port = p BY DEF PinOf
      <4> QED BY <3>1, <3>2, <4>1, <1>4 DEF Operand, In
    <3>3. CASE p \notin {"SEL", "RADDR"}
      <4>1. xValue[Driver(def, c, p)] = 0 BY <3>3, <2>6 DEF Operand, In
      <4>2. Driver(def, c, p) \notin S BY <2>2, <3>1
      <4>3. w[Driver(def, c, p)] = value[Driver(def, c, p)] BY <3>1, <4>1, <4>2, <1>5
      <4> QED BY <4>3 DEF Operand, In
    <3> QED BY <3>2, <3>3
  <2>8. Tp(def, c) = "MEM" => m[c][Operand(value, c, "RADDR")] = mem[c][Operand(value, c, "RADDR")]
    <3> SUFFICES ASSUME Tp(def, c) = "MEM"
                 PROVE  m[c][Operand(value, c, "RADDR")] = mem[c][Operand(value, c, "RADDR")]
      OBVIOUS
    <3>1. Operand(value, c, "RADDR") \in Addr BY <2>3, <1>0, AddressTypes DEF Operand, TableTypes
    <3>2. c \in Memories(def) BY <2>3 DEF Memories
    <3> QED BY <3>1, <3>2, <2>6
  <2>9. Compute(value, mem, c) = Eval(def, w, m, c) BY <2>3, <1>0, <1>2, <2>7, <2>8, CodeIsEval
  <2>10. w[c] = Eval(def, w, m, c) BY <1>3, <2>3 DEF WireValue
  <2> QED BY <2>3, <2>5, <2>9, <2>10
<1>7. \A c \in Cells(def) : xValue[c] = 0 => w[c] = value[c] BY <1>5, <1>6
<1> QED BY <1>7 DEF w

LEMMA LowBits ==
  ASSUME NEW v, NEW c \in DOMAIN v, v[c] \in {0, 1}, NEW x, x[c] \in {0, 1}
  PROVE  /\ LowBit(v)[c] = v[c] /\ v[c] % 2 = v[c]
         /\ x[c] = 0 => Shown(x, v)[c] = v[c]
<1>1. v[c] % 2 = v[c] /\ x[c] % 2 = x[c]
  <2>1. 0 % 2 = 0 /\ 1 % 2 = 1 OBVIOUS
  <2> QED BY <2>1
<1> QED BY <1>1 DEF LowBit, Shown

LEMMA SettledIsSynchronous ==
  ASSUME CircuitsAcyclic, NothingIsSummed, ConstantsAreKnown, CompiledInv, RunInv
  PROVE  ReadsTheSynchronousValue
<1> DEFINE lowMem == [c \in CellId |-> LowBit(mem[c])]
           bits   == Wires(def, LowBit(value), LowBit(reg), lowMem)
           shownMem == [c \in CellId |-> Shown(xMem[c], mem[c])]
           signal == Wires(def, Shown(xValue, value), Shown(xReg, reg), shownMem)
           Selected == \A b \in InBits(def) : b.port \in {"SEL", "RADDR"} =>
                         value[Driver(def, b.cell, b.port)] % 2 = In(def, signal, b.cell, b.port)
<1> SUFFICES ASSUME phase = "idle", NEW c \in Cells(def)
             PROVE  /\ value[c] % 2 = bits[c]
                    /\ Selected /\ xValue[c] = 0 => value[c] % 2 = signal[c]
  BY DEF ReadsTheSynchronousValue
<1>0. /\ def \in Circuits /\ TableTypes /\ Cells(def) \subseteq CellId /\ WellFormed(def) /\ FullyDriven(def)
  BY CircuitFacts DEF CompiledInv, ScheduleInv, ScheduleTypes
<1>1. Byt(def) = {0, 1} BY <1>0 DEF Byt, NothingIsSummed
<1>2. /\ value \in [CellId -> {0, 1}] /\ reg \in [CellId -> {0, 1}] /\ mem \in [CellId -> [Addr -> {0, 1}]]
      /\ xValue \in [CellId -> {0, 1}] /\ xReg \in [CellId -> {0, 1}] /\ xMem \in [CellId -> [Addr -> {0, 1}]]
  BY <1>0, <1>1 DEF TableTypes
<1>3. Settled(Now, {}) BY DEF RunInv, Settling
<1>4. \A d \in CellId :
        /\ LowBit(value)[d] = value[d] /\ value[d] % 2 = value[d]
        /\ xValue[d] = 0 => Shown(xValue, value)[d] = value[d]
        /\ LowBit(reg)[d] = reg[d]
        /\ xReg[d] = 0 => Shown(xReg, reg)[d] = reg[d]
  <2> TAKE d \in CellId
  <2>1. DOMAIN value = CellId /\ DOMAIN reg = CellId BY <1>2
  <2>2. value[d] \in {0, 1} /\ reg[d] \in {0, 1} /\ xValue[d] \in {0, 1} /\ xReg[d] \in {0, 1} BY <1>2
  <2>3. d \in DOMAIN value /\ d \in DOMAIN reg BY <2>1
  <2>4. /\ LowBit(value)[d] = value[d] /\ value[d] % 2 = value[d]
        /\ xValue[d] = 0 => Shown(xValue, value)[d] = value[d]
    BY ONLY <2>2, <2>3, LowBits
  <2>5. /\ LowBit(reg)[d] = reg[d]
        /\ xReg[d] = 0 => Shown(xReg, reg)[d] = reg[d]
    BY ONLY <2>2, <2>3, LowBits
  <2> QED BY <2>4, <2>5
<1>5. \A d \in CellId : \A a \in Addr :
        /\ lowMem[d][a] = mem[d][a]
        /\ xMem[d][a] = 0 => shownMem[d][a] = mem[d][a]
  <2> TAKE d \in CellId
  <2> TAKE a \in Addr
  <2>1. mem[d] \in [Addr -> {0, 1}] /\ xMem[d] \in [Addr -> {0, 1}] BY <1>2
  <2>2. DOMAIN mem[d] = Addr /\ mem[d][a] \in {0, 1} /\ xMem[d][a] \in {0, 1} BY <2>1
  <2>3. /\ LowBit(mem[d])[a] = mem[d][a]
        /\ xMem[d][a] = 0 => Shown(xMem[d], mem[d])[a] = mem[d][a]
    BY <2>2, LowBits
  <2> QED BY <2>3
<1> HIDE DEF lowMem, shownMem
<1>6. /\ Inputs(def) \subseteq CellId /\ Registers(def) \subseteq CellId /\ Memories(def) \subseteq CellId
  BY <1>0 DEF Inputs, Registers, Memories
<1>7. value[c] % 2 = bits[c]
  <2>1. \A d \in Cells(def) \ Reached(def, {}) : bits[d] = value[d]
    BY <1>3, <1>4, <1>5, <1>6, BitsAreWires
  <2>2. bits[c] = value[c] BY <2>1, NothingReached
  <2> QED BY <2>2, <1>0, <1>4
<1>8. ASSUME Selected, xValue[c] = 0 PROVE value[c] % 2 = signal[c]
  <2>1. ASSUME NEW b \in InBits(def), b.port \in {"SEL", "RADDR"}
        PROVE  value[Driver(def, b.cell, b.port)] = In(def, signal, b.cell, b.port)
    <3>1. value[Driver(def, b.cell, b.port)] % 2 = In(def, signal, b.cell, b.port) BY <1>8, <2>1
    <3>2. Driver(def, b.cell, b.port) \in CellId
      <4>1. def.drivers[b].cell \in Cells(def) /\ b \in Bit BY <1>0, InputIsReceived
      <4>2. b = PinOf(b.cell, b.port)
        <5>1. b.offset = 0 BY <4>1, SemanticsAssumption DEF Bit, Offset
        <5> QED BY <4>1, <5>1 DEF Bit, PinOf
      <4> QED BY <4>1, <4>2, <1>0 DEF Driver
    <3> QED BY <3>1, <3>2, <1>4
  <2>2. signal[c] = value[c] BY <1>3, <1>4, <1>5, <1>6, <1>8, <2>1, KnownIsRight
  <2> QED BY <2>2, <1>0, <1>4
<1> QED BY <1>7, <1>8

\* After every update the compiled simulation shows the function of the inputs and states
\* that the combinational cells define, whatever the schedule and whatever the unknown bits
\* (clocked by gates or not), for every family of definitions without combinational cycles,
\* sums or constants with unknown bits, where no register and no memory reaches a read
\* address: a memory is read once an update, after the group that may have clocked it.
THEOREM CompiledReadsAreSynchronous ==
  ASSUME CircuitsAcyclic, NothingIsSummed, ConstantsAreKnown, AddressesStill
  PROVE  Spec => []ReadsTheSynchronousValue
<1>1. Init => CompiledInv /\ LaterGroups /\ RunInv
  BY ScheduleInitInv, InitTypes, InitRuns, InitLater DEF Init, CompiledInv
<1>2. CompiledInv /\ LaterGroups /\ RunInv /\ [Next]_vars => (CompiledInv /\ LaterGroups /\ RunInv)'
  BY CompiledInvIsInductive, LaterGroupsIsInductive, RunInvIsInductive DEF CompiledInv
<1>3. CompiledInv /\ RunInv => ReadsTheSynchronousValue BY SettledIsSynchronous
<1> QED BY <1>1, <1>2, <1>3, PTL DEF Spec

-----------------------------------------------------------------------------
(* A circuit clocked by its input ports is the synchronous circuit, whose    *)
(* variables are these.                                                      *)

Ins  == [c \in Inputs(def) |-> value[c]]
Clks == {i \in Inputs(def) : SeqReceivers(def, i) # {}}
Old  == [c \in Clks |-> past[c]]
Regs == [c \in CellId |-> IF c \in Registers(def) THEN reg[c] ELSE X]
ClocksMoved == \E c \in Inputs(def) : SeqReceivers(def, c) # {} /\ past[c] # value[c]
Pc   == IF phase = "running" /\ at <= 2 /\ ClocksMoved THEN "clocked" ELSE "rest"
Wire == Wires(def, Ins, Regs, mem)

ClockEdge(c, p, positive) == Edge(positive, Old[Driver(def, c, p)], Ins[Driver(def, c, p)])

RegLoads(c) ==
  LET k == def.type[c]
  IN  IF k.tp = "REG_ARST" /\ ClockEdge(c, "ARST", k.rstPos) THEN k.init[1]
      ELSE IF ClockEdge(c, "CLK", k.clkPos) THEN Wire[Driver(def, c, "IN")]
      ELSE Regs[c]

MemTakes(c) ==
  IF Wire[Driver(def, c, "WEN")] = 1 /\ ClockEdge(c, "CLK", TRUE)
  THEN [mem[c] EXCEPT ![Wire[Driver(def, c, "WADDR")]] = Wire[Driver(def, c, "WDATA")]]
  ELSE mem[c]

LEMMA SameCells ==
  /\ Sync!CellId = CellId /\ Sync!Val = Val /\ Sync!X = X
  /\ \A n : /\ Sync!Inputs(n) = Inputs(n) /\ Sync!Registers(n) = Registers(n)
            /\ Sync!Memories(n) = Memories(n)
  /\ \A n, c : Sync!SeqReceivers(n, c) = SeqReceivers(n, c)
  /\ \A n, c, p : Sync!Driver(n, c, p) = Driver(n, c, p)
  /\ \A n, v, c, p : Sync!In(n, v, c, p) = v[Driver(n, c, p)]
  /\ \A p, o, w : Sync!Edge(p, o, w) = Edge(p, o, w)
BY DEF Sync!CellId, CellId, Sync!Val, Val, Sync!X, X, Sync!Inputs, Inputs,
       Sync!Registers, Registers, Sync!Memories, Memories, Sync!Cells, Cells, Sync!NoType, NoType,
       Sync!Tp, Tp, Sync!SeqReceivers, SeqReceivers, Sync!OutReceivers, OutReceivers,
       Sync!OutPort, OutPort, Sync!Port, Port, Sync!PortWidths, PortWidths, Sync!PinOf, PinOf,
       Sync!SigPort, SigPort, Sync!Comparator, Comparator, Sync!Binop, Binop, Sync!ReduceOp, ReduceOp,
       Sync!Unop, Unop, Sync!Driver, Driver, Sync!In, In, Sync!Edge, Edge

LEMMA SameWires ==
  \A n, in, r, m : Sync!Wires(n, in, r, m) = Wires(n, in, r, m)
BY DEF Sync!Wires, Wires, Sync!WireValue, WireValue, Sync!Evaluated, Evaluated,
       Sync!Inputs, Inputs, Sync!Registers, Registers, Sync!Memories, Memories,
       Sync!CellId, CellId, Sync!Cells, Cells, Sync!NoType, NoType, Sync!Tp, Tp,
       Sync!InitialValue, InitialValue, Sync!X, X, Sync!Eval, Eval, Sync!In, In,
       Sync!Driver, Driver, Sync!PinOf, PinOf, Sync!QNot, QNot, Sync!QAnd, QAnd, Sync!QOr, QOr,
       Sync!QXor, QXor, Sync!QEquals, QEquals, Sync!QLess, QLess, Sync!Bool, Bool,
       Sync!IsBinary, IsBinary

LEMMA SyncVars ==
  ASSUME def' = def, Ins' = Ins, Old' = Old, Regs' = Regs, mem' = mem, Pc' = Pc
  PROVE  Sync!vars' = Sync!vars
BY DEF Sync!vars, Ins, Old, Regs, Pc, ClocksMoved, Clks

\* When it is that the synchronous circuit changes its inputs,
LEMMA ChangeOfInputs ==
  ASSUME Pc = "rest", def' = def, mem' = mem, Regs' = Regs,
         Ins' \in [Inputs(def) -> {0, 1}], Old' \in [Clks -> {0, 1}],
         \A c \in Clks : Old'[c] = Ins[c],
         Pc' = IF \A c \in Clks : Ins'[c] = Ins[c] THEN "rest" ELSE "clocked"
  PROVE  Sync!Change
<1>1. Sync!Clocks(def) = Clks BY SameCells DEF Sync!Clocks, Clks
<1>2. 0 \in Val /\ 1 \in Val /\ {0, 1} \subseteq Val BY DEF Val
<1>3. \A c \in Clks : c \in Inputs(def) BY DEF Clks
<1>4. Old' \in [Clks -> Val] /\ Ins' \in [Inputs(def) -> {0, 1} \cup {X}] BY <1>2
<1>5. \A c \in Inputs(def) : Ins'[c] \in {0, 1} OBVIOUS
<1>6. Pc' = IF \A c \in Clks : Old'[c] = Ins[c] /\ Ins'[c] = Ins[c] THEN "rest" ELSE "clocked" OBVIOUS
<1> QED BY <1>1, <1>3, <1>4, <1>5, <1>6, SameCells DEF Sync!Change, Ins, Old, Regs, Pc, ClocksMoved, Clks

\* and that it clocks.
LEMMA ClockOfAll ==
  ASSUME Pc = "clocked", def' = def, Ins' = Ins, Old' = Old, Pc' = "rest",
         Regs' = [c \in CellId |-> IF c \in Registers(def) THEN RegLoads(c) ELSE X],
         mem' = [c \in CellId |-> IF c \in Memories(def) THEN MemTakes(c) ELSE mem[c]]
  PROVE  Sync!Clock
<1>1. \A c, p, q : Sync!EdgeAt(c, p, q) = ClockEdge(c, p, q)
  BY SameCells DEF Sync!EdgeAt, ClockEdge, Ins, Old, Clks
<1>2. Sync!Wires(def, Ins, Regs, mem) = Wire BY SameWires DEF Wire
<1>3. \A c : Sync!Loaded(Wire, c) = RegLoads(c)
  BY <1>1, SameCells DEF Sync!Loaded, RegLoads, Regs
<1>4. \A c : Sync!Written(Wire, c) = MemTakes(c)
  BY <1>1, SameCells DEF Sync!Written, MemTakes
<1> HIDE DEF Wire
<1>5. /\ Regs' = [c \in CellId |-> IF c \in Registers(def) THEN Sync!Loaded(Wire, c) ELSE X]
      /\ mem' = [c \in CellId |-> IF c \in Memories(def) THEN Sync!Written(Wire, c) ELSE mem[c]]
  BY <1>3, <1>4
<1> QED BY <1>2, <1>5, SameCells DEF Sync!Clock, Ins, Old, Regs, Pc, ClocksMoved, Clks

-----------------------------------------------------------------------------
(* Between two updates the past value of a clock is its value.               *)

PastIsValue ==
  phase \notin {"running", "written"} =>
    \A c \in Inputs(def) : SeqReceivers(def, c) # {} => past[c] = value[c]

LEMMA PastIsInductive ==
  /\ CircuitsAcyclic /\ Init => PastIsValue
  /\ CompiledInv /\ PastIsValue /\ [Next]_vars => PastIsValue'
<1>1. ASSUME CircuitsAcyclic, Init PROVE PastIsValue
  <2> DEFINE r == [c \in CellId |-> IF c \in Registers(def) THEN InitialValue(def, c) ELSE X]
             m == [c \in CellId |-> [a \in Addr |-> X]]
             i == [c \in CellId |-> X]
             w == Wires(def, i, r, m)
  <2>0. def \in Circuits BY <1>1 DEF Init, ScheduleInit
  <2>1. value = [c \in CellId |-> TwoState(w[c])] /\ past = [c \in CellId |-> 0] BY <1>1 DEF Init
  <2>2. /\ WellFormed(def) /\ FullyDriven(def) /\ Acyclic(def) /\ Cells(def) \subseteq CellId
    BY <2>0, <1>1, CircuitFacts DEF CircuitsAcyclic
  <2>3. Agree(def, i, r, m, w, CellId) BY <2>2, WiresSolve
  <2> HIDE DEF w, r, m
  <2>4. ASSUME NEW c \in Inputs(def) PROVE past[c] = value[c]
    <3>1. c \in CellId /\ c \notin Evaluated(def) BY <2>2, CellsApart DEF Inputs
    <3>2. w[c] = X BY <3>1, <2>3 DEF Agree, WireValue
    <3> QED BY <2>1, <3>1, <3>2 DEF TwoState
  <2> QED BY <2>4 DEF PastIsValue
<1>2. ASSUME CompiledInv, PastIsValue, [Next]_vars PROVE PastIsValue'
  <2>0. def \in Circuits /\ Cells(def) \subseteq CellId BY <1>2, CircuitFacts DEF CompiledInv, ScheduleInv, ScheduleTypes
  <2>1. CASE Compile /\ UNCHANGED <<simRaw, table, userInputs, at>>
    <3>1. phase \in {"spreading", "clocking"} /\ def' = def
      BY <2>1 DEF Compile, Spread, Emit, Clocking, Clocked
    <3> QED BY <1>2, <2>1, <3>1 DEF PastIsValue, table
  <2>2. CASE SimulateRaw
    <3> DEFINE kept == [c \in CellId |->
                         IF c \in Registers(def) \/ (c \in Cells(def) /\ Tp(def, c) = "CONST")
                         THEN TwoState(Shown(xValue, value)[c]) ELSE 0]
    <3>1. value' = kept /\ past' = [c \in CellId |-> 0] /\ def' = def BY <2>2 DEF SimulateRaw
    <3>2. \A c \in Inputs(def) : kept[c] = 0 BY <2>0, CellsApart DEF Inputs
    <3> HIDE DEF kept
    <3>3. \A c \in Inputs(def) : past'[c] = value'[c] BY <2>0, <3>1, <3>2 DEF Inputs
    <3> QED BY <3>1, <3>3 DEF PastIsValue
  <2>3. ASSUME NEW c \in CellId, NEW v \in Fresh, SetFreshValue(c, v) PROVE PastIsValue'
    BY <1>2, <2>3 DEF SetFreshValue, scheduling, table, PastIsValue
  <2>4. ASSUME NEW c \in CellId, NEW v \in Fresh \ {X}, SetFreshValueTwoState(c, v) PROVE PastIsValue'
    BY <2>4 DEF SetFreshValueTwoState, PastIsValue
  <2>5. CASE Update BY <2>5 DEF Update, PastIsValue
  <2>6. CASE CombBlock BY <2>6 DEF CombBlock, scheduling, PastIsValue
  <2>7. CASE SeqBlock BY <2>7 DEF SeqBlock, scheduling, PastIsValue
  <2>8. CASE Return
    <3>1. /\ def' = def /\ value' = value
          /\ past' = [c \in CellId |-> IF c \in Inputs(def) /\ SeqReceivers(def, c) # {}
                                       THEN value[c] ELSE past[c]]
      BY <2>8 DEF Return
    <3> QED BY <2>0, <3>1 DEF PastIsValue, Inputs
  <2>9. CASE UNCHANGED vars BY <1>2, <2>9 DEF vars, scheduling, table, PastIsValue
  <2> QED BY <1>2, <2>1, <2>2, <2>3, <2>4, <2>5, <2>6, <2>7, <2>8, <2>9 DEF Next
<1> QED BY <1>1, <1>2

SyncInv == CompiledInv /\ LaterGroups /\ RunInv /\ ClockedOnce /\ PastIsValue

\* The table has bits for the synchronous circuit.
LEMMA BitsForSync ==
  ASSUME NothingIsSummed, SyncInv
  PROVE  /\ def \in Circuits /\ TableTypes /\ Cells(def) \subseteq CellId /\ Inputs(def) \subseteq Cells(def)
         /\ value \in [CellId -> {0, 1}] /\ past \in [CellId -> {0, 1}] /\ reg \in [CellId -> {0, 1}]
         /\ Clks \subseteq Inputs(def)
<1>0. def \in Circuits /\ TableTypes /\ Cells(def) \subseteq CellId
  BY CircuitFacts DEF SyncInv, CompiledInv, ScheduleInv, ScheduleTypes
<1>1. Byt(def) = {0, 1} BY <1>0 DEF Byt, NothingIsSummed
<1> QED BY <1>0, <1>1 DEF TableTypes, Inputs, Clks

LEMMA UpdateIsChange ==
  ASSUME NothingIsSummed, SyncInv, phase # "written", Update PROVE Sync!Change
<1>0. /\ def \in Circuits /\ Cells(def) \subseteq CellId /\ Inputs(def) \subseteq Cells(def)
      /\ value \in [CellId -> {0, 1}] /\ Clks \subseteq Inputs(def)
  BY BitsForSync
<1>1. /\ phase \in {"compiled", "idle"} /\ phase' = "running" /\ at' = 1
      /\ UNCHANGED <<def, past, reg, mem>>
  BY DEF Update, Waiting
<1>2. TableTypes' BY UpdateTypes DEF SyncInv, CompiledInv
<1>3. Ins' \in [Inputs(def) -> {0, 1}]
  <2>2. Byt(def) = {0, 1} BY <1>0 DEF Byt, NothingIsSummed
  <2>3. value' \in [CellId -> {0, 1}] BY <2>2, <1>1, <1>2 DEF TableTypes, Byt, Cells, Tp
  <2> QED BY <1>0, <1>1, <2>3 DEF Ins, Inputs, Cells, Tp
<1>4. \A c \in Clks : past[c] = value[c] BY <1>1 DEF SyncInv, PastIsValue, Clks
<1>5. Old' = [c \in Clks |-> past[c]] BY <1>1 DEF Old, Clks
<1>6. \A c \in Clks : Old'[c] = Ins[c] BY <1>0, <1>4, <1>5 DEF Ins
<1>7. Old' \in [Clks -> {0, 1}] BY <1>0, <1>4, <1>5
<1>8. \A c \in Clks : Ins'[c] = Ins[c] <=> past'[c] = value'[c] BY <1>0, <1>1, <1>4 DEF Ins, Inputs, Cells, Tp
<1>9. Pc' = IF \A c \in Clks : Ins'[c] = Ins[c] THEN "rest" ELSE "clocked"
  <2>1. ClocksMoved' <=> \E c \in Clks : past'[c] # value'[c] BY <1>1 DEF ClocksMoved, Clks
  <2> QED BY <2>1, <1>1, <1>8 DEF Pc
<1>10. Pc = "rest" /\ Regs' = Regs BY <1>1 DEF Pc, Regs
<1> QED BY <1>1, <1>3, <1>6, <1>7, <1>9, <1>10, ChangeOfInputs

LEMMA ReturnIsChange ==
  ASSUME NothingIsSummed, SyncInv, Return PROVE Sync!Change
<1>0. /\ def \in Circuits /\ Cells(def) \subseteq CellId /\ Inputs(def) \subseteq Cells(def)
      /\ value \in [CellId -> {0, 1}] /\ Clks \subseteq Inputs(def)
  BY BitsForSync
<1>1. /\ phase = "running" /\ phase' = "idle" /\ at \notin DOMAIN updates
      /\ past' = [c \in CellId |-> IF c \in Inputs(def) /\ SeqReceivers(def, c) # {} THEN value[c] ELSE past[c]]
      /\ UNCHANGED <<def, value, reg, mem>>
  BY DEF Return
<1>2. at \in Nat /\ at > 2
  <2>1. /\ updates \in Seq(Seq(Active(def))) /\ GroupsCover(def, updates) /\ GroupAtWork
        /\ at \in 1 .. Len(updates) + 1
    BY <1>1 DEF SyncInv, CompiledInv, ScheduleInv, ScheduleTypes, RunInv, Settling
  <2>2. at = Len(updates) + 1 /\ Len(updates) \in Nat BY <1>1, <2>1
  <2>3. Len(updates) # 0 /\ Len(updates) % 2 = 0 BY <1>1, <2>1 DEF GroupAtWork, GroupsCover
  <2>4. Len(updates) # 1
    <3>1. 1 % 2 = 1 OBVIOUS
    <3> QED BY <2>3, <3>1
  <2> QED BY <2>2, <2>3, <2>4
<1>3. Pc = "rest" /\ Pc' = "rest" /\ Regs' = Regs
  <2>1. ~(at <= 2) BY <1>2
  <2> QED BY <1>1, <2>1 DEF Pc, Regs
<1>4. Ins' = Ins /\ Ins \in [Inputs(def) -> {0, 1}] BY <1>0, <1>1 DEF Ins
<1>5. Old' = [c \in Clks |-> value[c]] BY <1>0, <1>1 DEF Old, Clks
<1>6. Old' \in [Clks -> {0, 1}] /\ \A c \in Clks : Old'[c] = Ins[c] BY <1>0, <1>5 DEF Ins
<1> QED BY <1>1, <1>3, <1>4, <1>6, ChangeOfInputs

LEMMA CombBlockShowsNothing ==
  ASSUME CircuitsAcyclic, NothingIsSummed, AddressesStill, SyncInv, CombBlock
  PROVE  Sync!vars' = Sync!vars
<1>0. /\ def \in Circuits /\ TableTypes /\ Cells(def) \subseteq CellId /\ Inputs(def) \subseteq Cells(def)
      /\ Clks \subseteq Inputs(def) /\ updates \in Seq(Seq(Active(def)))
  BY BitsForSync DEF SyncInv, CompiledInv, ScheduleInv, ScheduleTypes
<1> DEFINE group == updates[at]
           done == Evaluate(group)
<1>1. /\ phase = "running" /\ at \in DOMAIN updates /\ at % 2 = 1 /\ at' = at + 1
      /\ value' = done.v
      /\ past' = [c \in CellId |-> IF c \in Range(group) /\ SeqReceivers(def, c) # {}
                                   THEN value[c] ELSE past[c]]
      /\ UNCHANGED <<def, phase, updates, reg, mem>>
  BY DEF CombBlock, scheduling
<1>2. group \in Seq(Active(def)) BY <1>0, <1>1
<1>3. \A c \in Inputs(def) : c \in CellId \ Active(def) /\ c \notin Range(group)
  <2>1. Range(group) \subseteq Active(def) BY <1>2 DEF Range
  <2> QED BY <1>0, <2>1, CellsApart DEF Active
<1>4. \A c \in Inputs(def) : value'[c] = value[c]
  BY <1>1, <1>3, CombBlockSettles DEF SyncInv
<1>5. \A c \in Inputs(def) : past'[c] = past[c] BY <1>1, <1>3
<1>6. Ins' = Ins /\ Old' = Old /\ Regs' = Regs /\ (ClocksMoved' <=> ClocksMoved)
  BY <1>0, <1>1, <1>4, <1>5 DEF Ins, Old, Clks, Regs, ClocksMoved
<1>7. at <= 2 <=> at + 1 <= 2
  <2>1. at \in Nat /\ at >= 1 /\ at % 2 = 1 BY <1>0, <1>1
  <2>2. 2 % 2 = 0 OBVIOUS
  <2> QED BY <2>1, <2>2
<1>8. Pc' = Pc BY <1>1, <1>6, <1>7 DEF Pc
<1> QED BY <1>1, <1>6, <1>8, SyncVars

\* What clocks or resets a register or memory is an input port, and the first clocked group
\* has the cell.
LEMMA ClockFacts ==
  ASSUME ClockedByInputs, NothingIsSummed, SyncInv, phase = "running",
         NEW c \in Registers(def) \cup Memories(def), NEW p,
         p = "CLK" \/ (p = "ARST" /\ Tp(def, c) = "REG_ARST")
  PROVE  /\ Driver(def, c, p) \in Clks
         /\ c \in Range(updates[2])
<1>0. /\ def \in Circuits /\ WellFormed(def) /\ FullyDriven(def) /\ def \in Net
  BY CircuitFacts, BitsForSync
<1>1. c \in Cells(def) /\ Tp(def, c) \in {"REG", "REG_ARST", "MEM"} BY DEF Registers, Memories
<1>2. p \in DOMAIN PortWidths(def.type[c]) /\ p \in {"CLK", "ARST"}
  BY <1>1 DEF Tp, PortWidths, Comparator, Binop, ReduceOp, Unop
<1> DEFINE d == Driver(def, c, p)
<1>3. d \in Cells(def) /\ PinOf(c, p) \in OutReceivers(def, d) BY <1>0, <1>1, <1>2, PortIsDriven
<1> HIDE DEF d
<1>4. SigPort(PinOf(c, p)) \in SeqReceivers(def, d) /\ SigPort(PinOf(c, p)).cell = c
  BY <1>2, <1>3 DEF SeqReceivers, PinOf, SigPort
<1>5. d \in Inputs(def) /\ d \in Clks BY <1>3, <1>4 DEF ClockedByInputs, Clks
<1>6. d \in Sources(def) BY <1>3, <1>5, CellsApart DEF Sources
<1>7. 1 \in Odd(updates)
  <2>1. updates \in Seq(Seq(Active(def))) /\ updates # <<>>
    BY DEF SyncInv, CompiledInv, ScheduleInv, ScheduleTypes, GroupAtWork
  <2>2. 1 \in DOMAIN updates /\ 1 % 2 = 1 BY <2>1
  <2> QED BY <2>2 DEF Odd
<1>8. ClockedNext(def, Sources(def), updates[2])
  <2>1. ClockedNext(def, Range(updates[1]) \cup Sources(def), updates[1 + 1])
    BY <1>7 DEF SyncInv, CompiledInv, ScheduleInv, GroupsCover
  <2> QED BY <2>1 DEF ClockedNext
<1>9. c \in Range(updates[2]) BY <1>4, <1>6, <1>8 DEF ClockedNext
<1> QED BY <1>5, <1>9 DEF d

\* The code asks of the past value what the synchronous circuit asks of the old one.
LEMMA SameEdges ==
  ASSUME NothingIsSummed, SyncInv, NEW c, NEW p, NEW pos, Driver(def, c, p) \in Clks
  PROVE  /\ EdgeOn(c, p, pos) <=> ClockEdge(c, p, pos)
         /\ ~ClocksMoved => ~EdgeOn(c, p, pos)
<1> DEFINE d == Driver(def, c, p)
<1>1. /\ d \in Inputs(def) /\ value[d] \in {0, 1} /\ past[d] \in {0, 1} /\ SeqReceivers(def, d) # {}
  BY BitsForSync DEF Clks
<1>2. Old[d] = past[d] /\ Ins[d] = value[d] BY <1>1 DEF Old, Ins
<1>3. Operand(past, c, p) = past[d] /\ Operand(value, c, p) = value[d] BY DEF Operand, In
<1>4. ~ClocksMoved => past[d] = value[d] BY <1>1 DEF ClocksMoved
<1> HIDE DEF d
<1> QED BY <1>1, <1>2, <1>3, <1>4 DEF EdgeOn, ClockEdge, Edge, d

NothingReadIsLoaded == \A n \in Circuits : LoadsNoReads(n)

\* The first clocked group is the clock edge: the memories are not read yet, but nothing that
\* is read of them is loaded.
LEMMA LoadsAlike ==
  ASSUME CircuitsAcyclic, NothingIsSummed, ConstantsAreKnown, NothingReadIsLoaded, ClockedByInputs,
         SyncInv, phase = "running", Settled(Now, Memories(def))
  PROVE  /\ \A c \in Registers(def) : /\ NextReg(c) = RegLoads(c)
                                      /\ ~ClocksMoved => NextReg(c) = reg[c]
         /\ \A c \in Memories(def) : /\ NextMem(c) = MemTakes(c)
                                     /\ ~ClocksMoved => NextMem(c) = mem[c]
<1>0. /\ def \in Circuits /\ WellFormed(def) /\ FullyDriven(def) /\ def \in Net /\ Cells(def) \subseteq CellId
      /\ TableTypes
  BY CircuitFacts, BitsForSync
<1>1. \A d \in Cells(def) \ Reached(def, Memories(def)) : Wire[d] = value[d]
  <2>1. \A c \in Inputs(def) : Ins[c] = value[c] BY DEF Ins
  <2>2. \A c \in Registers(def) : Regs[c] = reg[c] BY <1>0 DEF Regs, Registers
  <2> QED BY <2>1, <2>2, BitsAreWires DEF Wire, SyncInv
<1>2. \A c \in Registers(def) \cup Memories(def) : \A p \in Samples(Tp(def, c)) :
        Operand(value, c, p) = Wire[Driver(def, c, p)]
  <2> TAKE c \in Registers(def) \cup Memories(def)
  <2> TAKE p \in Samples(Tp(def, c))
  <2>1. /\ c \in Cells(def) /\ def.type[c] \in Kind
        /\ Tp(def, c) \in {"REG", "REG_ARST", "MEM"} /\ Tp(def, c) = def.type[c].tp
    BY <1>0, NetFields DEF Registers, Memories, Cells, Tp
  <2>2. p \in DOMAIN PortWidths(def.type[c]) /\ p \in {"IN", "WADDR", "WDATA", "WEN"}
    BY <2>1, SamplesArePorts
  <2>3. Driver(def, c, p) \in Cells(def) BY <1>0, <2>1, <2>2, PortIsDriven
  <2>4. Driver(def, c, p) \notin Reached(def, Memories(def))
    BY <1>0 DEF NothingReadIsLoaded, LoadsNoReads
  <2> QED BY <1>1, <2>3, <2>4 DEF Operand, In
<1> HIDE DEF Wire
<1>3. ASSUME NEW c \in Registers(def)
      PROVE  /\ NextReg(c) = RegLoads(c)
             /\ ~ClocksMoved => NextReg(c) = reg[c]
  <2> DEFINE k == def.type[c]
  <2>1. /\ k \in Kind /\ k.tp = Tp(def, c) /\ k.tp \in {"REG", "REG_ARST"} /\ c \in CellId
    BY <1>0, NetFields DEF Registers, Cells, Tp
  <2>2. Driver(def, c, "CLK") \in Clks /\ (k.tp = "REG_ARST" => Driver(def, c, "ARST") \in Clks)
    BY <2>1, ClockFacts
  <2>3. \A q : /\ EdgeOn(c, "CLK", q) <=> ClockEdge(c, "CLK", q)
               /\ ~ClocksMoved => ~EdgeOn(c, "CLK", q)
    BY <2>2, SameEdges
  <2>4. k.tp = "REG_ARST" =>
          \A q : /\ EdgeOn(c, "ARST", q) <=> ClockEdge(c, "ARST", q)
                 /\ ~ClocksMoved => ~EdgeOn(c, "ARST", q)
    BY <2>2, SameEdges
  <2>5. k.tp = "REG_ARST" => TwoState(k.init[1]) = k.init[1]
    BY <2>1 DEF ConstantsAreKnown, TwoState
  <2>6. Operand(value, c, "IN") = Wire[Driver(def, c, "IN")] BY <1>2, <2>1 DEF Samples
  <2>7. Regs[c] = reg[c] BY <2>1 DEF Regs
  <2>8. NextReg(c) = IF k.tp = "REG_ARST" /\ EdgeOn(c, "ARST", k.rstPos) THEN TwoState(k.init[1])
                     ELSE IF EdgeOn(c, "CLK", k.clkPos) THEN Operand(value, c, "IN") ELSE reg[c]
    BY <2>1 DEF NextReg
  <2>9. RegLoads(c) = IF k.tp = "REG_ARST" /\ ClockEdge(c, "ARST", k.rstPos) THEN k.init[1]
                      ELSE IF ClockEdge(c, "CLK", k.clkPos) THEN Wire[Driver(def, c, "IN")] ELSE Regs[c]
    BY DEF RegLoads
  <2> HIDE DEF k
  <2> QED BY <2>3, <2>4, <2>5, <2>6, <2>7, <2>8, <2>9
<1>4. ASSUME NEW c \in Memories(def)
      PROVE  /\ NextMem(c) = MemTakes(c)
             /\ ~ClocksMoved => NextMem(c) = mem[c]
  <2>1. Tp(def, c) = "MEM" /\ c \in CellId BY <1>0 DEF Memories
  <2>2. Driver(def, c, "CLK") \in Clks BY ClockFacts
  <2>3. /\ EdgeOn(c, "CLK", TRUE) <=> ClockEdge(c, "CLK", TRUE)
        /\ ~ClocksMoved => ~EdgeOn(c, "CLK", TRUE)
    BY <2>2, SameEdges
  <2>4. \A p \in {"WADDR", "WDATA", "WEN"} : Operand(value, c, p) = Wire[Driver(def, c, p)]
    BY <1>2, <2>1 DEF Samples
  <2>5. Operand(value, c, "WEN") \in {0, 1}
    <3>1. "WEN" \in Samples(Tp(def, c)) BY <2>1 DEF Samples
    <3>2. Driver(def, c, "WEN") \in CellId BY <1>0, <3>1, SampledCells
    <3> QED BY <3>2, BitsForSync DEF Operand, In
  <2>6. mem[c] \in [Addr -> Byt(def)] BY <1>0, <2>1 DEF TableTypes
  <2> DEFINE addr == Operand(value, c, "WADDR")
             data == Operand(value, c, "WDATA")
  <2>7. NextMem(c) = [mem[c] EXCEPT ![addr] = IF Writes(c) THEN data ELSE @] BY DEF NextMem
  <2>8. Writes(c) <=> Operand(value, c, "WEN") = 1 /\ EdgeOn(c, "CLK", TRUE)
    <3>1. Writes(c) <=> Operand(value, c, "WEN") # 0 /\ EdgeOn(c, "CLK", TRUE) BY DEF Writes
    <3>2. Operand(value, c, "WEN") # 0 <=> Operand(value, c, "WEN") = 1 BY <2>5
    <3> QED BY <3>1, <3>2
  <2>9. MemTakes(c) = IF Operand(value, c, "WEN") = 1 /\ ClockEdge(c, "CLK", TRUE)
                      THEN [mem[c] EXCEPT ![addr] = data] ELSE mem[c]
    BY <2>4 DEF MemTakes
  <2> HIDE DEF addr, data
  <2>10. ~Writes(c) => NextMem(c) = mem[c] BY <2>6, <2>7
  <2>11. Writes(c) => NextMem(c) = [mem[c] EXCEPT ![addr] = data] BY <2>7
  <2> QED BY <2>3, <2>8, <2>9, <2>10, <2>11
<1> QED BY <1>3, <1>4

LEMMA SeqBlockIsClock ==
  ASSUME CircuitsAcyclic, NothingIsSummed, ConstantsAreKnown, NothingReadIsLoaded, ClockedByInputs,
         SyncInv, SeqBlock
  PROVE  Sync!Clock \/ Sync!vars' = Sync!vars
<1> DEFINE regs == Range(updates[at]) \cap Registers(def)
           mems == Range(updates[at]) \cap Memories(def)
<1>0. /\ def \in Circuits /\ TableTypes /\ Cells(def) \subseteq CellId
      /\ updates \in Seq(Seq(Active(def)))
  BY BitsForSync DEF SyncInv, CompiledInv, ScheduleInv, ScheduleTypes
<1>1. /\ phase = "running" /\ at \in DOMAIN updates /\ at % 2 = 0 /\ at' = at + 1
      /\ reg' = [c \in CellId |-> IF c \in regs THEN NextReg(c) ELSE reg[c]]
      /\ mem' = [c \in CellId |-> IF c \in mems THEN NextMem(c) ELSE mem[c]]
      /\ UNCHANGED <<def, phase, updates, value, past>>
  BY DEF SeqBlock, scheduling
<1>2. at \in Nat /\ at >= 2
  <2>1. at \in Nat /\ at >= 1 BY <1>0, <1>1
  <2>2. 1 % 2 = 1 OBVIOUS
  <2> QED BY <2>1, <2>2, <1>1
<1>3. at = 2 => Settled(Now, Memories(def))
  <2>1. at > 1 /\ ~(at % 2 = 1) BY <1>1, <1>2
  <2> QED BY <2>1, <1>1 DEF SyncInv, RunInv, Settling, Unsettled
<1>4. Ins' = Ins /\ Old' = Old /\ (ClocksMoved' <=> ClocksMoved) BY <1>1 DEF Ins, Old, Clks, ClocksMoved
<1>5. Pc' = "rest"
  <2>1. ~(at + 1 <= 2) BY <1>2
  <2> QED BY <2>1, <1>1 DEF Pc
<1>6. ASSUME \A c \in regs : NextReg(c) = reg[c], \A c \in mems : NextMem(c) = mem[c], Pc = "rest"
      PROVE  Sync!vars' = Sync!vars
  <2>1. reg' = [c \in CellId |-> reg[c]] /\ mem' = [c \in CellId |-> mem[c]] BY <1>1, <1>6
  <2>2. reg' = reg /\ mem' = mem BY <2>1, <1>0 DEF TableTypes
  <2>3. Regs' = Regs BY <2>2, <1>1 DEF Regs
  <2> QED BY <2>2, <2>3, <1>1, <1>4, <1>5, <1>6, SyncVars
<1>7. CASE at > 2
  <2>1. Range(updates[at]) = {} BY <1>1, <1>7 DEF SyncInv, ClockedOnce
  <2>2. Pc = "rest"
    <3>1. ~(at <= 2) BY <1>2, <1>7
    <3> QED BY <3>1 DEF Pc
  <2> QED BY <2>1, <2>2, <1>6
<1>8. CASE at = 2
  <2> HIDE DEF regs, mems
  <2>0. regs = Registers(def) /\ mems = Memories(def)
    <3>1. \A c \in Registers(def) \cup Memories(def) : c \in Range(updates[2]) BY <1>1, ClockFacts
    <3> QED BY <3>1, <1>8 DEF regs, mems
  <2>1. CASE ClocksMoved
    <3>1. Pc = "clocked" BY <2>1, <1>1, <1>8 DEF Pc
    <3>2. Regs' = [c \in CellId |-> IF c \in Registers(def) THEN RegLoads(c) ELSE X]
      <4>1. \A c \in Registers(def) : c \in CellId /\ reg'[c] = RegLoads(c)
        BY <2>0, <1>0, <1>1, <1>3, <1>8, LoadsAlike DEF Registers
      <4> QED BY <4>1, <1>1 DEF Regs
    <3>3. mem' = [c \in CellId |-> IF c \in Memories(def) THEN MemTakes(c) ELSE mem[c]]
      BY <2>0, <1>1, <1>3, <1>8, LoadsAlike
    <3> QED BY <3>1, <3>2, <3>3, <1>1, <1>4, <1>5, ClockOfAll
  <2>2. CASE ~ClocksMoved
    <3>1. Pc = "rest" BY <2>2 DEF Pc
    <3> QED BY <3>1, <2>0, <2>2, <1>1, <1>3, <1>6, <1>8, LoadsAlike
  <2> QED BY <2>1, <2>2
<1> QED BY <1>2, <1>7, <1>8

\* A step of the compiled simulation that has a schedule, and neither goes over to the raw
\* table nor is given values in it, is one of the synchronous circuit or shows nothing.
LEMMA StepsAreSynchronous ==
  ASSUME CircuitsAcyclic, NothingIsSummed, ConstantsAreKnown, AddressesStill, NothingReadIsLoaded,
         SyncInv, [Next]_vars, ClockedByInputs, phase \notin {"spreading", "clocking", "written"}, phase' # "written",
         simRaw' = simRaw
  PROVE  [Sync!Next]_(Sync!vars)
<1>1. ~(Compile /\ UNCHANGED <<simRaw, table, userInputs, at>>)
  BY DEF Compile, Spread, Emit, Clocking, Clocked
<1>2. ~SimulateRaw BY DEF SimulateRaw
<1>3. \A c \in CellId, v \in Fresh \ {X} : ~SetFreshValueTwoState(c, v) BY DEF SetFreshValueTwoState
<1>4. ASSUME UNCHANGED <<scheduling, table, at>> PROVE Sync!vars' = Sync!vars
  <2>1. UNCHANGED <<def, phase, at, value, past, reg, mem>> BY <1>4 DEF scheduling, table
  <2> QED BY <2>1, SyncVars DEF Ins, Old, Clks, Regs, Pc, ClocksMoved
<1>5. CASE \E c \in CellId, v \in Fresh : SetFreshValue(c, v) BY <1>4, <1>5 DEF SetFreshValue
<1>6. CASE Update BY <1>6, UpdateIsChange DEF Sync!Next
<1>7. CASE CombBlock BY <1>7, CombBlockShowsNothing
<1>8. CASE SeqBlock BY <1>8, SeqBlockIsClock DEF Sync!Next
<1>9. CASE Return BY <1>9, ReturnIsChange DEF Sync!Next
<1>10. CASE UNCHANGED vars BY <1>4, <1>10 DEF vars
<1> QED BY <1>1, <1>2, <1>3, <1>5, <1>6, <1>7, <1>8, <1>9, <1>10 DEF Next

\* The refinement, for every family of definitions without combinational cycles, sums or
\* constants with unknown bits: where clocks are input ports an update of the compiled
\* simulation is a change of the inputs of the synchronous circuit and one clock edge, at
\* which every register and memory loads, once, what the gates make of the states before.
\* No register or memory may reach a read address, and no memory what is loaded.
THEOREM CompiledImplementsSync ==
  ASSUME CircuitsAcyclic, NothingIsSummed, ConstantsAreKnown, AddressesStill, NothingReadIsLoaded
  PROVE  Spec => ImplementsSync
<1>1. Init => SyncInv
  <2>1. Init => CompiledInv /\ LaterGroups /\ RunInv
    BY ScheduleInitInv, InitTypes, InitRuns, InitLater DEF Init, CompiledInv
  <2>2. Init => ClockedOnce
    <3>1. Init => updates = <<>> BY DEF Init, ScheduleInit
    <3>2. DOMAIN <<>> = {} OBVIOUS
    <3> QED BY <3>1, <3>2 DEF ClockedOnce
  <2> QED BY <2>1, <2>2, PastIsInductive DEF SyncInv
<1>2. SyncInv /\ [Next]_vars => SyncInv'
  BY CompiledInvIsInductive, LaterGroupsIsInductive, RunInvIsInductive, ClockedOnceIsInductive, PastIsInductive
     DEF SyncInv, CompiledInv
<1>3. SyncInv /\ [Next]_vars =>
        [ClockedByInputs /\ phase \notin {"spreading", "clocking", "written"} /\ phase' # "written"
         /\ simRaw' = simRaw => [Sync!Next]_(Sync!vars)]_vars
  BY StepsAreSynchronous
<1> QED BY <1>1, <1>2, <1>3, PTL DEF Spec, ImplementsSync
=============================================================================
