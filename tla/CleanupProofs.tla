--------------------------- MODULE CleanupProofs ---------------------------
(***************************************************************************)
(* The removals of what a definition does not need keep what it computes,  *)
(* for every definition without combinational cycles: a bypassed cell has  *)
(* the value of the cell that takes its place, and what is dead drives     *)
(* nothing that is left.                                                   *)
(***************************************************************************)
EXTENDS Cleanup, CellProofs, WellFoundedInduction, FiniteSetTheorems

-----------------------------------------------------------------------------
(* Reachability: the last layer is the least set that is closed.             *)

Grow(along, T) == T \cup UNION {along[c] : c \in T}

Layers(S, along, j) ==
  CHOOSE f : f = [k \in 0 .. j |-> IF k = 0 THEN S ELSE Grow(along, f[k - 1])]

LEMMA LayersExist ==
  ASSUME NEW S, NEW along, NEW j \in Nat
  PROVE  LET f == Layers(S, along, j)
         IN  f = [k \in 0 .. j |-> IF k = 0 THEN S ELSE Grow(along, f[k - 1])]
<1> DEFINE Layer(i, f) == f = [k \in 0 .. i |-> IF k = 0 THEN S ELSE Grow(along, f[k - 1])]
           T == {i \in Nat : ~ \E f : Layer(i, f)}
<1>1. T = {}
  <2>1. SUFFICES ASSUME T # {} PROVE FALSE
    OBVIOUS
  <2>2. PICK i \in T : \A l \in T : i <= l
    BY <2>1, LeastNumber
  <2>3. i # 0
    <3>1. Layer(0, [k \in 0 .. 0 |-> S])
      OBVIOUS
    <3> QED BY <3>1
  <2>4. i \in Nat /\ i - 1 \in Nat /\ i - 1 \notin T
    BY <2>2, <2>3
  <2>5. PICK g : Layer(i - 1, g)
    BY <2>4
  <2> DEFINE f == [k \in 0 .. i |-> IF k = i THEN Grow(along, g[i - 1]) ELSE g[k]]
  <2>6. ASSUME NEW k \in 0 .. i
        PROVE  f[k] = IF k = 0 THEN S ELSE Grow(along, f[k - 1])
    <3>1. CASE k = i
      BY <2>3, <2>4, <3>1
    <3>2. CASE k # i
      <4>1. k \in 0 .. i - 1 /\ (k # 0 => k - 1 \in 0 .. i - 1 /\ k - 1 # i)
        BY <2>4, <3>2
      <4>2. g[k] = IF k = 0 THEN S ELSE Grow(along, g[k - 1])
        BY <2>5, <4>1
      <4> QED BY <3>2, <4>1, <4>2
    <3> QED BY <3>1, <3>2
  <2>7. f = [k \in 0 .. i |-> f[k]]
    OBVIOUS
  <2> HIDE DEF f
  <2>8. Layer(i, f)
    BY <2>6, <2>7
  <2> QED BY <2>2, <2>8
<1>2. \E f : Layer(j, f)
  BY <1>1
<1> QED BY <1>2 DEF Layers

LEMMA ReachedLayers ==
  ASSUME NEW S, NEW along
  PROVE  LET f == Layers(S, along, MaxId)
         IN  /\ Reached(S, along) = f[MaxId]
             /\ f[0] = S
             /\ \A k \in 0 .. MaxId : k # 0 => f[k] = Grow(along, f[k - 1])
<1> DEFINE f == Layers(S, along, MaxId)
<1>1. MaxId \in Nat
  BY NetlistAssumption
<1>2. f = [k \in 0 .. MaxId |-> IF k = 0 THEN S ELSE Grow(along, f[k - 1])]
  BY <1>1, LayersExist
<1>3. Reached(S, along) = f[MaxId]
  BY DEF Reached, Layers, Grow
<1> HIDE DEF f
<1> QED BY <1>1, <1>2, <1>3 DEF f

LEMMA ReachedClosed ==
  ASSUME NEW S \in SUBSET CellId, NEW along, \A c \in CellId : along[c] \subseteq CellId
  PROVE  /\ S \subseteq Reached(S, along) /\ Reached(S, along) \subseteq CellId
         /\ \A c \in Reached(S, along) : along[c] \subseteq Reached(S, along)
<1> DEFINE f == Layers(S, along, MaxId)
<1>0. MaxId \in Nat
  BY NetlistAssumption
<1>1. /\ Reached(S, along) = f[MaxId] /\ f[0] = S
      /\ \A k \in 0 .. MaxId : k # 0 => f[k] = Grow(along, f[k - 1])
  BY ReachedLayers
<1> HIDE DEF f
<1>2. \A k \in 0 .. MaxId : S \subseteq f[k] /\ f[k] \subseteq CellId
  <2> DEFINE T == {k \in Nat : k <= MaxId /\ ~(S \subseteq f[k] /\ f[k] \subseteq CellId)}
  <2>1. SUFFICES ASSUME T # {} PROVE FALSE
    OBVIOUS
  <2>2. PICK k \in T : \A j \in T : k <= j
    BY <1>0, <2>1, LeastNumber
  <2>3. k # 0
    BY <1>1
  <2>4. k \in 0 .. MaxId /\ k - 1 \in 0 .. MaxId /\ k - 1 \notin T
    BY <1>0, <2>2, <2>3
  <2>5. S \subseteq f[k - 1] /\ f[k - 1] \subseteq CellId
    BY <2>4
  <2> QED BY <1>1, <2>2, <2>3, <2>4, <2>5 DEF Grow
<1>3. ASSUME NEW i \in 0 .. MaxId, Grow(along, f[i]) = f[i]
      PROVE  f[MaxId] = f[i]
  <2> DEFINE T == {k \in Nat : k <= MaxId /\ i <= k /\ f[k] # f[i]}
  <2>1. SUFFICES ASSUME T # {} PROVE FALSE
    BY <1>0
  <2>2. PICK k \in T : \A j \in T : k <= j
    BY <1>0, <2>1, LeastNumber
  <2>3. k # i /\ k \in 0 .. MaxId /\ i <= k
    BY <2>2
  <2>4. k - 1 \in 0 .. MaxId /\ i <= k - 1 /\ k # 0 /\ k - 1 \notin T
    BY <1>0, <2>2, <2>3
  <2>5. f[k - 1] = f[i]
    BY <2>4
  <2> QED BY <1>1, <1>3, <2>2, <2>3, <2>4, <2>5
<1>4. Grow(along, f[MaxId]) = f[MaxId]
  <2>1. SUFFICES ASSUME Grow(along, f[MaxId]) # f[MaxId] PROVE FALSE
    OBVIOUS
  <2>2. \A k \in 0 .. MaxId : Grow(along, f[k]) # f[k]
    BY <1>3, <2>1
  <2>3. IsFiniteSet(CellId) /\ Cardinality(CellId) = MaxId
    BY <1>0, FS_Interval DEF CellId
  <2>4. \A k \in 0 .. MaxId : IsFiniteSet(f[k]) /\ Cardinality(f[k]) \in Nat
    BY <1>2, <2>3, FS_Subset, FS_CardinalityType
  <2> DEFINE T == {k \in Nat : k <= MaxId /\ Cardinality(f[k]) < k}
  <2>5. T = {}
    <3>1. SUFFICES ASSUME T # {} PROVE FALSE
      OBVIOUS
    <3>2. PICK k \in T : \A j \in T : k <= j
      BY <1>0, <3>1, LeastNumber
    <3>3. k \in 0 .. MaxId /\ k # 0 /\ k - 1 \in 0 .. MaxId /\ k - 1 \notin T
      BY <1>0, <2>4, <3>2
    <3>4. f[k] = Grow(along, f[k - 1]) /\ f[k] # f[k - 1]
      BY <1>1, <2>2, <3>3
    <3>5. f[k - 1] \in SUBSET f[k]
      BY <3>4 DEF Grow
    <3>6. Cardinality(f[k - 1]) <= Cardinality(f[k]) /\ Cardinality(f[k - 1]) # Cardinality(f[k])
      BY <2>4, <3>3, <3>4, <3>5, FS_Subset
    <3>7. Cardinality(f[k - 1]) \in Nat /\ Cardinality(f[k]) \in Nat
      BY <2>4, <3>3
    <3>8. ~(Cardinality(f[k - 1]) < k - 1) /\ Cardinality(f[k]) < k
      BY <3>2, <3>3
    <3> QED BY <3>3, <3>6, <3>7, <3>8
  <2>6. MaxId \in 0 .. MaxId
    BY <1>0
  <2>7. ~(Cardinality(f[MaxId]) < MaxId)
    BY <2>5, <2>6
  <2>8. f[MaxId] \in SUBSET CellId
    BY <1>2, <2>6
  <2>9. f[MaxId] = CellId
    BY <1>0, <2>3, <2>4, <2>6, <2>7, <2>8, FS_Subset
  <2> QED BY <2>1, <2>9 DEF Grow
<1>5. MaxId \in 0 .. MaxId
  BY <1>0
<1> QED BY <1>1, <1>2, <1>4, <1>5 DEF Grow

\* Whatever holds of the first cells, and of those a step along from a cell that it
\* holds of, holds of all that are reached.
LEMMA ReachedLeast ==
  ASSUME NEW S, NEW along, NEW T, S \subseteq T, \A c \in T : along[c] \subseteq T
  PROVE  Reached(S, along) \subseteq T
<1> DEFINE f == Layers(S, along, MaxId)
<1>0. MaxId \in Nat
  BY NetlistAssumption
<1>1. /\ Reached(S, along) = f[MaxId] /\ f[0] = S
      /\ \A k \in 0 .. MaxId : k # 0 => f[k] = Grow(along, f[k - 1])
  BY ReachedLayers
<1> HIDE DEF f
<1> DEFINE U == {k \in Nat : k <= MaxId /\ ~(f[k] \subseteq T)}
<1>2. U = {}
  <2>1. SUFFICES ASSUME U # {} PROVE FALSE
    OBVIOUS
  <2>2. PICK k \in U : \A j \in U : k <= j
    BY <1>0, <2>1, LeastNumber
  <2>3. k \in 0 .. MaxId /\ k # 0
    BY <1>1, <2>2
  <2>4. k - 1 \in 0 .. MaxId /\ k - 1 \notin U
    BY <1>0, <2>2, <2>3
  <2>5. f[k - 1] \subseteq T
    BY <2>4
  <2> QED BY <1>1, <2>2, <2>3, <2>5 DEF Grow
<1> QED BY <1>0, <1>1, <1>2

-----------------------------------------------------------------------------
(* The inductive invariant.                                                  *)

NoMemory == [c \in CellId |-> [a \in Addr |-> X]]

\* What definition n is to the original o: cells may be missing; those left have their
\* types and are wired to cells with the values they are to read.
KeptFrom(n, o) ==
  /\ \A c \in Cells(n) : n.type[c] = o.type[c]
  /\ n.portCells \subseteq o.portCells

ReadsTheSame(n, o) ==
  \A in \in [Inputs(o) -> Val], r \in [Registers(o) -> Val] : \A b \in InBits(n) :
    Wires(o, in, r, NoMemory)[n.drivers[b].cell] = Wires(o, in, r, NoMemory)[o.drivers[b].cell]

Sound(n, o) ==
  /\ WellFormed(n) /\ FullyDriven(n) /\ Acyclic(n) /\ PortsAreMarked(n)
  /\ KeptFrom(n, o) /\ ReadsTheSame(n, o)

\* What is left to do is what the loop found, but for gates deleted since.
WorkIsFound ==
  /\ pass \in {"passthroughs", "zexts"} =>
       \A w \in todo : w[2] \in Cells(def) /\ Tp(def, w[2]) \in {"PASSTHROUGH", "ZEXT"}
  /\ pass = "zeros" => \A w \in todo : {w[1], w[2]} \subseteq Zeros(def) /\ w[1] # w[2]
  /\ pass = "duplicates" => \A w \in todo : w[1] # w[2]
  /\ pass \notin {"passthroughs", "zexts", "zeros", "duplicates"} => todo = {}

Pass == {"none", "passthroughs", "zexts", "zeros", "duplicates", "dead", "isolated", "unreached",
         "dead deleted", "left over"}

CInv ==
  /\ orig \in Circuits /\ Sound(def, orig) /\ WorkIsFound
  /\ todo \subseteq CellId \X CellId /\ pass \in Pass

-----------------------------------------------------------------------------
(* Wires of a definition without undriven inputs, one bit wide.              *)

\* An input bit is among the receivers of the output of a cell, and each of the two
\* cells is connected to the other.
LEMMA BitIsDriven ==
  ASSUME NEW n, WellFormed(n), FullyDriven(n), NEW b \in InBits(n)
  PROVE  LET d == n.drivers[b]
         IN  /\ d \in OutBits(n) /\ d.cell \in Cells(n) /\ d = PinOf(d.cell, d.port)
             /\ b \in Bit /\ b.cell \in Cells(n)
             /\ b \in n.receivers[d]
             /\ b.cell \in CellReceivers(n, d.cell) /\ d.cell \in CellDrivers(n, b.cell)
<1>1. b \in CellIns(n, b.cell)
  BY DEF CellIns
<1> QED BY <1>1, InputIsReceived DEF CellReceivers, CellDrivers

\* The other way round.
LEMMA ReceiverIsDriven ==
  ASSUME NEW n, WellFormed(n), NEW c \in CellId, NEW e \in CellReceivers(n, c)
  PROVE  \E r \in CellIns(n, e) : n.drivers[r].cell = c
<1>1. PICK r \in OutReceivers(n, c) : r.cell = e
  BY DEF CellReceivers
<1>2. PICK p \in OutPort : r \in n.receivers[PinOf(c, p)]
  BY <1>1 DEF OutReceivers
<1>3. PinOf(c, p) \in Bit
  BY NetlistAssumption DEF PinOf, Bit, OutPort, Offset
<1>4. r \in InBits(n) /\ r \in Bit
  BY <1>2, <1>3 DEF WellFormed, WiresExistIn, InBits
<1>5. n.drivers[r] = PinOf(c, p)
  BY <1>2, <1>3, <1>4 DEF WellFormed, EndsAgreeIn
<1> QED BY <1>1, <1>4, <1>5 DEF CellIns, PinOf

-----------------------------------------------------------------------------
(* The values the original definition gives the outputs are those of what is *)
(* left of it.                                                               *)

LEMMA KeptValues ==
  ASSUME Removable, NEW o \in Circuits, NEW n, Sound(n, o),
         NEW in \in [Inputs(o) -> Val], NEW r \in [Registers(o) -> Val]
  PROVE  Agree(n, in, r, NoMemory, Wires(o, in, r, NoMemory), Cells(n))
<1> DEFINE v == Wires(o, in, r, NoMemory)
<1>1. WellFormed(o) /\ FullyDriven(o) /\ Acyclic(o)
  BY CleanupAssumption DEF Removable
<1>2. WellFormed(n) /\ FullyDriven(n) /\ KeptFrom(n, o) /\ ReadsTheSame(n, o)
  BY DEF Sound
<1>3. Agree(o, in, r, NoMemory, v, CellId)
  BY <1>1, WiresSolve
<1> HIDE DEF v
<1>4. ASSUME NEW c \in Cells(n)
      PROVE  v[c] = WireValue(n, in, r, NoMemory, v, c)
  <2>1. c \in CellId /\ c \in Cells(o) /\ n.type[c] = o.type[c]
    BY <1>2 DEF KeptFrom, Cells
  <2>2. /\ c \in Evaluated(n) <=> c \in Evaluated(o)
        /\ c \in Inputs(n) <=> c \in Inputs(o)
        /\ c \in Registers(n) <=> c \in Registers(o)
        /\ InitialValue(n, c) = InitialValue(o, c)
    BY <2>1 DEF Evaluated, Inputs, Registers, Memories, InitialValue, Tp
  <2>3. v[c] = WireValue(o, in, r, NoMemory, v, c)
    BY <1>3, <2>1 DEF Agree
  <2>4. CASE c \in Evaluated(n)
    <3>1. Tp(n, c) \in CombTypes /\ Tp(o, c) = Tp(n, c)
      BY <1>2, <2>1, <2>4, EvaluatedTypes DEF WellFormed, Tp
    <3>2. ASSUME NEW p \in Reads(Tp(n, c))
          PROVE  In(n, v, c, p) = In(o, v, c, p)
      <4>1. PinOf(c, p) \in InBits(n)
        BY <1>2, <2>4, ReadsCells
      <4> QED BY <1>2, <4>1 DEF ReadsTheSame, In, Driver, v
    <3>3. Eval(n, v, NoMemory, c) = Eval(o, v, NoMemory, c)
      BY <3>1, <3>2, SameEval
    <3> QED BY <2>2, <2>3, <2>4, <3>3 DEF WireValue
  <2>5. CASE c \notin Evaluated(n)
    BY <2>2, <2>3, <2>5 DEF WireValue
  <2> QED BY <2>4, <2>5
<1> QED BY <1>4 DEF Agree, v

-----------------------------------------------------------------------------
(* A bypass: the receivers of a cell are given to one with the same value.   *)

\* No cycle comes about if the new driver is not combinational, or is read by the old one,
\* or reads nothing but what the old one reads.
LEMMA RewiredAcyclic ==
  ASSUME NEW n, WellFormed(n), FullyDriven(n), Acyclic(n), NEW m, m.type = n.type,
         NEW c \in Cells(n), NEW a \in Cells(n),
         \A b \in InBits(n) : m.drivers[b].cell = IF n.drivers[b].cell = c THEN a
                                                  ELSE n.drivers[b].cell,
         \/ a \notin Evaluated(n)
         \/ /\ c \in Evaluated(n)
            /\ \/ \E p \in Reads(Tp(n, c)) : Driver(n, c, p) = a
               \/ \A p \in Reads(Tp(n, a)) : \E q \in Reads(Tp(n, c)) : Driver(n, a, p) = Driver(n, c, q)
  PROVE  Acyclic(m)
<1>1. Evaluated(m) = Evaluated(n) /\ \A x : Tp(m, x) = Tp(n, x)
  BY SameTypeSameBits DEF Evaluated, Inputs, Registers, Tp
<1>2. \A x \in Evaluated(n) : \A p \in Reads(Tp(n, x)) :
        Driver(m, x, p) = IF Driver(n, x, p) = c THEN a ELSE Driver(n, x, p)
  BY ReadsCells DEF Driver
<1> SUFFICES ASSUME NEW S \in SUBSET Evaluated(n), S # {}
             PROVE  \E x \in S : \A p \in Reads(Tp(n, x)) : Driver(m, x, p) \notin S
  BY <1>1 DEF Acyclic
<1>3. CASE a \notin S
  <2>1. PICK x \in S : \A p \in Reads(Tp(n, x)) : Driver(n, x, p) \notin S
    BY DEF Acyclic
  <2> QED BY <1>2, <1>3, <2>1
<1>4. CASE a \in S
  <2> DEFINE U == S \cup {c}
  <2>1. U \in SUBSET Evaluated(n) /\ U # {}
    BY <1>4
  <2>2. PICK x \in U : \A p \in Reads(Tp(n, x)) : Driver(n, x, p) \notin U
    BY <2>1 DEF Acyclic
  <2>3. CASE x \in S
    BY <1>2, <2>2, <2>3
  <2>4. CASE x = c
    <3>1. \A p \in Reads(Tp(n, a)) : \E q \in Reads(Tp(n, c)) : Driver(n, a, p) = Driver(n, c, q)
      BY <1>4, <2>2, <2>4
    <3>2. \A p \in Reads(Tp(n, a)) : Driver(n, a, p) \notin U
      BY <2>2, <2>4, <3>1
    <3> QED BY <1>2, <1>4, <3>2
  <2> QED BY <2>2, <2>3, <2>4
<1> QED BY <1>3, <1>4

\* Two cells that always have the same value in the original definition.
SameValue(o, a, c) ==
  \A in \in [Inputs(o) -> Val], r \in [Registers(o) -> Val] :
    Wires(o, in, r, NoMemory)[a] = Wires(o, in, r, NoMemory)[c]

LEMMA RewireSound ==
  ASSUME NEW o, NEW n, Sound(n, o), NEW c \in Cells(n),
         Tp(n, c) \in {"PASSTHROUGH", "ZEXT", "CONST"} \cup Binary, NEW with,
         with[0] \in OutBits(n), with[0].cell # c, SameValue(o, with[0].cell, c),
         LET a == with[0].cell
         IN  \/ a \notin Evaluated(n)
             \/ /\ c \in Evaluated(n)
                /\ \/ \E p \in Reads(Tp(n, c)) : Driver(n, c, p) = a
                   \/ \A p \in Reads(Tp(n, a)) :
                        \E q \in Reads(Tp(n, c)) : Driver(n, a, p) = Driver(n, c, q)
  PROVE  LET m == MoveReceivers(n, c, "OUT", with)
         IN  /\ Sound(m, o) /\ m.type = n.type /\ m.portCells = n.portCells
             /\ Bypass(n, c, with) = m
             /\ \A b \in InBits(m) : m.drivers[b].cell # c
<1> DEFINE m == MoveReceivers(n, c, "OUT", with)
           a == with[0].cell
<1>0. /\ WellFormed(n) /\ FullyDriven(n) /\ Acyclic(n) /\ PortsAreMarked(n)
      /\ KeptFrom(n, o) /\ ReadsTheSame(n, o) /\ n \in Net /\ c \in CellId
  BY DEF Sound, WellFormed, Cells
<1>1. a \in Cells(n) /\ with[0] \in Bit /\ with[0] # NoBit
  BY <1>0, NoCellNoBits, NoBitIsNoBit DEF Cells
<1>2. \A b \in InBits(n) : n.drivers[b].cell = c <=> b \in Receivers(n, c, "OUT")
  <2> SUFFICES ASSUME NEW b \in InBits(n)
               PROVE  n.drivers[b].cell = c <=> b \in Receivers(n, c, "OUT")
    OBVIOUS
  <2>1. /\ n.drivers[b] \in OutBits(n) /\ b \in n.receivers[n.drivers[b]] /\ b \in Bit
    BY <1>0, BitIsDriven
  <2>2. Tp(n, c) # "MEM"
    BY DEF Binary, Comparator
  <2>3. ASSUME n.drivers[b].cell = c PROVE n.drivers[b] \in PortOuts(n, c, "OUT")
    <3>1. n.drivers[b] = PinOf(c, "OUT")
      BY <1>0, <2>1, <2>2, <2>3, SingleOutput
    <3> QED BY <2>1, <3>1 DEF PortOuts, PinOf
  <2>4. b \in Receivers(n, c, "OUT") => n.drivers[b].cell = c
    BY <1>0, <2>1 DEF Receivers, PortOuts, OutBits, WellFormed, EndsAgreeIn
  <2> QED BY <2>1, <2>3, <2>4 DEF Receivers
<1>3. "OUT" \in OutPort
  <2>1. n.type[c] \in Kind
    BY <1>0, NetFields DEF Cells
  <2>2. "OUT" \in DOMAIN PortWidths(n.type[c])
    BY DEF Tp, Binary, PortWidths, Comparator, Binop, ReduceOp, Unop
  <2> QED BY <2>1, <2>2 DEF OutPort, Port
<1>4. \A d \in PortOuts(n, c, "OUT") : d.offset = 0
  BY SemanticsAssumption DEF PortOuts, OutBits, Bit, Offset
<1>5. /\ WellFormed(m) /\ m.type = n.type /\ m.portCells = n.portCells
      /\ \A b \in Bit : m.drivers[b] = IF b \in Receivers(n, c, "OUT")
                                       THEN with[n.drivers[b].offset] ELSE n.drivers[b]
  BY <1>0, <1>3, <1>4, MoveReceiversWellFormed
<1> HIDE DEF m
<1>6. InBits(m) = InBits(n) /\ OutBits(m) = OutBits(n) /\ Cells(m) = Cells(n)
  BY <1>5, SameTypeSameBits
<1>7. \A b \in InBits(n) : m.drivers[b] = IF n.drivers[b].cell = c THEN with[0]
                                          ELSE n.drivers[b]
  <2> SUFFICES ASSUME NEW b \in InBits(n)
               PROVE  m.drivers[b] = IF n.drivers[b].cell = c THEN with[0] ELSE n.drivers[b]
    OBVIOUS
  <2>1. b \in Bit /\ n.drivers[b] \in OutBits(n)
    BY <1>0, BitIsDriven
  <2>2. n.drivers[b].offset = 0
    BY <2>1, SemanticsAssumption DEF OutBits, Bit, Offset
  <2> QED BY <1>2, <1>5, <2>1, <2>2
<1>8. FullyDriven(m)
  BY <1>0, <1>1, <1>6, <1>7 DEF FullyDriven
<1>9. Acyclic(m)
  BY <1>0, <1>1, <1>5, <1>7, RewiredAcyclic
<1>10. PortsAreMarked(m) /\ KeptFrom(m, o)
  BY <1>0, <1>5, <1>6 DEF PortsAreMarked, KeptFrom, Tp
<1>11. ReadsTheSame(m, o)
  BY <1>0, <1>6, <1>7 DEF ReadsTheSame, SameValue
<1>12. Sound(m, o)
  BY <1>5, <1>8, <1>9, <1>10, <1>11 DEF Sound
<1>13. \A b \in InBits(m) : m.drivers[b].cell # c
  BY <1>6, <1>7
<1>14. Receivers(m, c, "OUT") = {}
  BY <1>5, <1>13 DEF Receivers, PortOuts, OutBits, WellFormed, EndsAgreeIn, WiresExistIn, InBits
<1>15. ClearReceivers(m, c, "OUT") = m
  BY <1>5, <1>14, ClearNoReceivers
<1> QED BY <1>5, <1>12, <1>13, <1>15 DEF Bypass, m

-----------------------------------------------------------------------------
(* A deletion: of cells that drive nothing that is left.                     *)

\* Definition m is n without the cells of S.
Without(m, n, S) ==
  /\ m.type = [c \in CellId |-> IF c \in S THEN NoType ELSE n.type[c]]
  /\ m.portCells = n.portCells
  /\ \A b \in InBits(n) : b.cell \notin S => m.drivers[b] = n.drivers[b]

LEMMA DropSound ==
  ASSUME NEW o, NEW n, Sound(n, o), NEW S \in SUBSET CellId, NEW m, WellFormed(m),
         Without(m, n, S)
  PROVE  Sound(m, o)
<1>0. /\ WellFormed(n) /\ FullyDriven(n) /\ Acyclic(n) /\ PortsAreMarked(n)
      /\ KeptFrom(n, o) /\ ReadsTheSame(n, o) /\ n \in Net
  BY DEF Sound, WellFormed
<1>1. /\ Cells(m) = Cells(n) \ S
      /\ \A b \in InBits(m) : b \in InBits(n) /\ b.cell \notin S
  BY <1>0, SurvivingBits DEF InBits, Without
<1>2. /\ \A c \in Cells(m) : m.type[c] = n.type[c] /\ Tp(m, c) = Tp(n, c)
      /\ m.portCells = n.portCells
      /\ \A b \in InBits(n) : b.cell \notin S => m.drivers[b] = n.drivers[b]
  BY <1>1 DEF Cells, Tp, Without
<1>3. FullyDriven(m)
  BY <1>0, <1>1, <1>2 DEF FullyDriven
<1>4. Acyclic(m)
  <2>1. Evaluated(m) \subseteq Evaluated(n) \cap Cells(m)
    BY <1>1, <1>2 DEF Evaluated, Inputs, Registers, Tp
  <2>2. \A c \in Evaluated(m) : \A p \in Reads(Tp(n, c)) : Driver(m, c, p) = Driver(n, c, p)
    BY <1>0, <1>1, <1>2, <2>1, ReadsCells DEF Driver, PinOf
  <2> SUFFICES ASSUME NEW U \in SUBSET Evaluated(m), U # {}
               PROVE  \E c \in U : \A p \in Reads(Tp(m, c)) : Driver(m, c, p) \notin U
    BY DEF Acyclic
  <2>3. PICK c \in U : \A p \in Reads(Tp(n, c)) : Driver(n, c, p) \notin U
    BY <1>0, <2>1 DEF Acyclic
  <2> QED BY <1>2, <2>1, <2>2, <2>3
<1>5. PortsAreMarked(m)
  BY <1>0, <1>2 DEF PortsAreMarked, WellFormed, CellsNumbered
<1>6. KeptFrom(m, o)
  BY <1>0, <1>1, <1>2 DEF KeptFrom
<1>7. ReadsTheSame(m, o)
  BY <1>0, <1>1, <1>2 DEF ReadsTheSame
<1> QED BY <1>3, <1>4, <1>5, <1>6, <1>7 DEF Sound

LEMMA BulkDeleteSound ==
  ASSUME NEW o, NEW n, Sound(n, o), NEW S \in SUBSET (Cells(n) \ n.portCells),
         \A b \in InBits(n) : b.cell \notin S => n.drivers[b].cell \notin S
  PROVE  /\ Sound(BulkDelete(n, S), o)
         /\ Without(BulkDelete(n, S), n, S)
<1> DEFINE m == BulkDelete(n, S)
<1>0. WellFormed(n) /\ FullyDriven(n) /\ n \in Net /\ S \in SUBSET CellId
  BY DEF Sound, WellFormed, Cells
<1>1. WellFormed(m)
  BY <1>0, BulkDeleteWellFormed
<1>2. /\ m.portCells = n.portCells
      /\ m.type = [c \in CellId |-> IF c \in S THEN NoType ELSE n.type[c]]
      /\ \A b \in Bit : b.cell \in Cells(n) \ S /\ n.drivers[b].cell \in Cells(n) \ S =>
            m.drivers[b] = n.drivers[b]
  BY <1>0, NetFields DEF BulkDelete
<1> HIDE DEF m
<1>3. \A b \in InBits(n) : b.cell \notin S => m.drivers[b] = n.drivers[b]
  BY <1>0, <1>2, BitIsDriven
<1>4. Without(m, n, S)
  BY <1>2, <1>3 DEF Without
<1>5. Sound(m, o)
  BY <1>0, <1>1, <1>4, DropSound
<1> QED BY <1>4, <1>5 DEF m

LEMMA DeleteCellSound ==
  ASSUME NEW o, NEW n, Sound(n, o), NEW c \in Cells(n) \ n.portCells,
         \A b \in InBits(n) : n.drivers[b].cell # c
  PROVE  Sound(DeleteCell(n, c), o)
<1> DEFINE m == DeleteCell(n, c)
<1>0. WellFormed(n) /\ FullyDriven(n) /\ n \in Net /\ c \in CellId
  BY DEF Sound, WellFormed, Cells
<1>1. WellFormed(m)
  BY <1>0, DeleteCellWellFormed
<1>2. /\ m.portCells = n.portCells
      /\ m.type = [n.type EXCEPT ![c] = NoType]
      /\ m.drivers = [b \in Bit |->
                        IF b.cell = c \/ \E d \in CellOuts(n, c) : b \in n.receivers[d]
                        THEN NoBit ELSE n.drivers[b]]
  BY <1>0, NetFields DEF DeleteCell
<1>3. m.type = [e \in CellId |-> IF e \in {c} THEN NoType ELSE n.type[e]]
  BY <1>0, <1>2, NetFields
<1> HIDE DEF m
<1>4. ASSUME NEW b \in InBits(n), b.cell \notin {c}
      PROVE  m.drivers[b] = n.drivers[b]
  <2>1. b \in Bit /\ n.drivers[b].cell # c
    BY DEF InBits
  <2>2. \A d \in CellOuts(n, c) : b \notin n.receivers[d]
    BY <1>0, <2>1 DEF WellFormed, EndsAgreeIn, CellOuts, OutBits
  <2> QED BY <1>2, <1>4, <2>1, <2>2
<1>5. Sound(m, o)
  <2>1. Without(m, n, {c})
    BY <1>2, <1>3, <1>4 DEF Without
  <2> QED BY <1>0, <1>1, <2>1, DropSound
<1> QED BY <1>5 DEF m

-----------------------------------------------------------------------------
(* The steps.                                                                *)

LEMMA InitCInv == Removable /\ Init => CInv
<1> SUFFICES ASSUME Removable, Init PROVE CInv
  OBVIOUS
<1>1. WellFormed(orig) /\ FullyDriven(orig) /\ orig \in Circuits
  BY CleanupAssumption DEF Init
<1>2. Sound(orig, orig)
  BY <1>1 DEF Removable, Sound, KeptFrom, ReadsTheSame
<1> QED BY <1>1, <1>2 DEF Init, CInv, WorkIsFound, Pass

\* The loops go through their pairs in order, each to the last.
LEMMA FirstIsLeft == ASSUME todo \subseteq CellId \X CellId, todo # {} PROVE FirstPair \in todo
<1> DEFINE A == {w[1] : w \in todo}
<1>1. A \in SUBSET Nat /\ A # {}
  BY DEF CellId
<1>2. PICK x \in A : \A y \in A : x <= y
  BY <1>1, LeastNumber
<1> DEFINE B == {w[2] : w \in {u \in todo : u[1] = x}}
<1>3. B \in SUBSET Nat /\ B # {}
  BY <1>2 DEF CellId
<1>4. PICK z \in B : \A y \in B : z <= y
  BY <1>3, LeastNumber
<1>5. PICK w \in todo : w[1] = x /\ w[2] = z
  BY <1>4
<1>6. \A u \in todo : w[1] < u[1] \/ (w[1] = u[1] /\ w[2] <= u[2])
  <2> SUFFICES ASSUME NEW u \in todo PROVE w[1] < u[1] \/ (w[1] = u[1] /\ w[2] <= u[2])
    OBVIOUS
  <2>1. w[1] <= u[1] /\ w[1] \in Nat /\ u[1] \in Nat
    BY <1>2, <1>5, <1>1
  <2>2. w[1] = u[1] => w[2] <= u[2]
    BY <1>4, <1>5
  <2> QED BY <2>1, <2>2
<1> QED BY <1>5, <1>6 DEF FirstPair

LEMMA BeginCInv == ASSUME CInv, NEW p \in {"passthroughs", "zexts", "zeros", "duplicates", "dead"},
                          Begin(p)
                   PROVE  CInv'
<1>1. def' = def /\ orig' = orig /\ pass' = p /\ todo' = Work(def, p) /\ p \in Pass
  BY DEF Begin, Pass
<1>2. OfType(def, "PASSTHROUGH") \subseteq CellId /\ OfType(def, "ZEXT") \subseteq CellId
      /\ Zeros(def) \subseteq CellId /\ Cells(def) \subseteq CellId
  BY DEF OfType, Zeros, Cells
<1>3. CASE p \in {"passthroughs", "zexts"}
  BY <1>1, <1>2, <1>3 DEF CInv, WorkIsFound, Work, OfType
<1>4. CASE p = "zeros"
  <2>1. todo' = {w \in Zeros(def) \X Zeros(def) : w[2] < w[1] /\ \A z \in Zeros(def) : z <= w[1]}
    BY <1>1, <1>4 DEF Work
  <2>2. todo' \subseteq CellId \X CellId
    BY <1>2, <2>1
  <2>3. \A w \in todo' : {w[1], w[2]} \subseteq Zeros(def) /\ w[1] # w[2]
    BY <1>2, <2>1 DEF CellId
  <2> QED BY <1>1, <1>4, <2>2, <2>3 DEF CInv, WorkIsFound
<1>5. CASE p = "duplicates"
  <2>1. todo' = {w \in Cells(def) \X Cells(def) : w[1] < w[2] /\ Tp(def, w[1]) = Tp(def, w[2])
                                                   /\ Tp(def, w[1]) \in Binop}
    BY <1>1, <1>5 DEF Work
  <2>2. todo' \subseteq CellId \X CellId /\ \A w \in todo' : w[1] # w[2]
    BY <1>2, <2>1 DEF CellId
  <2> QED BY <1>1, <1>5, <2>2 DEF CInv, WorkIsFound
<1>6. CASE p = "dead"
  BY <1>1, <1>6 DEF CInv, WorkIsFound, Work
<1> QED BY <1>3, <1>4, <1>5, <1>6

LEMMA EndCInv == CInv /\ End => CInv'
BY DEF CInv, End, WorkIsFound, Pass

\* A cell that passes its input on has the value it reads.
LEMMA PassesOn ==
  ASSUME Removable, NEW o \in Circuits, NEW n, Sound(n, o), NEW c \in Cells(n),
         Tp(n, c) \in {"PASSTHROUGH", "ZEXT"}
  PROVE  /\ c \in Evaluated(n) /\ Reads(Tp(n, c)) = {"IN"}
         /\ SameValue(o, Driver(n, c, "IN"), c)
<1>1. c \in Evaluated(n) /\ Reads(Tp(n, c)) = {"IN"}
  BY DEF Evaluated, Inputs, Registers, Reads, Binary, Comparator
<1>2. ASSUME NEW in \in [Inputs(o) -> Val], NEW r \in [Registers(o) -> Val]
      PROVE  Wires(o, in, r, NoMemory)[Driver(n, c, "IN")] = Wires(o, in, r, NoMemory)[c]
  <2> DEFINE v == Wires(o, in, r, NoMemory)
  <2>1. v[c] = WireValue(n, in, r, NoMemory, v, c)
    BY KeptValues DEF Agree
  <2> HIDE DEF v
  <2>2. v[c] = Eval(n, v, NoMemory, c)
    BY <1>1, <2>1 DEF WireValue
  <2>3. Eval(n, v, NoMemory, c) = In(n, v, c, "IN")
    BY DEF Eval
  <2> QED BY <2>2, <2>3 DEF In, v
<1> QED BY <1>1, <1>2 DEF SameValue

LEMMA ElideCInv == Removable /\ CInv /\ Elide => CInv'
<1> SUFFICES ASSUME Removable, CInv, Elide PROVE CInv'
  OBVIOUS
<1> DEFINE c == FirstPair[2]
           b == PinOf(c, "IN")
           with == [x \in Offset |-> def.drivers[[cell |-> c, port |-> "IN", offset |-> x]]]
           m == MoveReceivers(def, c, "OUT", with)
<1>1. /\ Sound(def, orig) /\ orig \in Circuits /\ FirstPair \in todo
      /\ c \in Cells(def) /\ Tp(def, c) \in {"PASSTHROUGH", "ZEXT"}
      /\ WellFormed(def) /\ FullyDriven(def) /\ Acyclic(def)
  BY FirstIsLeft DEF Elide, CInv, WorkIsFound, Sound
<1>2. /\ c \in Evaluated(def) /\ Reads(Tp(def, c)) = {"IN"}
      /\ SameValue(orig, Driver(def, c, "IN"), c)
  BY <1>1, PassesOn
<1>3. b \in InBits(def)
  BY <1>1, <1>2, ReadsCells
<1>4. with[0] = def.drivers[b]
  BY NetlistAssumption DEF Offset, PinOf
<1> HIDE DEF with
<1>5. with[0] \in OutBits(def) /\ with[0].cell = Driver(def, c, "IN")
  BY <1>1, <1>3, <1>4, BitIsDriven DEF Driver
<1>6. with[0].cell # c
  <2>1. {c} \in SUBSET Evaluated(def)
    BY <1>2
  <2> QED BY <1>1, <1>2, <1>5, <2>1 DEF Acyclic
<1> HIDE DEF c
<1>7. Sound(m, orig) /\ m.type = def.type /\ Bypass(def, c, with) = m
  BY <1>1, <1>2, <1>5, <1>6, RewireSound
<1> HIDE DEF m
<1>8. def' = m /\ orig' = orig /\ pass' = pass /\ todo' \subseteq todo
  BY <1>7 DEF Elide, c, with
<1> QED BY <1>7, <1>8, SameTypeSameBits DEF CInv, WorkIsFound, Elide, Tp

LEMMA MergeZerosCInv == Removable /\ CInv /\ MergeZeros => CInv'
<1> SUFFICES ASSUME Removable, CInv, MergeZeros PROVE CInv'
  OBVIOUS
<1> DEFINE c == FirstPair[2]
           a == FirstPair[1]
           with == Bus(a, "OUT")
           m == MoveReceivers(def, c, "OUT", with)
<1>1. /\ Sound(def, orig) /\ orig \in Circuits /\ FirstPair \in todo
      /\ c \in Zeros(def) /\ a \in Zeros(def) /\ a # c
      /\ WellFormed(def) /\ def \in Net
  BY FirstIsLeft DEF MergeZeros, CInv, WorkIsFound, Sound, WellFormed
<1>2. with[0] = PinOf(a, "OUT")
  BY NetlistAssumption DEF Bus, Offset, PinOf
<1> HIDE DEF a, c, with
<1>3. /\ c \in Cells(def) /\ Tp(def, c) = "CONST" /\ a \in Cells(def) /\ Tp(def, a) = "CONST"
      /\ def.type[c].init[1] = 0 /\ def.type[a].init[1] = 0
  BY <1>1 DEF Zeros, OfType
<1>4. with[0] \in OutBits(def)
  <2>1. a \in CellId /\ def.type[a] \in Kind /\ def.type[a] # NoType /\ def.type[a].tp = "CONST"
    BY <1>1, <1>3, NetFields DEF Cells, Tp
  <2>2. "OUT" \in DOMAIN PortWidths(def.type[a])
    BY <2>1 DEF PortWidths, Comparator, Binop, ReduceOp, Unop
  <2>3. "OUT" \in OutPort /\ "OUT" \in Port /\ Width(def.type[a], "OUT") = 1
    BY <2>1, <2>2, SemanticsAssumption DEF OutPort, Port, Width
  <2> QED BY <1>2, <2>1, <2>3, NetlistAssumption DEF PinOf, OutBits, Bit, Offset
<1>5. with[0].cell = a /\ a \notin Evaluated(def)
  BY <1>2, <1>3 DEF PinOf, Evaluated
<1>6. SameValue(orig, a, c)
  <2> SUFFICES ASSUME NEW in \in [Inputs(orig) -> Val], NEW r \in [Registers(orig) -> Val]
               PROVE  Wires(orig, in, r, NoMemory)[a] = Wires(orig, in, r, NoMemory)[c]
    BY DEF SameValue
  <2> DEFINE v == Wires(orig, in, r, NoMemory)
  <2>1. \A x \in Cells(def) : v[x] = WireValue(def, in, r, NoMemory, v, x)
    BY <1>1, KeptValues DEF Agree
  <2> HIDE DEF v
  <2>2. ASSUME NEW x \in Cells(def), Tp(def, x) = "CONST", def.type[x].init[1] = 0
        PROVE  v[x] = 0
    BY <2>1, <2>2 DEF WireValue, Evaluated, Inputs, Registers, InitialValue, Memories
  <2> QED BY <1>3, <2>2 DEF v
<1>7. Sound(m, orig) /\ m.type = def.type /\ Bypass(def, c, with) = m
  BY <1>1, <1>3, <1>4, <1>5, <1>6, RewireSound
<1> HIDE DEF m
<1>8. def' = m /\ orig' = orig /\ pass' = pass /\ todo' \subseteq todo
  BY <1>7 DEF MergeZeros, c, a, with
<1> QED BY <1>7, <1>8, SameTypeSameBits DEF CInv, WorkIsFound, MergeZeros, Tp, Zeros, OfType

\* Two gates of one type with the same inputs compute the same.
LEMMA DuplicatesSame ==
  ASSUME Removable, NEW o \in Circuits, NEW n, Sound(n, o), NEW a, NEW b, Duplicates(n, a, b)
  PROVE  /\ a \in Evaluated(n) /\ b \in Evaluated(n) /\ Tp(n, b) \in Binary
         /\ Reads(Tp(n, a)) = Reads(Tp(n, b))
         /\ \A p \in Reads(Tp(n, a)) : Driver(n, a, p) = Driver(n, b, p)
         /\ SameValue(o, a, b)
<1>1. /\ a \in Cells(n) /\ b \in Cells(n) /\ Tp(n, a) = Tp(n, b) /\ Tp(n, a) \in Binop
      /\ Driver(n, a, "IN0") = Driver(n, b, "IN0") /\ Driver(n, a, "IN1") = Driver(n, b, "IN1")
  BY DEF Duplicates, SameDrivers, Driver
<1>2. Tp(n, a) \in Binary
  <2>1. n.type[a] \in Kind
    BY <1>1, NetFields DEF Sound, WellFormed, Cells
  <2> QED BY <1>1, <2>1, SemanticsAssumption DEF Tp, Simulated, Unary, Binop, Binary, Comparator
<1>3. a \in Evaluated(n) /\ b \in Evaluated(n)
  BY <1>1, <1>2 DEF Evaluated, Inputs, Registers, Binary, Comparator
<1>4. Reads(Tp(n, a)) = {"IN0", "IN1"}
  BY <1>2 DEF Reads
<1>5. SameValue(o, a, b)
  <2> SUFFICES ASSUME NEW in \in [Inputs(o) -> Val], NEW r \in [Registers(o) -> Val]
               PROVE  Wires(o, in, r, NoMemory)[a] = Wires(o, in, r, NoMemory)[b]
    BY DEF SameValue
  <2> DEFINE v == Wires(o, in, r, NoMemory)
  <2>1. \A x \in Cells(n) : v[x] = WireValue(n, in, r, NoMemory, v, x)
    BY KeptValues DEF Agree
  <2> HIDE DEF v
  <2>2. v[a] = Eval(n, v, NoMemory, a) /\ v[b] = Eval(n, v, NoMemory, b)
    BY <1>1, <1>3, <2>1 DEF WireValue
  <2>3. In(n, v, a, "IN0") = In(n, v, b, "IN0") /\ In(n, v, a, "IN1") = In(n, v, b, "IN1")
    BY <1>1 DEF In
  <2>4. Eval(n, v, NoMemory, a) = Eval(n, v, NoMemory, b)
    BY <1>1, <1>2, <2>3 DEF Eval, Binary, Comparator
  <2> QED BY <2>2, <2>4 DEF v
<1> QED BY <1>1, <1>2, <1>3, <1>4, <1>5

LEMMA DeDuplicateCInv == Removable /\ CInv /\ DeDuplicate => CInv'
<1> SUFFICES ASSUME Removable, CInv, DeDuplicate PROVE CInv'
  OBVIOUS
<1> DEFINE a == FirstPair[1]
           b == FirstPair[2]
           with == Bus(a, "OUT")
           m == MoveReceivers(def, b, "OUT", with)
<1>1. /\ Sound(def, orig) /\ orig \in Circuits /\ FirstPair \in todo /\ a # b
      /\ WellFormed(def) /\ def \in Net /\ PortsAreMarked(def)
  BY FirstIsLeft DEF DeDuplicate, CInv, WorkIsFound, Sound, WellFormed
<1>2. with[0] = PinOf(a, "OUT")
  BY NetlistAssumption DEF Bus, Offset, PinOf
<1>3. /\ def' = IF Duplicates(def, a, b) THEN DeleteCell(m, b) ELSE def
      /\ orig' = orig /\ pass' = pass /\ pass = "duplicates" /\ todo' \subseteq todo
  BY DEF DeDuplicate
<1> HIDE DEF a, b, with
<1>4. ASSUME Duplicates(def, a, b)
      PROVE  Sound(DeleteCell(m, b), orig)
  <2>1. /\ a \in Evaluated(def) /\ b \in Evaluated(def) /\ Tp(def, b) \in Binary
        /\ Reads(Tp(def, a)) = Reads(Tp(def, b))
        /\ \A p \in Reads(Tp(def, a)) : Driver(def, a, p) = Driver(def, b, p)
        /\ SameValue(orig, a, b)
    BY <1>1, <1>4, DuplicatesSame
  <2>2. /\ a \in Cells(def) /\ b \in Cells(def) /\ Tp(def, a) = Tp(def, b)
        /\ a \in CellId /\ def.type[a] \in Kind /\ def.type[a] # NoType
    BY <1>1, <1>4, NetFields DEF Duplicates, Cells
  <2>3. with[0] \in OutBits(def) /\ with[0].cell = a
    <3>1. "OUT" \in DOMAIN PortWidths(def.type[a])
      BY <2>1, <2>2 DEF PortWidths, Comparator, Binop, ReduceOp, Unop, Binary, Tp
    <3>2. "OUT" \in OutPort /\ "OUT" \in Port /\ Width(def.type[a], "OUT") = 1
      BY <2>2, <3>1, SemanticsAssumption DEF OutPort, Port, Width
    <3> QED BY <1>2, <2>2, <3>2, NetlistAssumption DEF PinOf, OutBits, Bit, Offset
  <2>4. /\ Sound(m, orig) /\ m.type = def.type /\ m.portCells = def.portCells
        /\ \A x \in InBits(m) : m.drivers[x].cell # b
    BY <1>1, <2>1, <2>2, <2>3, RewireSound
  <2> HIDE DEF m
  <2>5. b \in Cells(m) \ m.portCells
    <3>1. Tp(def, b) # "PORT"
      BY <2>1 DEF Binary, Comparator
    <3> QED BY <1>1, <2>2, <2>4, <3>1, SameTypeSameBits DEF PortsAreMarked
  <2> QED BY <2>4, <2>5, DeleteCellSound
<1>5. Sound(def', orig)
  BY <1>1, <1>3, <1>4
<1> QED BY <1>3, <1>5 DEF CInv, WorkIsFound

\* The cells without receivers drive nothing.
LEMMA DeleteUnreceivedCInv == Removable /\ CInv /\ DeleteUnreceived => CInv'
<1> SUFFICES ASSUME Removable, CInv, DeleteUnreceived PROVE CInv'
  OBVIOUS
<1>1. Sound(def, orig) /\ WellFormed(def) /\ FullyDriven(def)
  BY DEF CInv, Sound
<1>2. Sound(BulkDelete(def, NoReceivers(def)), orig)
  <2>1. NoReceivers(def) \in SUBSET (Cells(def) \ def.portCells)
    BY DEF NoReceivers
  <2>2. \A b \in InBits(def) : def.drivers[b].cell \notin NoReceivers(def)
    BY <1>1, BitIsDriven DEF NoReceivers
  <2> QED BY <1>1, <2>1, <2>2, BulkDeleteSound
<1> QED BY <1>1, <1>2 DEF CInv, WorkIsFound, DeleteUnreceived, Pass

\* What is connected to no port drives nothing that is.
LEMMA DeleteIsolatedCInv == Removable /\ CInv /\ DeleteIsolated => CInv'
<1> SUFFICES ASSUME Removable, CInv, DeleteIsolated PROVE CInv'
  OBVIOUS
<1> DEFINE near == Reached(def.portCells, Neighbours(def))
<1>1. Sound(def, orig) /\ WellFormed(def) /\ FullyDriven(def) /\ def.portCells \in SUBSET CellId
  BY NetFields DEF CInv, Sound, WellFormed
<1>2. def.portCells \subseteq near /\ \A c \in near : Neighbours(def)[c] \subseteq near
  <2>1. \A c \in CellId : Neighbours(def)[c] \subseteq CellId
    BY DEF Neighbours, Cells
  <2> QED BY <1>1, <2>1, ReachedClosed
<1> HIDE DEF near
<1>3. Isolated(def) \in SUBSET (Cells(def) \ def.portCells)
  BY <1>2 DEF Isolated, near
<1>4. ASSUME NEW b \in InBits(def), b.cell \notin Isolated(def)
      PROVE  def.drivers[b].cell \notin Isolated(def)
  <2>1. /\ b.cell \in Cells(def) /\ def.drivers[b].cell \in Cells(def)
        /\ def.drivers[b].cell \in CellDrivers(def, b.cell)
    BY <1>1, BitIsDriven
  <2>2. b.cell \in near /\ def.drivers[b].cell \in Neighbours(def)[b.cell]
    BY <1>4, <2>1 DEF Isolated, Neighbours, near, Cells
  <2> QED BY <1>2, <2>2 DEF Isolated, near
<1>5. Sound(BulkDelete(def, Isolated(def)), orig)
  BY <1>1, <1>3, <1>4, BulkDeleteSound
<1> QED BY <1>5 DEF CInv, WorkIsFound, DeleteIsolated, Pass

\* What reaches no output port drives nothing that does, and no port.
LEMMA UnreachedDriveNothing ==
  ASSUME NEW n, WellFormed(n), FullyDriven(n), PortsAreMarked(n)
  PROVE  LET S == Cells(n) \ (ReachingOutputs(n) \cup n.portCells)
         IN  /\ S \in SUBSET (Cells(n) \ n.portCells)
             /\ \A b \in InBits(n) : b.cell \notin S => n.drivers[b].cell \notin S
             /\ OutputPorts(n) \subseteq ReachingOutputs(n)
<1> DEFINE S == Cells(n) \ (ReachingOutputs(n) \cup n.portCells)
<1>1. OutputPorts(n) \in SUBSET CellId
  BY DEF OutputPorts, OfType, Cells
<1>2. /\ OutputPorts(n) \subseteq ReachingOutputs(n)
      /\ \A c \in ReachingOutputs(n) : Sources(n)[c] \subseteq ReachingOutputs(n)
  <2>1. \A c \in CellId : Sources(n)[c] \subseteq CellId
    BY DEF Sources, Cells
  <2> QED BY <1>1, <2>1, ReachedClosed DEF ReachingOutputs
<1>3. ASSUME NEW b \in InBits(n), b.cell \notin S
      PROVE  n.drivers[b].cell \notin S
  <2>1. /\ b.cell \in Cells(n) /\ n.drivers[b].cell \in Cells(n)
        /\ b.cell \in CellReceivers(n, n.drivers[b].cell) /\ b \in Bit
    BY BitIsDriven
  <2>2. n.drivers[b].cell \in Sources(n)[b.cell]
    BY <2>1 DEF Sources, Cells
  <2>3. b.cell \in n.portCells => b.cell \in OutputPorts(n)
    <3>1. SUFFICES ASSUME b.cell \in n.portCells, b.cell \in Inputs(n) PROVE FALSE
      BY <2>1 DEF OutputPorts, OfType, PortsAreMarked
    <3>2. n.type[b.cell].tp = "PORT" /\ n.type[b.cell].dir = "in"
      BY <3>1 DEF Inputs, Tp
    <3>3. PortWidths(n.type[b.cell]) = [OUT |-> n.type[b.cell].width]
      BY <3>2 DEF PortWidths, Comparator, Binop, ReduceOp, Unop
    <3>4. Width(n.type[b.cell], b.port) = 0
      BY <3>3 DEF Width, InBits, InPort
    <3>5. b.offset \in Nat
      BY <2>1, NetlistAssumption DEF Bit, Offset
    <3> QED BY <3>4, <3>5 DEF InBits
  <2> QED BY <1>2, <1>3, <2>1, <2>2, <2>3
<1> QED BY <1>2, <1>3

LEMMA DeleteUnreachedCInv == Removable /\ CInv /\ DeleteUnreached => CInv'
<1> SUFFICES ASSUME Removable, CInv, DeleteUnreached PROVE CInv'
  OBVIOUS
<1> DEFINE S == Cells(def) \ (ReachingOutputs(def) \cup def.portCells)
<1>1. Sound(def, orig) /\ WellFormed(def) /\ FullyDriven(def) /\ PortsAreMarked(def)
  BY DEF CInv, Sound
<1>2. /\ S \in SUBSET (Cells(def) \ def.portCells)
      /\ \A b \in InBits(def) : b.cell \notin S => def.drivers[b].cell \notin S
  BY <1>1, UnreachedDriveNothing
<1>3. def' = BulkDelete(def, S) /\ orig' = orig /\ todo' = todo /\ pass' = "dead deleted"
      /\ pass = "unreached"
  BY DEF DeleteUnreached
<1> HIDE DEF S
<1>4. Sound(def', orig)
  BY <1>1, <1>2, <1>3, BulkDeleteSound
<1> QED BY <1>3, <1>4 DEF CInv, WorkIsFound, Pass

LEMMA NextCInv == Removable /\ CInv /\ [Next]_vars => CInv'
<1> SUFFICES ASSUME Removable, CInv, [Next]_vars PROVE CInv'
  OBVIOUS
<1>1. ASSUME NEW p \in {"passthroughs", "zexts", "zeros", "duplicates", "dead"}, Begin(p)
      PROVE  CInv'
  BY <1>1, BeginCInv
<1>2. CASE Elide
  BY <1>2, ElideCInv
<1>3. CASE MergeZeros
  BY <1>3, MergeZerosCInv
<1>4. CASE DeDuplicate
  BY <1>4, DeDuplicateCInv
<1>5. CASE End
  BY <1>5, EndCInv
<1>6. CASE DeleteUnreceived
  BY <1>6, DeleteUnreceivedCInv
<1>7. CASE DeleteIsolated
  BY <1>7, DeleteIsolatedCInv
<1>8. CASE DeleteUnreached
  BY <1>8, DeleteUnreachedCInv
<1>9. CASE UNCHANGED vars
  BY <1>9 DEF vars, CInv, WorkIsFound
<1> QED BY <1>1, <1>2, <1>3, <1>4, <1>5, <1>6, <1>7, <1>8, <1>9 DEF Next, Turn

THEOREM CleanupInvariantHolds == ASSUME Removable PROVE Spec => []CInv
<1>1. Init => CInv
  BY InitCInv
<1>2. CInv /\ [Next]_vars => CInv'
  BY NextCInv
<1> QED BY <1>1, <1>2, PTL DEF Spec

\* The definition stays well formed, both ends of every wire in agreement, at every step
\* of every removal.
THEOREM CleanupTypeCorrect == ASSUME Removable PROVE Spec => []TypeOK
<1>1. CInv => TypeOK
  BY DEF CInv, TypeOK, Sound, Pass
<1> QED BY <1>1, CleanupInvariantHolds, PTL

\* What is left of a definition reads what it read in the original, under all inputs and
\* all register states.
LEMMA SoundReadsTheSame ==
  ASSUME Removable, NEW o \in Circuits, NEW n, Sound(n, o),
         NEW in \in [Inputs(o) -> Val], NEW r \in [Registers(o) -> Val], NEW b \in InBits(n)
  PROVE  Wires(n, in, r, NoMemory)[n.drivers[b].cell]
           = Wires(o, in, r, NoMemory)[o.drivers[b].cell]
<1> DEFINE before == Wires(o, in, r, NoMemory)
           v == [c \in CellId |-> IF c \in Cells(n) THEN before[c] ELSE InitialValue(n, c)]
<1>1. WellFormed(n) /\ FullyDriven(n) /\ Acyclic(n) /\ ReadsTheSame(n, o)
  BY DEF Sound
<1>2. Agree(n, in, r, NoMemory, before, Cells(n))
  BY KeptValues
<1>3. before[n.drivers[b].cell] = before[o.drivers[b].cell]
  BY <1>1 DEF ReadsTheSame
<1> HIDE DEF before
<1>4. /\ v = [c \in CellId |-> v[c]]
      /\ \A c \in Cells(n) : v[c] = before[c]
      /\ \A c \in CellId \ Cells(n) : v[c] = InitialValue(n, c)
  BY DEF Cells
<1> HIDE DEF v
<1>5. Agree(n, in, r, NoMemory, v, CellId)
  <2> SUFFICES ASSUME NEW c \in CellId
               PROVE  v[c] = WireValue(n, in, r, NoMemory, v, c)
    BY DEF Agree
  <2>1. CASE c \in Cells(n)
    <3>1. c \in Evaluated(n) =>
            \A p \in Reads(Tp(n, c)) : v[Driver(n, c, p)] = before[Driver(n, c, p)]
      BY <1>1, <1>4, ReadsCells
    <3>2. WireValue(n, in, r, NoMemory, v, c) = WireValue(n, in, r, NoMemory, before, c)
      BY <1>1, <3>1, WireValueDependsOnReads
    <3> QED BY <1>2, <1>4, <2>1, <3>2 DEF Agree
  <2>2. CASE c \notin Cells(n)
    BY <1>4, <2>2 DEF WireValue, Evaluated, Inputs, Registers
  <2> QED BY <2>1, <2>2
<1>6. Wires(n, in, r, NoMemory) = v
  BY <1>1, <1>4, <1>5, WiresAreUnique
<1>7. n.drivers[b].cell \in Cells(n)
  BY <1>1, BitIsDriven
<1> QED BY <1>3, <1>4, <1>6, <1>7 DEF before

\* No removal takes a driver away from a cell it leaves, or changes what any cell that is
\* left computes.
THEOREM RemovalsKeepTheFunction == ASSUME Removable PROVE Spec => []SameFunction
<1>1. CInv => SameFunction
  <2> SUFFICES ASSUME CInv PROVE SameFunction
    OBVIOUS
  <2>1. orig \in Circuits /\ Sound(def, orig) /\ FullyDriven(def)
    BY DEF CInv, Sound
  <2>2. ASSUME NEW in \in [Inputs(orig) -> Val], NEW r \in [Registers(orig) -> Val],
               NEW b \in InBits(def)
        PROVE  Wires(def, in, r, NoMemory)[def.drivers[b].cell]
                 = Wires(orig, in, r, NoMemory)[orig.drivers[b].cell]
    BY <2>1, SoundReadsTheSame
  <2> QED BY <2>1, <2>2 DEF SameFunction, NoMemory
<1> QED BY <1>1, CleanupInvariantHolds, PTL

-----------------------------------------------------------------------------
(* What deleteDeadInstances leaves matters to an output port.                *)

LEMMA NothingDeadStep == Removable /\ CInv /\ DeleteUnreached => NothingDeadIsLeft'
<1> SUFFICES ASSUME Removable, CInv, DeleteUnreached
             PROVE  \A c \in Cells(def') \ def'.portCells : \E o \in OutputPorts(def') :
                      c \in Reached({o}, [x \in CellId |-> CellDrivers(def', x)])
  BY DEF NothingDeadIsLeft
<1> DEFINE n == def
           m == def'
           S == Cells(n) \ (ReachingOutputs(n) \cup n.portCells)
           back == [x \in CellId |-> CellDrivers(m, x)]
           T == {c \in CellId : c \in Cells(m) /\ \E o \in OutputPorts(m) : c \in Reached({o}, back)}
<1>1. Sound(n, orig) /\ WellFormed(n) /\ FullyDriven(n) /\ PortsAreMarked(n) /\ n \in Net
  BY DEF CInv, Sound, WellFormed
<1>2. /\ S \in SUBSET (Cells(n) \ n.portCells)
      /\ \A b \in InBits(n) : b.cell \notin S => n.drivers[b].cell \notin S
      /\ OutputPorts(n) \subseteq ReachingOutputs(n)
  BY <1>1, UnreachedDriveNothing
<1>3. m = BulkDelete(n, S)
  BY DEF DeleteUnreached
<1>4. S \in SUBSET CellId /\ \A c \in Cells(n) : c \in S \/ c \in ReachingOutputs(n) \/ c \in n.portCells
  BY DEF Cells
<1>5. OutputPorts(n) \cap S = {} /\ OutputPorts(n) \subseteq Cells(n)
  BY <1>2 DEF OutputPorts, OfType
<1> HIDE DEF S
<1>6. Sound(m, orig) /\ Without(m, n, S) /\ WellFormed(m) /\ FullyDriven(m)
  BY <1>1, <1>2, <1>3, BulkDeleteSound DEF Sound
<1> HIDE DEF m, n
<1>7. /\ Cells(m) = Cells(n) \ S
      /\ \A b \in InBits(n) : b.cell \notin S => b \in InBits(m) /\ m.drivers[b] = n.drivers[b]
      /\ \A c \in Cells(m) : m.type[c] = n.type[c]
      /\ m.portCells = n.portCells
  <2>1. /\ \A b \in Bit : b \in InBits(m) <=> b \in InBits(n) /\ b.cell \notin S
        /\ Cells(m) = Cells(n) \ S
    BY <1>1, <1>4, <1>6, SurvivingBits DEF Without
  <2>2. InBits(n) \subseteq Bit /\ Cells(n) \subseteq CellId
    BY DEF InBits, Cells
  <2> QED BY <1>6, <2>1, <2>2 DEF Without
<1>8. \A c \in CellId : back[c] \subseteq CellId
  BY <1>6, BitIsDriven DEF CellDrivers, CellIns, Cells
<1> HIDE DEF back
<1>9. \A o \in CellId : /\ o \in Reached({o}, back)
                        /\ \A c \in Reached({o}, back) : back[c] \subseteq Reached({o}, back)
  <2> SUFFICES ASSUME NEW o \in CellId
               PROVE  /\ o \in Reached({o}, back)
                      /\ \A c \in Reached({o}, back) : back[c] \subseteq Reached({o}, back)
    OBVIOUS
  <2>1. {o} \in SUBSET CellId
    OBVIOUS
  <2> QED BY <1>8, <2>1, ReachedClosed
<1>10. OutputPorts(n) \subseteq T
  BY <1>5, <1>7, <1>9 DEF OutputPorts, OfType, Inputs, Tp, Cells
<1>11. \A c \in T : Sources(n)[c] \subseteq T
  <2> SUFFICES ASSUME NEW c \in T, NEW s \in Sources(n)[c] PROVE s \in T
    OBVIOUS
  <2>1. c \in CellId /\ c \in Cells(m) /\ s \in Cells(n) /\ s \in CellId /\ c \in CellReceivers(n, s)
    BY DEF Sources, Cells
  <2>2. PICK b \in CellIns(n, c) : n.drivers[b].cell = s
    BY <1>1, <2>1, ReceiverIsDriven
  <2>3. b \in InBits(n) /\ b.cell = c
    BY DEF CellIns
  <2>4. b \in InBits(m) /\ m.drivers[b].cell = s
    BY <1>7, <2>1, <2>2, <2>3
  <2>5. s \in Cells(m) /\ s \in CellDrivers(m, c)
    BY <1>6, <2>3, <2>4, BitIsDriven
  <2>6. s \in back[c]
    BY <2>1, <2>5 DEF back
  <2>7. PICK o \in OutputPorts(m) : c \in Reached({o}, back)
    OBVIOUS
  <2>8. o \in CellId
    BY DEF OutputPorts, OfType, Cells
  <2> QED BY <1>9, <2>1, <2>5, <2>6, <2>7, <2>8
<1>12. ReachingOutputs(n) \subseteq T
  <2> HIDE DEF T
  <2> QED BY <1>10, <1>11, ReachedLeast DEF ReachingOutputs
<1>13. ASSUME NEW c \in Cells(m) \ m.portCells
       PROVE  \E o \in OutputPorts(m) : c \in Reached({o}, back)
  BY <1>4, <1>7, <1>12
<1> QED BY <1>13 DEF m, back

\* Once dead cells are deleted every cell that is left, ports aside, is one that some
\* output port depends on.
THEOREM DeadCellsAreDeleted == ASSUME Removable PROVE Spec => []NothingDeadIsLeft
<1>1. Init => NothingDeadIsLeft
  BY DEF Init, NothingDeadIsLeft
<1>2. CInv /\ NothingDeadIsLeft /\ [Next]_vars => NothingDeadIsLeft'
  <2> SUFFICES ASSUME CInv, NothingDeadIsLeft, [Next]_vars PROVE NothingDeadIsLeft'
    OBVIOUS
  <2>1. CASE DeleteUnreached
    BY <2>1, NothingDeadStep
  <2>2. CASE UNCHANGED vars
    BY <2>2 DEF vars, NothingDeadIsLeft, OutputPorts
  <2>3. ASSUME NEW p \in {"passthroughs", "zexts", "zeros", "duplicates", "dead"}, Begin(p)
        PROVE  NothingDeadIsLeft'
    BY <2>3 DEF Begin, NothingDeadIsLeft
  <2>4. CASE Elide \/ MergeZeros \/ DeDuplicate \/ End \/ DeleteUnreceived \/ DeleteIsolated
    <3>1. pass' # "dead deleted"
      BY <2>4 DEF Elide, MergeZeros, DeDuplicate, End, DeleteUnreceived, DeleteIsolated
    <3> QED BY <3>1 DEF NothingDeadIsLeft
  <2> QED BY <2>1, <2>2, <2>3, <2>4 DEF Next, Turn
<1> QED BY <1>1, <1>2, CleanupInvariantHolds, PTL DEF Spec

-----------------------------------------------------------------------------
(* What a caller of deleteDeadInstances and deDuplicate sees of a turn,      *)
(* whatever definition it calls them for.                                    *)

Wired(n) == WellFormed(n) /\ FullyDriven(n) /\ Acyclic(n) /\ PortsAreMarked(n)

\* Cells that nothing left reads are deleted.
Drops(n, d) ==
  \E S \in SUBSET (Cells(n) \ n.portCells) :
    /\ Without(d, n, S)
    /\ \A b \in InBits(n) : b.cell \notin S => n.drivers[b].cell \notin S

\* The receivers of a gate are moved to one of its type with the same inputs.
Merges(n, d) == \E a, b : a # b /\ Duplicates(n, a, b) /\ FoldedInto(n, b, d, a)

\* What is left of n is d.
Removes(n, d) ==
  Wired(d) /\ d.next = n.next /\ d.constNames = n.constNames /\ (d = n \/ Drops(n, d) \/ Merges(n, d))

Pairs == todo \subseteq CellId \X CellId /\ \A w \in todo : w[1] # w[2]
\* Its callers begin with deleteDeadInstances, and go on with deDuplicate.
Removing ==
  /\ Wired(def) /\ Pairs
  /\ pass \in {"dead", "isolated", "unreached", "dead deleted", "duplicates"}
  /\ pass = "isolated" => NoReceivers(def) = {}

LEMMA WiredIsSound == ASSUME NEW n, Wired(n) PROVE Sound(n, n)
BY DEF Wired, Sound, KeptFrom, ReadsTheSame

LEMMA BulkDeleteRemoves ==
  ASSUME NEW n, Wired(n), NEW S \in SUBSET (Cells(n) \ n.portCells),
         \A b \in InBits(n) : b.cell \notin S => n.drivers[b].cell \notin S
  PROVE  Removes(n, BulkDelete(n, S))
<1> DEFINE d == BulkDelete(n, S)
<1>1. Sound(d, n) /\ Without(d, n, S)
  BY WiredIsSound, BulkDeleteSound
<1>2. d.next = n.next /\ d.constNames = n.constNames
  <2>1. n \in Net
    BY DEF Wired, WellFormed
  <2> QED BY <2>1, NetFields DEF BulkDelete
<1> HIDE DEF d
<1>3. Drops(n, d)
  BY <1>1 DEF Drops
<1> QED BY <1>1, <1>2, <1>3 DEF Removes, Wired, Sound, d

\* DuplicatesSame, of the definition itself.
LEMMA DuplicatesCompute ==
  ASSUME NEW n, Wired(n), NEW a, NEW b, Duplicates(n, a, b)
  PROVE  /\ a \in Cells(n) /\ b \in Cells(n) /\ Tp(n, a) = Tp(n, b) /\ Tp(n, b) \in Binary
         /\ a \in Evaluated(n) /\ b \in Evaluated(n)
         /\ Reads(Tp(n, a)) = Reads(Tp(n, b))
         /\ \A p \in Reads(Tp(n, a)) : Driver(n, a, p) = Driver(n, b, p)
         /\ \A v, m : Eval(n, v, m, a) = Eval(n, v, m, b)
<1>1. /\ a \in Cells(n) /\ b \in Cells(n) /\ Tp(n, a) = Tp(n, b) /\ Tp(n, a) \in Binop
      /\ Driver(n, a, "IN0") = Driver(n, b, "IN0") /\ Driver(n, a, "IN1") = Driver(n, b, "IN1")
  BY DEF Duplicates, SameDrivers, Driver
<1>2. Tp(n, a) \in Binary
  <2>1. n.type[a] \in Kind
    BY <1>1, NetFields DEF Wired, WellFormed, Cells
  <2> QED BY <1>1, <2>1, SemanticsAssumption DEF Tp, Simulated, Unary, Binop, Binary, Comparator
<1>3. a \in Evaluated(n) /\ b \in Evaluated(n)
  BY <1>1, <1>2 DEF Evaluated, Inputs, Registers, Binary, Comparator
<1>4. Reads(Tp(n, a)) = {"IN0", "IN1"}
  BY <1>2 DEF Reads
<1>5. ASSUME NEW v, NEW m PROVE Eval(n, v, m, a) = Eval(n, v, m, b)
  <2>1. In(n, v, a, "IN0") = In(n, v, b, "IN0") /\ In(n, v, a, "IN1") = In(n, v, b, "IN1")
    BY <1>1 DEF In
  <2> QED BY <1>1, <1>2, <2>1 DEF Eval, Binary, Comparator
<1> QED BY <1>1, <1>2, <1>3, <1>4, <1>5

LEMMA MergeRemoves ==
  ASSUME NEW n, Wired(n), NEW a, NEW b, a # b, Duplicates(n, a, b)
  PROVE  Removes(n, DeleteCell(MoveReceivers(n, b, "OUT", Bus(a, "OUT")), b))
<1> DEFINE with == Bus(a, "OUT")
           m == MoveReceivers(n, b, "OUT", with)
           d == DeleteCell(m, b)
<1>1. /\ Sound(n, n) /\ WellFormed(n) /\ FullyDriven(n) /\ Acyclic(n) /\ n \in Net /\ PortsAreMarked(n)
  BY WiredIsSound DEF Wired, WellFormed
<1>2. with[0] = PinOf(a, "OUT")
  BY NetlistAssumption DEF Bus, Offset, PinOf
<1>3. /\ a \in Cells(n) /\ b \in Cells(n) /\ Tp(n, a) = Tp(n, b) /\ Tp(n, b) \in Binary
      /\ a \in Evaluated(n) /\ b \in Evaluated(n)
      /\ Reads(Tp(n, a)) = Reads(Tp(n, b))
      /\ \A p \in Reads(Tp(n, a)) : Driver(n, a, p) = Driver(n, b, p)
      /\ \A v, l : Eval(n, v, l, a) = Eval(n, v, l, b)
  BY DuplicatesCompute
<1>4. a \in CellId /\ b \in CellId /\ n.type[a] \in Kind /\ n.type[a] # NoType /\ n.type[b] \in Kind
  BY <1>1, <1>3, NetFields DEF Cells
<1> HIDE DEF with
<1>5. with[0] \in OutBits(n) /\ with[0].cell = a /\ "OUT" \in OutPort
  <2>1. "OUT" \in DOMAIN PortWidths(n.type[a])
    BY <1>3 DEF PortWidths, Comparator, Binop, ReduceOp, Unop, Binary, Tp
  <2>2. "OUT" \in OutPort /\ "OUT" \in Port /\ Width(n.type[a], "OUT") = 1
    BY <1>4, <2>1, SemanticsAssumption DEF OutPort, Port, Width
  <2> QED BY <1>2, <1>4, <2>2, NetlistAssumption DEF PinOf, OutBits, Bit, Offset
<1>6. SameValue(n, a, b)
  <2> SUFFICES ASSUME NEW in \in [Inputs(n) -> Val], NEW r \in [Registers(n) -> Val]
               PROVE  Wires(n, in, r, NoMemory)[a] = Wires(n, in, r, NoMemory)[b]
    BY DEF SameValue
  <2> DEFINE v == Wires(n, in, r, NoMemory)
  <2>1. Agree(n, in, r, NoMemory, v, CellId)
    BY <1>1, WiresSolve
  <2> HIDE DEF v
  <2> QED BY <1>3, <1>4, <2>1 DEF Agree, WireValue, v
<1>7. /\ Sound(m, n) /\ m.type = n.type /\ m.portCells = n.portCells
      /\ \A x \in InBits(m) : m.drivers[x].cell # b
  BY <1>1, <1>3, <1>5, <1>6, RewireSound
<1>8. b \in Cells(m) \ m.portCells /\ b \in Cells(n) \ n.portCells
  <2>1. Tp(n, b) # "PORT"
    BY <1>3 DEF Binary, Comparator
  <2> QED BY <1>1, <1>3, <1>7, <2>1, SameTypeSameBits DEF PortsAreMarked
<1>9. \A x \in PortOuts(n, b, "OUT") : x.offset = 0
  BY SemanticsAssumption DEF PortOuts, OutBits, Bit, Offset
<1>10. /\ WellFormed(m) /\ ~MoveReceiversAborts(n, b, "OUT", with)
       /\ m.next = n.next /\ m.constNames = n.constNames
       /\ \A r \in Bit : m.drivers[r] =
             IF r \in Receivers(n, b, "OUT") THEN with[n.drivers[r].offset] ELSE n.drivers[r]
  <2>1. \A x \in PortOuts(n, b, "OUT") : with[x.offset] \in OutBits(n)
    BY <1>5, <1>9
  <2> QED BY <1>1, <1>4, <1>5, <2>1, MoveReceiversWellFormed
<1> HIDE DEF m
<1>11. ASSUME NEW x \in InBits(n)
       PROVE  /\ m.drivers[x] # NoBit
              /\ n.drivers[x].cell = b => m.drivers[x].cell = a
  <2>1. x \in Bit /\ n.drivers[x] # NoBit
    BY <1>1 DEF InBits, FullyDriven
  <2>2. CASE x \in Receivers(n, b, "OUT")
    <3>1. n.drivers[x].offset = 0 /\ n.drivers[x].cell = b
      BY <1>1, <1>4, <1>5, <1>9, <2>2, MovedTo DEF PortOuts
    <3>2. with[0] # NoBit
      BY <1>5, NoBitIsNoBit DEF OutBits
    <3> QED BY <1>5, <1>10, <2>1, <2>2, <3>1, <3>2
  <2>3. CASE x \notin Receivers(n, b, "OUT")
    <3>1. Tp(n, b) # "MEM"
      BY <1>3 DEF Binary, Comparator
    <3>2. n.drivers[x].cell # b
      BY <1>1, <1>4, <2>3, <3>1, DrivenAreReceived, OneOutput
    <3> QED BY <1>10, <2>1, <2>3, <3>2
  <2> QED BY <2>2, <2>3
<1>12. ~DeleteCellAborts(m, b)
  BY <1>1, <1>7, <1>8, <1>10, <1>11, DeletesSafely DEF InBits
<1>13. Folds(n, b, m)
  <2>1. m = MoveReceivers(n, b, "OUT", with)
    BY DEF m
  <2> QED BY <1>1, <1>3, <1>5, <1>10, <1>12, <2>1, MovingFolds
<1>14. FoldedInto(n, b, d, a)
  <2>1. Cells(m) = Cells(n)
    BY <1>7 DEF Cells
  <2> QED BY <1>1, <1>3, <1>11, <1>13, <2>1, FoldsInto
<1>15. Sound(d, n)
  BY <1>7, <1>8, DeleteCellSound
<1>16. d.next = n.next /\ d.constNames = n.constNames
  <2>1. m \in Net
    BY <1>10 DEF WellFormed
  <2> QED BY <1>10, <2>1, NetFields DEF DeleteCell
<1> HIDE DEF d
<1>17. Merges(n, d)
  BY <1>14 DEF Merges
<1>18. Removes(n, d)
  BY <1>15, <1>16, <1>17 DEF Removes, Wired, Sound
<1> QED BY <1>18 DEF d, m, with

\* When what no port is connected to is deleted, no cell is left without receivers.
LEMMA IsolatedLeavesReceived ==
  ASSUME Wired(def), NoReceivers(def) = {}
  PROVE  Removes(def, BulkDelete(def, Isolated(def))) /\ NoReceivers(BulkDelete(def, Isolated(def))) = {}
<1> DEFINE n == def
           near == Reached(n.portCells, Neighbours(n))
           S == Isolated(n)
           m == BulkDelete(n, S)
<1>1. /\ WellFormed(n) /\ FullyDriven(n) /\ n \in Net /\ n.portCells \in SUBSET CellId /\ Sound(n, n)
      /\ NoReceivers(n) = {} /\ Wired(n)
  BY WiredIsSound, NetFields DEF Wired, WellFormed
<1>2. n.portCells \subseteq near /\ \A c \in near : Neighbours(n)[c] \subseteq near
  <2>1. \A c \in CellId : Neighbours(n)[c] \subseteq CellId
    BY DEF Neighbours, Cells
  <2> QED BY <1>1, <2>1, ReachedClosed
<1>3. S \in SUBSET (Cells(n) \ n.portCells) /\ S = Cells(n) \ near /\ S \in SUBSET CellId
  BY <1>2 DEF Isolated, Cells
<1> HIDE DEF near, S, n
<1>4. ASSUME NEW b \in InBits(n), b.cell \notin S
      PROVE  n.drivers[b].cell \notin S
  <2>1. /\ b.cell \in Cells(n) /\ n.drivers[b].cell \in Cells(n)
        /\ n.drivers[b].cell \in CellDrivers(n, b.cell)
    BY <1>1, BitIsDriven
  <2>2. b.cell \in near /\ n.drivers[b].cell \in Neighbours(n)[b.cell]
    BY <1>3, <1>4, <2>1 DEF Neighbours, Cells
  <2> QED BY <1>2, <1>3, <2>2
<1>5. Removes(n, m) /\ Without(m, n, S)
  BY <1>1, <1>3, <1>4, BulkDeleteRemoves, BulkDeleteSound
<1> HIDE DEF m
<1>6. /\ \A b \in Bit : b \in InBits(m)  <=> b \in InBits(n)  /\ b.cell \notin S
      /\ \A b \in Bit : b \in OutBits(m) <=> b \in OutBits(n) /\ b.cell \notin S
      /\ Cells(m) = Cells(n) \ S
      /\ m.portCells = n.portCells /\ WellFormed(m) /\ FullyDriven(m)
  <2>1. /\ m.type = [c \in CellId |-> IF c \in S THEN NoType ELSE n.type[c]]
        /\ m.portCells = n.portCells /\ WellFormed(m) /\ FullyDriven(m)
    BY <1>5 DEF Without, Removes, Wired
  <2> QED BY <1>1, <1>3, <2>1, SurvivingBits
<1>7. ASSUME NEW c \in NoReceivers(m) PROVE FALSE
  <2>1. /\ c \in Cells(n) /\ c \in CellId /\ c \notin S /\ c \notin n.portCells
        /\ CellOuts(n, c) # {} /\ CellReceivers(m, c) = {}
    BY <1>6 DEF NoReceivers, CellOuts, OutBits, Cells
  <2>2. PICK e : e \in CellReceivers(n, c)
    BY <1>1, <2>1 DEF NoReceivers
  <2>3. PICK r \in CellIns(n, e) : n.drivers[r].cell = c
    BY <1>1, <2>1, <2>2, ReceiverIsDriven
  <2>4. r \in InBits(n) /\ r \in Bit /\ r.cell = e
    BY DEF CellIns, InBits
  <2>5. e \in Cells(n)
    BY <1>1, <2>4, BitIsDriven
  <2>6. e \notin S
    BY <1>2, <1>3, <2>1, <2>2, <2>5 DEF Neighbours
  <2>7. r \in InBits(m) /\ m.drivers[r].cell = c
    BY <1>5, <1>6, <2>3, <2>4, <2>6 DEF Without
  <2> QED BY <1>6, <2>1, <2>4, <2>7, BitIsDriven
<1> QED BY <1>5, <1>7 DEF m, n, S

LEMMA BelowIsOther == \A w \in CellId \X CellId : w[1] < w[2] => w[1] # w[2]
BY NetlistAssumption DEF CellId

\* A turn leaves a definition as it was but for cells that do not matter, and the
\* assertion after the isolated ones are deleted does not fail.
LEMMA TurnRemoves ==
  ASSUME Removing, Turn \/ (pass = "dead deleted" /\ Begin("duplicates"))
  PROVE  /\ Removes(def, def') /\ UNCHANGED orig /\ Pairs'
         /\ pass' # "none" => Removing'
         /\ pass' \in {"dead", "isolated", "unreached", "dead deleted", "duplicates", "none"}
<1>1. Wired(def) /\ Removes(def, def)
  BY DEF Removing, Pairs, Removes
<1>2. pass \notin {"passthroughs", "zexts", "zeros"}
  BY DEF Removing, Pairs
<1>3. CASE pass = "dead deleted" /\ Begin("duplicates")
  <2>1. def' = def /\ orig' = orig /\ pass' = "duplicates" /\ todo' = Work(def, "duplicates")
    BY <1>3 DEF Begin
  <2>2. Cells(def) \subseteq CellId
    BY DEF Cells
  <2>3. \A w \in todo' : w \in CellId \X CellId /\ w[1] # w[2]
    <3>1. \A w \in todo' : w \in Cells(def) \X Cells(def) /\ w[1] < w[2]
      BY <2>1 DEF Work
    <3>2. \A w \in CellId \X CellId : w[1] < w[2] => w[1] # w[2]
      BY BelowIsOther
    <3> QED BY <2>2, <3>1, <3>2
  <2> QED BY <1>1, <2>1, <2>3 DEF Removing, Pairs
<1>4. CASE DeDuplicate
  <2> DEFINE a == FirstPair[1]
             b == FirstPair[2]
  <2>1. a # b
    BY <1>4, FirstIsLeft DEF DeDuplicate, Removing, Pairs
  <2>2. /\ def' = IF Duplicates(def, a, b)
                  THEN DeleteCell(MoveReceivers(def, b, "OUT", Bus(a, "OUT")), b) ELSE def
        /\ orig' = orig /\ pass' = pass /\ pass = "duplicates" /\ todo' \subseteq todo
    BY <1>4 DEF DeDuplicate
  <2> HIDE DEF a, b
  <2>3. Removes(def, def')
    BY <1>1, <2>1, <2>2, MergeRemoves
  <2> QED BY <2>2, <2>3 DEF Removing, Pairs, Removes
<1>5. CASE End
  BY <1>1, <1>5 DEF End, Removing, Pairs
<1>6. CASE DeleteUnreceived
  <2>1. Removes(def, BulkDelete(def, NoReceivers(def)))
    <3>1. NoReceivers(def) \in SUBSET (Cells(def) \ def.portCells)
      BY DEF NoReceivers
    <3>2. \A b \in InBits(def) : def.drivers[b].cell \notin NoReceivers(def)
      BY <1>1, BitIsDriven DEF NoReceivers, Wired
    <3> QED BY <1>1, <3>1, <3>2, BulkDeleteRemoves
  <2> QED BY <1>1, <1>6, <2>1 DEF DeleteUnreceived, Removing, Pairs, Removes
<1>7. CASE DeleteIsolated
  <2>1. Removes(def, def') /\ NoReceivers(def') = {}
    BY <1>1, <1>7, IsolatedLeavesReceived DEF DeleteIsolated, Removing
  <2> QED BY <1>7, <2>1 DEF DeleteIsolated, Removing, Pairs, Removes
<1>8. CASE DeleteUnreached
  <2> DEFINE S == Cells(def) \ (ReachingOutputs(def) \cup def.portCells)
  <2>1. /\ S \in SUBSET (Cells(def) \ def.portCells)
        /\ \A b \in InBits(def) : b.cell \notin S => def.drivers[b].cell \notin S
    BY <1>1, UnreachedDriveNothing DEF Wired
  <2>2. def' = BulkDelete(def, S) /\ orig' = orig /\ todo' = todo /\ pass' = "dead deleted"
    BY <1>8 DEF DeleteUnreached
  <2> HIDE DEF S
  <2>3. Removes(def, def')
    BY <1>1, <2>1, <2>2, BulkDeleteRemoves
  <2> QED BY <2>2, <2>3 DEF Removing, Pairs, Removes
<1> QED BY <1>2, <1>3, <1>4, <1>5, <1>6, <1>7, <1>8 DEF Turn, Elide, MergeZeros

-----------------------------------------------------------------------------
(* The assertion of deleteDeadInstances.                                     *)

\* No cell is left without receivers when the cells that no port is connected to are
\* deleted, so the assertion after it never fails.
THEOREM NoneIsLeftOver == ASSUME Removable PROVE Spec => [](pass # "left over")
<1> DEFINE Received == pass = "isolated" => NoReceivers(def) = {}
           J == Received /\ pass # "left over"
<1>1. Init => J
  BY DEF Init
<1>2. ASSUME CInv, J, DeleteIsolated PROVE pass' # "left over" /\ pass' # "isolated"
  <2>1. Wired(def)
    BY <1>2 DEF CInv, Sound, Wired
  <2>2. NoReceivers(def') = {}
    BY <1>2, <2>1, IsolatedLeavesReceived DEF DeleteIsolated
  <2> QED BY <1>2, <2>2 DEF DeleteIsolated
<1>3. CInv /\ J /\ [Next]_vars => J'
  <2> SUFFICES ASSUME CInv, J, [Next]_vars PROVE J'
    OBVIOUS
  <2>1. CASE DeleteIsolated
    BY <1>2, <2>1
  <2>2. CASE DeleteUnreceived
    BY <2>2 DEF DeleteUnreceived
  <2>3. CASE UNCHANGED vars
    BY <2>3 DEF vars
  <2>4. ASSUME NEW p \in {"passthroughs", "zexts", "zeros", "duplicates", "dead"}, Begin(p)
        PROVE  J'
    BY <2>4 DEF Begin
  <2>5. CASE Elide \/ MergeZeros \/ DeDuplicate \/ End \/ DeleteUnreached
    BY <2>5 DEF Elide, MergeZeros, DeDuplicate, End, DeleteUnreached
  <2> QED BY <2>1, <2>2, <2>3, <2>4, <2>5 DEF Next, Turn
<1> QED BY <1>1, <1>3, CleanupInvariantHolds, PTL DEF Spec
=============================================================================
