-------------------------- MODULE FoldByStateProofs --------------------------
(***************************************************************************)
(* Proofs about foldConstantsWRTState: what the analysis labels constant   *)
(* has a reason to be, the labels settle, and the definition that is left  *)
(* reads what the original reads.                                          *)
(***************************************************************************)
EXTENDS FoldByState, CellProofs

-----------------------------------------------------------------------------
(* The labels.                                                             *)

\* k labels no fewer cells constant than l.
Rises(l, k) == \A c \in CellId : l[c] = "const" => k[c] = "const"

\* Why NewLabel labels a cell constant, which what is known later does not change.
ConstantMux(n, v, l, c) ==
  /\ DrivenByConstants(n, l, c, "SEL")
  /\ \/ In(n, v, c, "SEL") = 0 /\ DrivenByConstants(n, l, c, "IN0")
     \/ In(n, v, c, "SEL") = 1 /\ DrivenByConstants(n, l, c, "IN1")

Reason(n, v, l, c) ==
  IF Tp(n, c) = "MUX" THEN ConstantMux(n, v, l, c)
  ELSE IF Tp(n, c) = "REG_ARST" THEN DrivenByConstants(n, l, c, "ARST") /\ ReadsItself(n, c)
  ELSE c \notin Inputs(n) /\ \A p \in InPort : DrivenByConstants(n, l, c, p)

\* Every label has its reason.
Grounded(n, v, l) ==
  \A c \in Cells(n) :
    /\ l[c] = "const" => Reason(n, v, l, c)
    /\ l[c] = "select" => Tp(n, c) = "MUX" /\ DrivenByConstants(n, l, c, "SEL")

\* The labels that the analysis ends with.
Settled(n, v, l, S) == \A c \in S : l[c] = NewLabel(n, v, l, c)

LEMMA DrivenStays ==
  ASSUME NEW n, WellFormed(n), NEW l, NEW k, Rises(l, k), NEW c, NEW p,
         DrivenByConstants(n, l, c, p)
  PROVE  DrivenByConstants(n, k, c, p)
<1> SUFFICES ASSUME NEW r \in CellIns(n, c), r.port = p, n.drivers[r] # NoBit
             PROVE  k[n.drivers[r].cell] = "const"
  BY DEF DrivenByConstants
<1>1. l[n.drivers[r].cell] = "const"
  BY DEF DrivenByConstants
<1>2. n.drivers[r].cell \in CellId
  BY NetFields DEF CellIns, InBits, WellFormed, WiresExistIn, OutBits, Bit
<1> QED BY <1>1, <1>2 DEF Rises

LEMMA ReasonStays ==
  ASSUME NEW n, WellFormed(n), NEW v, NEW l, NEW k, Rises(l, k), NEW c, Reason(n, v, l, c)
  PROVE  Reason(n, v, k, c)
<1>1. \A p : DrivenByConstants(n, l, c, p) => DrivenByConstants(n, k, c, p)
  BY DrivenStays
<1> QED BY <1>1 DEF Reason, ConstantMux

\* What a turn of the analysis may find.
LEMMA NewLabelGrounded ==
  ASSUME NEW n, NEW v, NEW l, Grounded(n, v, l), NEW c \in Cells(n), l[c] \in Label
  PROVE  LET new == NewLabel(n, v, l, c)
         IN  /\ new \in Label /\ (new = "none" => l[c] = "none")
             /\ l[c] = "const" => new = "const"
             /\ new = "const" => Reason(n, v, l, c)
             /\ new = "select" => Tp(n, c) = "MUX" /\ DrivenByConstants(n, l, c, "SEL")
<1>1. CASE Tp(n, c) = "MUX"
  <2>1. NewLabel(n, v, l, c) = MuxLabel(n, v, l, c)
    BY <1>1 DEF NewLabel, Inputs
  <2> QED BY <1>1, <2>1 DEF MuxLabel, Label, Grounded, Reason, ConstantMux
<1>2. CASE Tp(n, c) = "REG_ARST"
  BY <1>2 DEF NewLabel, Label, Grounded, Reason
<1>3. CASE Tp(n, c) \notin {"MUX", "REG_ARST"} /\ c \in Inputs(n)
  <2>1. NewLabel(n, v, l, c) = l[c]
    BY <1>3 DEF NewLabel
  <2> QED BY <1>3, <2>1 DEF Label, Grounded
<1>4. CASE Tp(n, c) \notin {"MUX", "REG_ARST"} /\ c \notin Inputs(n)
  <2>1. NewLabel(n, v, l, c) =
          IF \A p \in InPort : DrivenByConstants(n, l, c, p) THEN "const" ELSE "nonconst"
    BY <1>4 DEF NewLabel
  <2> QED BY <1>4, <2>1 DEF Label, Grounded, Reason
<1> QED BY <1>1, <1>2, <1>3, <1>4

\* What a turn makes of the labels, and of the cells that are queued.
Relabels(n, v, l, c, k) == k = [l EXCEPT ![c] = NewLabel(n, v, l, c)]

Queues(n, v, l, c, S, T) ==
  T = (S \ {c}) \cup IF NewLabel(n, v, l, c) # l[c] THEN ReadersOf(n, c) ELSE {}

LEMMA RelabelGrounded ==
  ASSUME NEW n, WellFormed(n), NEW v, NEW l \in [CellId -> Label], Grounded(n, v, l),
         NEW c \in Cells(n), NEW k, Relabels(n, v, l, c, k)
  PROVE  /\ k \in [CellId -> Label] /\ Rises(l, k) /\ Grounded(n, v, k)
         /\ \A d \in CellId : k[d] = "none" => l[d] = "none"
         /\ \A d \in CellId : l[d] = "none" => d = c \/ k[d] = "none"
<1> DEFINE new == NewLabel(n, v, l, c)
<1>0. c \in CellId /\ Cells(n) \subseteq CellId /\ l[c] \in Label
  BY DEF Cells
<1>1. /\ new \in Label /\ (new = "none" => l[c] = "none")
      /\ l[c] = "const" => new = "const"
      /\ new = "const" => Reason(n, v, l, c)
      /\ new = "select" => Tp(n, c) = "MUX" /\ DrivenByConstants(n, l, c, "SEL")
  BY <1>0, NewLabelGrounded
<1> HIDE DEF new
<1>2. k = [l EXCEPT ![c] = new]
  BY DEF new, Relabels
<1>3. /\ k \in [CellId -> Label] /\ k[c] = new /\ \A d \in CellId \ {c} : k[d] = l[d]
  BY <1>0, <1>1, <1>2
<1>4. Rises(l, k)
  BY <1>1, <1>3 DEF Rises
<1>5. Grounded(n, v, k)
  <2> SUFFICES ASSUME NEW d \in Cells(n)
               PROVE  /\ k[d] = "const" => Reason(n, v, k, d)
                      /\ k[d] = "select" => Tp(n, d) = "MUX" /\ DrivenByConstants(n, k, d, "SEL")
    BY DEF Grounded
  <2>1. k[d] = "const" => Reason(n, v, l, d)
    BY <1>0, <1>1, <1>3 DEF Grounded
  <2>2. k[d] = "select" => Tp(n, d) = "MUX" /\ DrivenByConstants(n, l, d, "SEL")
    BY <1>0, <1>1, <1>3 DEF Grounded
  <2> QED BY <1>4, <2>1, <2>2, ReasonStays, DrivenStays
<1> QED BY <1>0, <1>1, <1>3, <1>4, <1>5

\* A cell is driven by constants as long as no cell it reads is labelled otherwise.
LEMMA SameDrivers ==
  ASSUME NEW n, WellFormed(n), FullyDriven(n), NEW l, NEW k, NEW c \in CellId,
         \A d \in CellId \ {c} : k[d] = l[d], NEW e, e \notin ReadersOf(n, c), NEW p
  PROVE  DrivenByConstants(n, k, e, p) <=> DrivenByConstants(n, l, e, p)
<1>1. \A r \in CellIns(n, e) : n.drivers[r].cell \in CellId \ {c}
  <2> SUFFICES ASSUME NEW r \in CellIns(n, e) PROVE n.drivers[r].cell \in CellId \ {c}
    OBVIOUS
  <2>1. r \in InBits(n) /\ r.cell = e
    BY DEF CellIns
  <2>2. n.drivers[r].cell \in Cells(n) /\ r \in OutReceivers(n, n.drivers[r].cell)
    BY <2>1, InputIsReceived
  <2> QED BY <2>1, <2>2 DEF ReadersOf, Cells
<1> QED BY <1>1 DEF DrivenByConstants

SameSources(n, l, k, c) ==
  \A p : DrivenByConstants(n, k, c, p) <=> DrivenByConstants(n, l, c, p)

\* A cell keeps its label, or the label it was just given, if it is looked at again.
KeepsLabel(n, v, l, k, c) ==
  /\ k[c] = l[c] => NewLabel(n, v, k, c) = NewLabel(n, v, l, c)
  /\ k[c] = NewLabel(n, v, l, c) => NewLabel(n, v, k, c) = k[c]

LEMMA SameNewLabel ==
  ASSUME NEW n, NEW v, NEW l, NEW k, NEW e, SameSources(n, l, k, e)
  PROVE  KeepsLabel(n, v, l, k, e)
<1>1. CASE Tp(n, e) = "MUX"
  <2>1. NewLabel(n, v, k, e) = MuxLabel(n, v, k, e) /\ NewLabel(n, v, l, e) = MuxLabel(n, v, l, e)
    BY <1>1 DEF NewLabel, Inputs
  <2> QED BY <2>1 DEF MuxLabel, SameSources, KeepsLabel
<1>2. CASE Tp(n, e) = "REG_ARST"
  BY <1>2 DEF NewLabel, Inputs, SameSources, KeepsLabel
<1>3. CASE Tp(n, e) \notin {"MUX", "REG_ARST"} /\ e \in Inputs(n)
  BY <1>3 DEF NewLabel, KeepsLabel
<1>4. CASE Tp(n, e) \notin {"MUX", "REG_ARST"} /\ e \notin Inputs(n)
  BY <1>4 DEF NewLabel, SameSources, KeepsLabel
<1> QED BY <1>1, <1>2, <1>3, <1>4

\* A turn of the analysis leaves the labels settled but for the cells it queues.
LEMMA RelabelSettles ==
  ASSUME NEW n, WellFormed(n), FullyDriven(n), NEW v, NEW l \in [CellId -> Label],
         NEW S \in SUBSET Cells(n), Settled(n, v, l, Cells(n) \ S), NEW c \in S,
         NEW k, Relabels(n, v, l, c, k), NEW T, Queues(n, v, l, c, S, T)
  PROVE  T \subseteq Cells(n) /\ Settled(n, v, k, Cells(n) \ T)
<1> DEFINE new == NewLabel(n, v, l, c)
<1>0. c \in CellId /\ Cells(n) \subseteq CellId
  BY DEF Cells
<1>1. ReadersOf(n, c) \subseteq Cells(n)
  <2> SUFFICES ASSUME NEW r \in OutReceivers(n, c) PROVE r.cell \in Cells(n)
    BY DEF ReadersOf
  <2>1. PICK p \in OutPort : r \in n.receivers[PinOf(c, p)]
    BY DEF OutReceivers
  <2>2. PinOf(c, p) \in Bit
    BY <1>0, NetlistAssumption DEF PinOf, Bit, OutPort, Offset
  <2>3. r \in InBits(n) /\ n \in Net
    BY <2>1, <2>2 DEF WellFormed, WiresExistIn
  <2> QED BY <2>3, NoCellNoBits DEF Cells
<1>2. CASE new = l[c]
  <2>1. k = l
    BY <1>0, <1>2 DEF Relabels
  <2>2. T = S \ {c}
    BY <1>2 DEF Queues
  <2> QED BY <1>2, <2>1, <2>2 DEF Settled
<1>3. CASE new # l[c]
  <2>1. T = (S \ {c}) \cup ReadersOf(n, c)
    BY <1>3 DEF Queues
  <2>2. k[c] = new /\ \A d \in CellId \ {c} : k[d] = l[d]
    BY <1>0 DEF Relabels
  <2>3. ASSUME NEW d \in Cells(n) \ T
        PROVE  k[d] = NewLabel(n, v, k, d)
    <3>1. d \notin ReadersOf(n, c) /\ (d \notin S \/ d = c) /\ d \in CellId
      BY <1>0, <2>1, <2>3
    <3>2. SameSources(n, l, k, d)
      BY <1>0, <2>2, <3>1, SameDrivers DEF SameSources
    <3>3. KeepsLabel(n, v, l, k, d)
      BY <3>2, SameNewLabel
    <3>4. CASE d = c
      BY <2>2, <3>3, <3>4 DEF KeepsLabel
    <3>5. CASE d # c
      <4>1. k[d] = l[d] /\ l[d] = NewLabel(n, v, l, d)
        BY <2>2, <2>3, <3>1, <3>5 DEF Settled
      <4> QED BY <3>3, <4>1 DEF KeepsLabel
    <3> QED BY <3>4, <3>5
  <2> QED BY <1>1, <2>1, <2>3 DEF Settled
<1> QED BY <1>2, <1>3

LEMMA InitialLabels ==
  ASSUME NEW n, WellFormed(n), NEW v, NEW l,
         l = [c \in CellId |-> IF c \in Cells(n) THEN InitialLabel(n, c) ELSE "none"]
  PROVE  /\ l \in [CellId -> Label] /\ Grounded(n, v, l)
         /\ \A c \in CellId : l[c] = "none" <=> c \notin Cells(n)
<1>1. \A c \in Cells(n) : c \in CellId /\ l[c] = IF Tp(n, c) = "CONST" THEN "const" ELSE "nonconst"
  BY DEF Cells, InitialLabel
<1>2. ASSUME NEW c \in Cells(n), l[c] = "const"
      PROVE  Reason(n, v, l, c)
  <2>1. Tp(n, c) = "CONST" /\ c \in CellId
    BY <1>1, <1>2
  <2>2. CellIns(n, c) = {}
    BY <2>1, ReadingCell
  <2> QED BY <2>1, <2>2 DEF Reason, DrivenByConstants, Inputs
<1> QED BY <1>1, <1>2 DEF Label, Grounded, InitialLabel, Cells

-----------------------------------------------------------------------------
(* What the labels say.                                                      *)

LEMMA LabelledDriver ==
  ASSUME NEW n, WellFormed(n), FullyDriven(n), NEW l, NEW c, NEW p, PinOf(c, p) \in InBits(n),
         DrivenByConstants(n, l, c, p)
  PROVE  Driver(n, c, p) \in Cells(n) /\ l[Driver(n, c, p)] = "const"
<1> DEFINE r == PinOf(c, p)
<1>1. r \in CellIns(n, c) /\ r.port = p /\ n.drivers[r] # NoBit
  BY DEF CellIns, PinOf, FullyDriven
<1>2. n.drivers[r].cell \in Cells(n)
  BY InputIsReceived
<1> QED BY <1>1, <1>2 DEF DrivenByConstants, Driver

\* A multiplexer shows the input it chooses, whatever the other does.
LEMMA MuxShows ==
  ASSUME NEW n, NEW w, NEW m, NEW c, Tp(n, c) = "MUX"
  PROVE  Eval(n, w, m, c) = IF In(n, w, c, "SEL") = 1 THEN In(n, w, c, "IN1") ELSE In(n, w, c, "IN0")
BY DEF Eval, Comparator

\* Of two states a definition may be in, with the same values in the registers that are
\* labelled constant, every cell labelled constant shows the same.
LEMMA LabelledShow ==
  ASSUME NEW o, WellFormed(o), FullyDriven(o), Acyclic(o), NEW v, Solution(o, v, Zeros),
         NEW w, Solution(o, w, Zeros), NEW l, Grounded(o, v, l),
         \A c \in Registers(o) : l[c] = "const" => w[c] = v[c]
  PROVE  \A c \in Cells(o) : l[c] = "const" => w[c] = v[c]
<1> DEFINE D == {c \in Cells(o) : l[c] = "const" /\ w[c] # v[c]}
<1>1. SUFFICES ASSUME D # {} PROVE FALSE
  OBVIOUS
<1>2. D \subseteq Evaluated(o)
  <2> SUFFICES ASSUME NEW c \in D PROVE c \in Evaluated(o)
    OBVIOUS
  <2>1. c \notin Registers(o) /\ Reason(o, v, l, c)
    BY DEF Grounded
  <2>2. Tp(o, c) # "CONST"
    BY DEF Solution
  <2>3. c \notin Inputs(o)
    BY <2>1 DEF Reason, Inputs
  <2> QED BY <2>1, <2>2, <2>3 DEF Evaluated
<1>3. PICK c \in D : \A p \in Reads(Tp(o, c)) : Driver(o, c, p) \notin D
  BY <1>1, <1>2 DEF Acyclic
<1>4. c \in Evaluated(o) /\ Reason(o, v, l, c) /\ Tp(o, c) \in CombTypes
  BY <1>2, <1>3, EvaluatedTypes DEF Grounded, WellFormed
<1>5. ASSUME NEW p \in Reads(Tp(o, c)), DrivenByConstants(o, l, c, p)
      PROVE  In(o, w, c, p) = In(o, v, c, p)
  <2>1. PinOf(c, p) \in InBits(o)
    BY <1>4, ReadsCells
  <2>2. Driver(o, c, p) \in Cells(o) /\ l[Driver(o, c, p)] = "const"
    BY <1>5, <2>1, LabelledDriver
  <2> QED BY <1>3, <2>2 DEF In
<1>6. Eval(o, w, Zeros, c) = Eval(o, v, Zeros, c)
  <2>1. CASE Tp(o, c) = "MUX"
    <3>1. {"IN0", "IN1", "SEL"} \subseteq Reads(Tp(o, c))
      BY <2>1 DEF Reads, Binary, Comparator
    <3>2. ConstantMux(o, v, l, c)
      BY <1>4, <2>1 DEF Reason
    <3> QED BY <1>5, <2>1, <3>1, <3>2, MuxShows DEF ConstantMux
  <2>2. CASE Tp(o, c) # "MUX"
    <3>1. \A p \in InPort : DrivenByConstants(o, l, c, p)
      BY <1>4, <2>2 DEF Reason, Evaluated, Registers
    <3>2. \A p \in Reads(Tp(o, c)) : p \in InPort
      BY <1>4, ReadsCells DEF InBits, PinOf
    <3>3. \A p \in Reads(Tp(o, c)) : In(o, w, c, p) = In(o, v, c, p)
      BY <1>5, <3>1, <3>2
    <3> QED BY <1>4, <3>3, EvalDependsOnReads
  <2> QED BY <2>1, <2>2
<1> QED BY <1>2, <1>3, <1>6 DEF Solution

-----------------------------------------------------------------------------
(* The loop over the labels, up to cell k: of the original definition o only *)
(* chosen multiplexers are gone, and what a labelled cell drove reads it yet *)
(* or a new constant.                                                        *)

Kept(n, o, l, k) ==
  /\ Remains(n, o) /\ n.portCells = o.portCells
  /\ \A c \in Cells(o) : c \in Cells(n) <=> l[c] # "select" \/ c >= k
  /\ \A b \in InBits(n) : l[o.drivers[b].cell] = "const" =>
       n.drivers[b].cell = o.drivers[b].cell \/ n.drivers[b].cell \notin Cells(o)

\* The cells that will be deleted at last.
Doomed(o, l, k) == {c \in Cells(o) \ o.portCells : l[c] = "const" /\ c < k}

\* Only what will be gone by then reads them.
NothingLost(n, o, l, k) ==
  \A b \in InBits(n) :
    /\ l[o.drivers[b].cell] # "const" =>
         n.drivers[b].cell \in Cells(o) /\ l[n.drivers[b].cell] # "const"
    /\ n.drivers[b].cell \in Doomed(o, l, k) =>
         l[b.cell] \in {"const", "select"} /\ b.cell \notin o.portCells

LEMMA HandingKeeps ==
  ASSUME NEW o, WellFormed(o), NEW n, NEW l, NEW c \in Cells(o), Kept(n, o, l, c),
         NEW d, NEW e, HandedTo(n, c, d, e), Acyclic(d), n.next <= d.next, d.next \in Nat,
         e \in Cells(n) \/ e = n.next,
         l[c] \in {"const", "select"}, l[c] = "select" <=> c \notin Cells(d),
         l[c] = "const" => e \notin Cells(o)
  PROVE  Kept(d, o, l, c + 1)
<1>0. /\ o \in Net /\ c \in Int /\ \A x \in Cells(o) : x \in Int
      /\ c \in Cells(n) /\ Remains(n, o)
  BY DEF WellFormed, Cells, CellId, Kept
<1>1. /\ Remains(d, o)
      /\ Cells(o) \ Cells(d) = (Cells(o) \ Cells(n)) \cup (Cells(o) \cap ({c} \ Cells(d)))
  BY <1>0, HandingRemains
<1>2. ASSUME NEW x \in Cells(o)
      PROVE  x \in Cells(d) <=> l[x] # "select" \/ x >= c + 1
  <2>1. x \in Cells(n) <=> l[x] # "select" \/ x >= c
    BY DEF Kept
  <2>2. x \in Cells(d) <=> x \in Cells(n) /\ (x # c \/ c \in Cells(d))
    BY <1>1
  <2>3. x # c => (x >= c + 1 <=> x >= c)
    BY <1>0
  <2>4. ~(c >= c + 1)
    BY <1>0
  <2> QED BY <1>0, <2>1, <2>2, <2>3, <2>4
<1>3. ASSUME NEW b \in InBits(d), l[o.drivers[b].cell] = "const"
      PROVE  d.drivers[b].cell = o.drivers[b].cell \/ d.drivers[b].cell \notin Cells(o)
  <2>1. /\ b \in InBits(n)
        /\ d.drivers[b].cell = IF n.drivers[b].cell = c THEN e ELSE n.drivers[b].cell
    BY DEF HandedTo
  <2>2. n.drivers[b].cell = o.drivers[b].cell \/ n.drivers[b].cell \notin Cells(o)
    BY <1>3, <2>1 DEF Kept
  <2> QED BY <1>3, <2>1, <2>2
<1>4. d.portCells = o.portCells
  BY DEF Kept, HandedTo
<1> QED BY <1>1, <1>2, <1>3, <1>4 DEF Kept

LEMMA HandingLosesNothing ==
  ASSUME NEW o, NEW n, NEW l, NEW c \in Cells(o), NothingLost(n, o, l, c),
         NEW d, NEW e, HandedTo(n, c, d, e), l[c] \in {"const", "select"},
         l[c] = "const" => e \notin Cells(o),
         l[c] = "select" => e \in Cells(o) /\ l[e] # "const"
  PROVE  NothingLost(d, o, l, c + 1)
<1> SUFFICES ASSUME NEW b \in InBits(d)
             PROVE  /\ l[o.drivers[b].cell] # "const" =>
                         d.drivers[b].cell \in Cells(o) /\ l[d.drivers[b].cell] # "const"
                    /\ d.drivers[b].cell \in Doomed(o, l, c + 1) =>
                         l[b.cell] \in {"const", "select"} /\ b.cell \notin o.portCells
  BY DEF NothingLost
<1> DEFINE x == n.drivers[b].cell
<1>1. b \in InBits(n) /\ d.drivers[b].cell = IF x = c THEN e ELSE x
  BY DEF HandedTo
<1>2. /\ l[o.drivers[b].cell] # "const" => x \in Cells(o) /\ l[x] # "const"
      /\ x \in Doomed(o, l, c) => l[b.cell] \in {"const", "select"} /\ b.cell \notin o.portCells
  BY <1>1 DEF NothingLost
<1> HIDE DEF x
<1>3. CASE x = c
  <2>1. d.drivers[b].cell = e
    BY <1>1, <1>3
  <2>2. e \notin Doomed(o, l, c + 1)
    BY DEF Doomed
  <2> QED BY <1>2, <1>3, <2>1, <2>2
<1>4. CASE x # c
  <2>1. x \in Doomed(o, l, c + 1) => x \in Doomed(o, l, c)
    <3>1. \A y \in Cells(o) : y < c + 1 /\ y # c => y < c
      BY DEF Cells, CellId
    <3> QED BY <1>4, <3>1 DEF Doomed
  <2> QED BY <1>1, <1>2, <1>4, <2>1
<1> QED BY <1>3, <1>4

\* Passing over a cell that is no multiplexer to be chosen from.
LEMMA PassingKeeps ==
  ASSUME NEW o, NEW n, NEW l, NEW c \in Nat, Kept(n, o, l, c), c \in Cells(o) => l[c] # "select"
  PROVE  Kept(n, o, l, c + 1)
<1>1. \A x \in Cells(o) : x \in Int /\ (x # c => (x >= c + 1 <=> x >= c))
  BY DEF Cells, CellId
<1> QED BY <1>1 DEF Kept

LEMMA PassingLosesNothing ==
  ASSUME NEW o, NEW n, NEW l, NEW c \in Nat, NothingLost(n, o, l, c),
         \A b \in InBits(n) : n.drivers[b].cell = c /\ c \in Doomed(o, l, c + 1) =>
           l[b.cell] \in {"const", "select"} /\ b.cell \notin o.portCells
  PROVE  NothingLost(n, o, l, c + 1)
<1>1. \A x : x \in Doomed(o, l, c + 1) => x \in Doomed(o, l, c) \/ x = c
  <2>1. \A y \in Cells(o) : y < c + 1 /\ y # c => y < c
    BY DEF Cells, CellId
  <2> QED BY <2>1 DEF Doomed
<1> QED BY <1>1 DEF NothingLost

\* A labelled cell that no other cell reads may go as it is.
LEMMA InnerCellsReadIt ==
  ASSUME NEW o, NEW n, NEW l \in [CellId -> Label], \A x \in Cells(o) : l[x] # "none",
         NEW k, Kept(n, o, l, k), NEW c, ~IsBoundaryCell(n, l, c),
         NEW b \in InBits(n), n.drivers[b].cell = c
  PROVE  l[b.cell] \in {"const", "select"} /\ b.cell \notin o.portCells
<1>1. b \in OutReceivers(n, c) /\ b.cell \in Cells(n) /\ b.cell \in CellId
  BY InputIsReceived DEF Kept, Remains, Cells
<1>2. b.cell \in ReadersOf(n, c)
  BY <1>1 DEF ReadersOf
<1>3. l[b.cell] # "nonconst" /\ b.cell \notin n.portCells
  BY <1>2 DEF IsBoundaryCell
<1>4. b.cell \in Cells(o)
  <2>1. CellIns(n, b.cell) # {}
    BY DEF CellIns
  <2>2. Tp(n, b.cell) # "CONST"
    BY <1>1, <2>1, ReadingCell DEF Kept, Remains
  <2> QED BY <1>1, <2>2 DEF Kept, Remains
<1>5. l[b.cell] \in Label
  BY <1>1
<1> QED BY <1>3, <1>4, <1>5 DEF Label, Kept

\* The end: the labelled cells go, and nothing that is left read them.
LEMMA FinishLeaves ==
  ASSUME NEW o, WellFormed(o), NEW n, NEW l, NEW k, Kept(n, o, l, k),
         \A c \in Cells(o) : c < k, k \in Nat,
         NothingLost(n, o, l, k), NEW W, \A w \in W : ReadsAs(n, o, w)
  PROVE  LET d == BulkDelete(n, Doomed(o, l, k))
         IN  Remains(d, o) /\ \A w \in W : ReadsAs(d, o, w)
<1> DEFINE D == Doomed(o, l, k)
           d == BulkDelete(n, D)
<1>0. /\ WellFormed(n) /\ n \in Net /\ FullyDriven(n) /\ Acyclic(n) /\ Remains(n, o)
  BY DEF Kept, Remains, WellFormed
<1>1. D \in SUBSET (Cells(n) \ n.portCells) /\ D \in SUBSET CellId
  BY DEF Doomed, Kept, Cells
<1>2. WellFormed(d)
  BY <1>0, <1>1, BulkDeleteWellFormed
<1>3. /\ d.next = n.next
      /\ d.type = [c \in CellId |-> IF c \in D THEN NoType ELSE n.type[c]]
      /\ d.drivers = [b \in Bit |-> IF b.cell \in Cells(n) \ D /\ n.drivers[b].cell \in Cells(n) \ D
                                    THEN n.drivers[b] ELSE NoBit]
  BY <1>0, NetFields DEF BulkDelete
<1> HIDE DEF d, D
<1>4. /\ \A b \in Bit : b \in InBits(d) <=> b \in InBits(n) /\ b.cell \notin D
      /\ Cells(d) = Cells(n) \ D
  BY <1>0, <1>1, <1>3, SurvivingBits
<1>5. ASSUME NEW b \in InBits(d)
      PROVE  /\ b \in InBits(n) /\ d.drivers[b] = n.drivers[b]
             /\ n.drivers[b] # NoBit /\ n.drivers[b].cell \in Cells(d)
  <2>1. b \in Bit /\ b \in InBits(n) /\ b.cell \notin D
    BY <1>4 DEF InBits
  <2>2. b.cell \in Cells(n) /\ n.drivers[b].cell \in Cells(n)
    BY <1>0, <2>1, InputIsReceived
  <2>3. n.drivers[b].cell \notin D
    <3> SUFFICES ASSUME n.drivers[b].cell \in D PROVE FALSE
      OBVIOUS
    <3>1. l[b.cell] \in {"const", "select"} /\ b.cell \notin o.portCells
      BY <2>1 DEF NothingLost, D
    <3>2. b.cell \in Cells(o)
      <4>1. CellIns(n, b.cell) # {} /\ b.cell \in CellId
        BY <2>1, <2>2 DEF CellIns, Cells
      <4>2. Tp(n, b.cell) # "CONST"
        BY <1>0, <4>1, ReadingCell
      <4> QED BY <1>0, <2>2, <4>2 DEF Remains
    <3>3. b.cell < k /\ b.cell \in Nat
      BY <3>2 DEF Cells, CellId
    <3>4. ~(b.cell >= k)
      BY <3>3
    <3> QED BY <2>1, <2>2, <3>1, <3>2, <3>3, <3>4 DEF Kept, Doomed, D
  <2> QED BY <1>0, <1>3, <1>4, <2>1, <2>2, <2>3 DEF FullyDriven
<1>6. FullyDriven(d)
  BY <1>5 DEF FullyDriven
<1>7. \A c \in Cells(d) : c \in Cells(n) /\ d.type[c] = n.type[c]
  BY <1>3, <1>4 DEF Cells
<1>8. Acyclic(d)
  <2> SUFFICES ASSUME NEW S \in SUBSET Evaluated(d), S # {}
               PROVE  \E c \in S : \A p \in Reads(Tp(d, c)) : Driver(d, c, p) \notin S
    BY DEF Acyclic
  <2>1. ASSUME NEW c \in S
        PROVE  /\ c \in Evaluated(n) /\ Tp(d, c) = Tp(n, c)
               /\ \A p \in Reads(Tp(d, c)) : Driver(d, c, p) = Driver(n, c, p)
    <3>1. c \in Evaluated(d) /\ c \in Cells(d) /\ c \in Cells(n) /\ d.type[c] = n.type[c]
      BY <1>7 DEF Evaluated
    <3>2. c \in Evaluated(n) /\ Tp(d, c) = Tp(n, c)
      BY <3>1 DEF Evaluated, Inputs, Registers, Tp
    <3>3. \A p \in Reads(Tp(d, c)) : PinOf(c, p) \in InBits(d)
      BY <1>2, <1>6, <3>1, ReadsCells
    <3> QED BY <1>5, <3>2, <3>3 DEF Driver
  <2>2. S \in SUBSET Evaluated(n)
    BY <2>1
  <2>3. PICK c \in S : \A p \in Reads(Tp(n, c)) : Driver(n, c, p) \notin S
    BY <1>0, <2>2 DEF Acyclic
  <2> QED BY <2>1, <2>3
<1>9. Remains(d, o)
  BY <1>0, <1>2, <1>3, <1>6, <1>7, <1>8 DEF Remains, Tp
<1>10. ASSUME NEW w \in W
       PROVE  ReadsAs(d, o, w)
  <2> SUFFICES ASSUME NEW b \in InBits(d)
               PROVE  Value(d, o, w, d.drivers[b].cell) = w[o.drivers[b].cell]
    BY DEF ReadsAs
  <2> DEFINE x == n.drivers[b].cell
  <2>1. b \in InBits(n) /\ d.drivers[b].cell = x /\ x \in Cells(d)
    BY <1>5
  <2>2. Value(n, o, w, x) = w[o.drivers[b].cell]
    BY <2>1 DEF ReadsAs
  <2>3. d.type[x] = n.type[x] /\ x \in Cells(n)
    BY <1>7, <2>1
  <2>4. InitialValue(d, x) = InitialValue(n, x)
    BY <2>1, <2>3 DEF InitialValue, Memories, Tp
  <2> QED BY <2>1, <2>2, <2>4 DEF Value
<1> QED BY <1>9, <1>10 DEF d, D

-----------------------------------------------------------------------------
(* The invariant.                                                            *)

\* The value store v is one of a simulator that has been updated.
Updated(o, v) ==
  \E in \in [Inputs(o) -> Val], r \in [Registers(o) -> Val] : v = Wires(o, in, r, Zeros)

\* What the outputs can show from the call on, if labelled registers never move.
ShownFrom(o, v, l) ==
  {Wires(o, in, r, Zeros) : in \in [Inputs(o) -> Val],
     r \in {s \in [Registers(o) -> Val] : \A c \in Registers(o) : l[c] = "const" => s[c] = v[c]}}

ReadsTheSame(n, o, v, l) == \A w \in ShownFrom(o, v, l) : ReadsAs(n, o, w)

\* The labels when the cells in left are to be looked at.
Labelling(o, v, l, left) ==
  /\ l \in [CellId -> Label]
  /\ \A c \in CellId : l[c] = "none" <=> c \notin Cells(o)
  /\ Grounded(o, v, l)
  /\ left \subseteq Cells(o) /\ Settled(o, v, l, Cells(o) \ left)

\* No multiplexer chooses what is labelled.
Varying(o, v, l) ==
  \A c \in Cells(o) : l[c] = "select" => l[Driver(o, c, Chosen(v, o, c))] # "const"

\* The loop over the labels at cell k, when the cells in D are to be deleted.
Folding(n, o, v, l, k, D) ==
  /\ Kept(n, o, l, k) /\ D = Doomed(o, l, k)
  /\ ReadsTheSame(n, o, v, l)
  /\ Varying(o, v, l) => NothingLost(n, o, l, k)

Folded(n, o, v, l) == Remains(n, o) /\ ReadsTheSame(n, o, v, l)

LabelInv ==
  /\ orig \in Circuits /\ Updated(orig, store)
  /\ Labelling(orig, store, label, cellsLeft)
  /\ phase # "labelling" => cellsLeft = {}

IInv ==
  /\ LabelInv
  /\ WellFormed(def) /\ toDelete \subseteq Cells(orig) \ orig.portCells
  /\ at \in 1 .. orig.next
  /\ phase \in {"labelling", "folding", "done", "missing", "state"}
  /\ phase = "labelling" => def = orig /\ toDelete = {} /\ at = 1
  /\ phase = "folding" => Folding(def, orig, store, label, at, toDelete)
  /\ phase = "done" /\ Varying(orig, store, label) => Folded(def, orig, store, label)

LEMMA CircuitFacts ==
  ASSUME Orderly, NEW o \in Circuits
  PROVE  /\ o \in Net /\ WellFormed(o) /\ FullyDriven(o) /\ Acyclic(o)
         /\ \A c \in o.portCells : c \in Cells(o) /\ Tp(o, c) = "PORT"
         /\ \A c \in Cells(o) : Tp(o, c) = "PORT" => c \in o.portCells
         /\ \A c \in Cells(o) : c \in Nat /\ c < o.next
         /\ o.next \in Nat /\ o.next > 0
<1>1. WellFormed(o) /\ FullyDriven(o) /\ \A c \in Cells(o) : Tp(o, c) = "PORT" => c \in o.portCells
  BY FoldByStateAssumption
<1>2. o \in Net /\ o.portCells \subseteq Cells(o)
  BY <1>1 DEF WellFormed, CellsNumbered
<1>3. Acyclic(o) /\ \A c \in o.portCells : Tp(o, c) = "PORT"
  BY DEF Orderly
<1>4. o.next \in 1 .. MaxId + 1 /\ MaxId \in Nat
  BY <1>2, NetFields, NetlistAssumption
<1>5. ASSUME NEW c \in Cells(o) PROVE c \in Nat /\ c < o.next
  <2>1. c \in CellId /\ o.type[c] # NoType
    BY DEF Cells
  <2>2. ~(c >= o.next) /\ c \in Nat
    BY <1>1, <2>1 DEF WellFormed, CellsNumbered, CellId
  <2> QED BY <1>4, <2>2
<1> QED BY <1>1, <1>2, <1>3, <1>4, <1>5

LEMMA StoreSolves ==
  ASSUME Orderly, NEW o \in Circuits, NEW v, Updated(o, v)
  PROVE  Solution(o, v, Zeros) /\ v \in [CellId -> Val]
<1>1. PICK in \in [Inputs(o) -> Val], r \in [Registers(o) -> Val] : v = Wires(o, in, r, Zeros)
  BY DEF Updated
<1>2. WellFormed(o) /\ FullyDriven(o) /\ Acyclic(o)
  BY CircuitFacts
<1>3. Zeros \in [CellId -> [Addr -> Val]]
  BY DEF Zeros, Val
<1>4. Solution(o, v, Zeros)
  BY <1>1, <1>2, <1>3, WiresAreSolutions
<1>5. v = [c \in CellId |-> v[c]] /\ Agree(o, in, r, Zeros, v, CellId)
  BY <1>1, <1>2, WiresSolve
<1>6. \A c \in Cells(o) : v[c] \in Val
  BY <1>4 DEF Solution
<1>7. ASSUME NEW c \in CellId \ Cells(o) PROVE v[c] = X
  <2>1. c \notin Evaluated(o) /\ c \notin Inputs(o) /\ c \notin Registers(o) /\ c \notin Memories(o)
    BY DEF Evaluated, Inputs, Registers, Memories
  <2>2. v[c] = InitialValue(o, c)
    BY <1>5, <2>1 DEF Agree, WireValue
  <2> QED BY <2>1, <2>2 DEF InitialValue
<1> QED BY <1>4, <1>5, <1>6, <1>7, OutputTypes

LEMMA ShownAgree ==
  ASSUME Orderly, NEW o \in Circuits, NEW v, Updated(o, v), NEW l, Grounded(o, v, l),
         NEW w \in ShownFrom(o, v, l)
  PROVE  Solution(o, w, Zeros) /\ \A c \in Cells(o) : l[c] = "const" => w[c] = v[c]
<1>0. WellFormed(o) /\ FullyDriven(o) /\ Acyclic(o) /\ Solution(o, v, Zeros)
  BY CircuitFacts, StoreSolves
<1>1. PICK in \in [Inputs(o) -> Val], r \in [Registers(o) -> Val] :
        /\ w = Wires(o, in, r, Zeros)
        /\ \A c \in Registers(o) : l[c] = "const" => r[c] = v[c]
  BY DEF ShownFrom
<1>2. Zeros \in [CellId -> [Addr -> Val]]
  BY DEF Zeros, Val
<1>3. Solution(o, w, Zeros) /\ \A c \in Registers(o) : w[c] = r[c]
  BY <1>0, <1>1, <1>2, WiresAreSolutions
<1>4. \A c \in Registers(o) : l[c] = "const" => w[c] = v[c]
  BY <1>1, <1>3
<1> QED BY <1>0, <1>3, <1>4, LabelledShow

-----------------------------------------------------------------------------
(* The steps of the loop.                                                    *)

LEMMA FoldingStarts ==
  ASSUME Orderly, NEW o \in Circuits, NEW v, NEW l
  PROVE  Folding(o, o, v, l, 1, {})
<1>0. /\ WellFormed(o) /\ FullyDriven(o) /\ Acyclic(o)
      /\ \A c \in Cells(o) : c \in Nat /\ c < o.next
      /\ Cells(o) \subseteq CellId
  BY CircuitFacts DEF Cells
<1>1. \A c \in Cells(o) : c >= 1
  BY <1>0 DEF CellId
<1>2. Kept(o, o, l, 1)
  BY <1>0, <1>1 DEF Kept, Remains
<1>3. Doomed(o, l, 1) = {}
  BY <1>0, <1>1 DEF Doomed
<1>4. \A b \in InBits(o) : o.drivers[b].cell \in Cells(o)
  BY <1>0, InputIsReceived
<1>5. ReadsTheSame(o, o, v, l)
  BY <1>4 DEF ReadsTheSame, ReadsAs, Value
<1>6. NothingLost(o, o, l, 1)
  BY <1>3, <1>4 DEF NothingLost
<1> QED BY <1>2, <1>3, <1>5, <1>6 DEF Folding

LEMMA SkippingFolds ==
  ASSUME Orderly, NEW o \in Circuits, NEW v, NEW l, Labelling(o, v, l, {}), NEW c \in CellId,
         NEW n, NEW D, Folding(n, o, v, l, c, D),
         l[c] \in {"none", "nonconst"} \/ c \in n.portCells
  PROVE  Folding(n, o, v, l, c + 1, D)
<1>0. c \in Nat /\ Kept(n, o, l, c) /\ n.portCells = o.portCells
  BY DEF Folding, Kept, CellId
<1>1. c \in Cells(o) => l[c] # "select"
  BY <1>0, CircuitFacts DEF Labelling, Grounded
<1>2. c \notin Doomed(o, l, c + 1)
  BY <1>0 DEF Doomed
<1>3. Doomed(o, l, c + 1) = Doomed(o, l, c)
  <2>1. \A y \in Cells(o) : y \in Int /\ (y # c => (y < c + 1 <=> y < c)) /\ ~(c < c)
    BY <1>0 DEF Cells, CellId
  <2> QED BY <1>2, <2>1 DEF Doomed
<1>4. Kept(n, o, l, c + 1)
  BY <1>0, <1>1, PassingKeeps
<1>5. NothingLost(n, o, l, c) => NothingLost(n, o, l, c + 1)
  BY <1>0, <1>2, PassingLosesNothing
<1> QED BY <1>3, <1>4, <1>5 DEF Folding

LEMMA DoomedGrows ==
  ASSUME NEW o, NEW l, NEW c \in Cells(o) \ o.portCells, l[c] = "const"
  PROVE  Doomed(o, l, c + 1) = Doomed(o, l, c) \cup {c}
<1>1. c \in Nat /\ \A y \in Cells(o) : y \in Nat /\ (y < c + 1 <=> y < c \/ y = c)
  BY DEF Cells, CellId
<1> QED BY <1>1 DEF Doomed

LEMMA ForgettingFolds ==
  ASSUME Orderly, NEW o \in Circuits, NEW v, NEW l, Labelling(o, v, l, {}), NEW c \in CellId,
         NEW n, NEW D, Folding(n, o, v, l, c, D),
         l[c] = "const", c \notin n.portCells, ~IsBoundaryCell(n, l, c)
  PROVE  Folding(n, o, v, l, c + 1, D \cup {c})
<1>0. /\ c \in Nat /\ Kept(n, o, l, c) /\ n.portCells = o.portCells
      /\ c \in Cells(o) /\ l \in [CellId -> Label] /\ \A x \in Cells(o) : l[x] # "none"
  BY DEF Folding, Kept, CellId, Labelling, Cells
<1>1. Doomed(o, l, c + 1) = Doomed(o, l, c) \cup {c}
  BY <1>0, DoomedGrows
<1>2. Kept(n, o, l, c + 1)
  BY <1>0, PassingKeeps
<1>3. \A b \in InBits(n) : n.drivers[b].cell = c =>
        l[b.cell] \in {"const", "select"} /\ b.cell \notin o.portCells
  BY <1>0, InnerCellsReadIt
<1>4. NothingLost(n, o, l, c) => NothingLost(n, o, l, c + 1)
  BY <1>0, <1>3, PassingLosesNothing
<1> QED BY <1>1, <1>2, <1>4 DEF Folding

LEMMA ReplacingFolds ==
  ASSUME Orderly, NEW o \in Circuits, NEW v, Updated(o, v), NEW l, Labelling(o, v, l, {}),
         NEW c \in CellId, NEW n, NEW D, Folding(n, o, v, l, c, D),
         l[c] = "const", c \notin n.portCells,
         Tp(n, c) # "MUX", c \notin Registers(n) \cup Memories(n), n.next <= MaxId
  PROVE  Folding(ReplaceWithConstant(n, c, "OUT", Const(v[c])), o, v, l, c + 1, D \cup {c})
<1> DEFINE k == Const(v[c])
           d == ReplaceWithConstant(n, c, "OUT", k)
           e == n.next
<1>0. /\ Kept(n, o, l, c) /\ n.portCells = o.portCells /\ c \in Cells(o) /\ Grounded(o, v, l)
      /\ WellFormed(n) /\ FullyDriven(n) /\ Acyclic(n) /\ Remains(n, o) /\ n \in Net
  BY DEF Folding, Kept, Labelling, Cells, Remains, WellFormed
<1>1. /\ WellFormed(o) /\ o \in Net
      /\ \A x \in Cells(o) : Tp(o, x) = "PORT" => x \in o.portCells
      /\ v \in [CellId -> Val]
  BY CircuitFacts, StoreSolves
<1>2. /\ c \in Cells(n) /\ n.type[c] = o.type[c] /\ n.type[c] \in Kind
      /\ n.type[c].tp \notin {"PORT", "MEM"}
  <2>1. c \in Cells(n)
    BY <1>0 DEF Kept
  <2>2. n.type[c] = o.type[c] /\ n.type[c] \in Kind
    BY <1>0, <2>1, NetFields DEF Remains, Cells
  <2> QED BY <1>0, <1>1, <2>1, <2>2 DEF Tp, Memories
<1>3. "OUT" \in OutPort /\ Width(n.type[c], "OUT") = 1
  BY <1>2, OutputPort
<1>4. OnlyOutput(n, c, "OUT")
  BY <1>0, <1>2, OneOutput DEF OnlyOutput, Tp
<1>5. k \in Kind /\ k.tp = "CONST" /\ k.width = 1 /\ k.init[1] = v[c]
  BY <1>1, FoldByStateAssumption DEF Const
<1> HIDE DEF k
<1>6. Constantly(d, n, c, "OUT", k)
  BY <1>0, <1>2, <1>3, <1>4, <1>5, ReplacingHandsOver
<1> HIDE DEF d
<1>7. /\ HandedTo(n, c, d, e) /\ c \in Cells(d) /\ d.type[e] = k /\ e < d.next
      /\ e \notin Cells(n) /\ e \in Cells(d) /\ Tp(d, e) = "CONST"
      /\ n.next \in Nat /\ d.next \in Nat /\ n.next <= d.next
  <2>1. HandedTo(n, c, d, e) /\ c \in Cells(d) /\ d.type[e] = k /\ e < d.next /\ e \notin Cells(n)
    BY <1>6 DEF Constantly
  <2>2. d \in Net /\ e \in Cells(d)
    BY <2>1 DEF HandedTo, WellFormed
  <2>3. n.next \in 1 .. MaxId + 1 /\ d.next \in 1 .. MaxId + 1 /\ MaxId \in Nat
    BY <1>0, <2>2, NetFields, NetlistAssumption
  <2> QED BY <1>5, <2>1, <2>2, <2>3 DEF Tp
<1>8. e \notin Cells(o)
  BY <1>1, <1>0, <1>7, CircuitFacts DEF Remains
<1>9. Acyclic(d)
  <2>1. e \notin Evaluated(d)
    BY <1>7 DEF Evaluated
  <2> QED BY <1>0, <1>7, <2>1, HandingStaysAcyclic
<1>10. Kept(d, o, l, c + 1)
  BY <1>0, <1>1, <1>7, <1>8, <1>9, HandingKeeps
<1>11. NothingLost(n, o, l, c) => NothingLost(d, o, l, c + 1)
  BY <1>0, <1>7, <1>8, HandingLosesNothing
<1>12. ASSUME NEW w \in ShownFrom(o, v, l) PROVE ReadsAs(d, o, w)
  <2>1. w[c] = v[c]
    BY <1>0, ShownAgree
  <2>2. Value(d, o, w, e) = v[c]
    BY <1>5, <1>7, <1>8 DEF Value, InitialValue, Memories, Tp
  <2>3. ReadsAs(n, o, w)
    BY DEF Folding, ReadsTheSame
  <2> QED BY <1>0, <1>2, <1>7, <2>1, <2>2, <2>3, HandingKeepsReads
<1>13. Doomed(o, l, c + 1) = Doomed(o, l, c) \cup {c}
  BY <1>0, DoomedGrows
<1> QED BY <1>10, <1>11, <1>12, <1>13 DEF Folding, ReadsTheSame, d, k

\* The select is what it was: the multiplexer shows the chosen input for good.
LEMMA ChoosingReads ==
  ASSUME Orderly, NEW o \in Circuits, NEW v, Updated(o, v), NEW l, Labelling(o, v, l, {}),
         NEW c \in CellId, NEW n, NEW D, Folding(n, o, v, l, c, D),
         l[c] = "select", Driver(n, c, "SEL") \in Cells(o),
         NEW p, p = Chosen(v, n, c), PinOf(c, p) \in InBits(n)
  PROVE  /\ p = Chosen(v, o, c)
         /\ \A w \in ShownFrom(o, v, l) : Value(n, o, w, Driver(n, c, p)) = w[c]
<1>0. /\ Kept(n, o, l, c) /\ c \in Cells(o) /\ Grounded(o, v, l) /\ c \in Nat
      /\ WellFormed(n) /\ FullyDriven(n) /\ Remains(n, o) /\ ReadsTheSame(n, o, v, l)
  BY DEF Folding, Kept, Labelling, Cells, Remains, CellId
<1>1. WellFormed(o) /\ FullyDriven(o)
  BY CircuitFacts
<1>2. Tp(o, c) = "MUX" /\ DrivenByConstants(o, l, c, "SEL")
  BY <1>0 DEF Grounded
<1>3. c \in Cells(n) /\ Tp(n, c) = "MUX"
  <2>1. c \in Cells(n)
    BY <1>0 DEF Kept
  <2> QED BY <1>0, <1>2, <2>1 DEF Remains, Tp
<1>4. /\ c \in Evaluated(n) /\ "SEL" \in Reads(Tp(n, c))
      /\ c \in Evaluated(o) /\ "SEL" \in Reads(Tp(o, c))
  BY <1>0, <1>2, <1>3 DEF Evaluated, Inputs, Registers, Reads, Binary, Comparator
<1>5. PinOf(c, "SEL") \in InBits(n) /\ PinOf(c, "SEL") \in InBits(o)
  BY <1>0, <1>1, <1>4, ReadsCells
<1>6. l[Driver(o, c, "SEL")] = "const" /\ Driver(o, c, "SEL") \in Cells(o)
  BY <1>1, <1>2, <1>5, LabelledDriver
<1>7. Driver(n, c, "SEL") = Driver(o, c, "SEL")
  BY <1>0, <1>5, <1>6 DEF Kept, Driver
<1>8. p = Chosen(v, o, c)
  BY <1>7 DEF Chosen, In
<1>9. ASSUME NEW w \in ShownFrom(o, v, l)
      PROVE  Value(n, o, w, Driver(n, c, p)) = w[c]
  <2>1. /\ Solution(o, w, Zeros)
        /\ \A x \in Cells(o) : l[x] = "const" => w[x] = v[x]
    BY <1>0, ShownAgree
  <2>2. In(o, w, c, "SEL") = In(o, v, c, "SEL")
    BY <1>6, <2>1 DEF In
  <2>3. w[c] = In(o, w, c, p)
    BY <1>2, <1>4, <1>8, <2>1, <2>2, MuxShows DEF Solution, Chosen
  <2>4. ReadsAs(n, o, w)
    BY <1>0 DEF ReadsTheSame
  <2>5. Value(n, o, w, n.drivers[PinOf(c, p)].cell) = w[o.drivers[PinOf(c, p)].cell]
    BY <2>4 DEF ReadsAs
  <2> QED BY <2>3, <2>5 DEF In, Driver
<1> QED BY <1>8, <1>9

LEMMA ChoosingFolds ==
  ASSUME Orderly, NEW o \in Circuits, NEW v, Updated(o, v), NEW l, Labelling(o, v, l, {}),
         NEW c \in CellId, NEW n, NEW D, Folding(n, o, v, l, c, D),
         l[c] = "select", Driver(n, c, "SEL") \in Cells(o),
         NEW with, with = [i \in Offset |-> n.drivers[PinOf(c, Chosen(v, n, c))]]
  PROVE  Folding(DeleteCell(MoveReceivers(n, c, "OUT", with), c), o, v, l, c + 1, D)
<1> DEFINE p == Chosen(v, n, c)
           e == Driver(n, c, p)
           d == DeleteCell(MoveReceivers(n, c, "OUT", with), c)
<1>0. /\ Kept(n, o, l, c) /\ c \in Cells(o) /\ Grounded(o, v, l) /\ n.portCells = o.portCells
      /\ WellFormed(n) /\ FullyDriven(n) /\ Acyclic(n) /\ Remains(n, o) /\ c \in Nat
      /\ ReadsTheSame(n, o, v, l) /\ n \in Net
  BY DEF Folding, Kept, Labelling, Cells, Remains, CellId, WellFormed
<1>1. Tp(o, c) = "MUX" /\ WellFormed(o) /\ c \notin n.portCells
  BY <1>0, CircuitFacts DEF Grounded
<1>2. c \in Cells(n) /\ Tp(n, c) = "MUX"
  <2>1. c \in Cells(n)
    BY <1>0 DEF Kept
  <2> QED BY <1>0, <1>1, <2>1 DEF Remains, Tp
<1>3. p \in {"IN0", "IN1"}
  BY DEF Chosen
<1>4. with[0] = n.drivers[PinOf(c, p)]
  <2>1. 0 \in Offset
    BY NetlistAssumption DEF Offset
  <2> QED BY <2>1
<1>5. /\ FoldedInto(n, c, d, e) /\ d.next = n.next
      /\ c \in Evaluated(n) /\ e \in Cells(n)
      /\ p \in Reads(Tp(n, c)) /\ PinOf(c, p) \in InBits(n)
  <2> HIDE DEF p
  <2> QED BY <1>0, <1>1, <1>2, <1>3, <1>4, PassingFoldsInto
<1> HIDE DEF d, p
<1>6. HandedTo(n, c, d, e) /\ c \notin Cells(d) /\ n.next <= d.next /\ d.next \in Nat
  <2>1. n.next \in 1 .. MaxId + 1 /\ MaxId \in Nat
    BY <1>0, NetFields, NetlistAssumption
  <2> QED BY <1>5, <2>1 DEF FoldedInto
<1>7. Acyclic(d)
  BY <1>0, <1>5, <1>6, HandingStaysAcyclic
<1>8. Kept(d, o, l, c + 1)
  BY <1>0, <1>1, <1>5, <1>6, <1>7, HandingKeeps
<1>9. /\ p = Chosen(v, o, c)
      /\ \A w \in ShownFrom(o, v, l) : Value(n, o, w, e) = w[c]
  BY <1>5, ChoosingReads DEF p
<1>10. ASSUME Varying(o, v, l)
       PROVE  NothingLost(d, o, l, c + 1)
  <2>1. NothingLost(n, o, l, c)
    BY <1>10 DEF Folding
  <2>2. l[Driver(o, c, p)] # "const"
    BY <1>0, <1>9, <1>10 DEF Varying
  <2>3. e \in Cells(o) /\ l[e] # "const"
    BY <1>5, <2>1, <2>2 DEF NothingLost, Driver
  <2> QED BY <1>0, <1>6, <2>1, <2>3, HandingLosesNothing
<1>11. ASSUME NEW w \in ShownFrom(o, v, l)
       PROVE  ReadsAs(d, o, w)
  <2>1. Value(n, o, w, e) = w[c] /\ ReadsAs(n, o, w)
    BY <1>0, <1>9 DEF ReadsTheSame
  <2>2. e \in Cells(d) /\ d.type[e] = n.type[e]
    BY <1>5, <1>6 DEF HandedTo
  <2>3. InitialValue(d, e) = InitialValue(n, e)
    BY <1>5, <2>2 DEF InitialValue, Memories, Tp
  <2>4. Value(d, o, w, e) = w[c]
    BY <2>1, <2>3 DEF Value
  <2> QED BY <1>0, <1>2, <1>6, <2>1, <2>4, HandingKeepsReads
<1>12. Doomed(o, l, c + 1) = Doomed(o, l, c)
  <2>1. \A y \in Cells(o) : y \in Int /\ (y # c => (y < c + 1 <=> y < c)) /\ ~(c < c)
    BY <1>0 DEF Cells, CellId
  <2> QED BY <2>1 DEF Doomed
<1> QED BY <1>8, <1>10, <1>11, <1>12 DEF Folding, ReadsTheSame, d

LEMMA FinishingFolds ==
  ASSUME Orderly, NEW o \in Circuits, NEW v, NEW l,
         NEW n, NEW D, Folding(n, o, v, l, o.next, D)
  PROVE  /\ WellFormed(BulkDelete(n, D))
         /\ Varying(o, v, l) => Folded(BulkDelete(n, D), o, v, l)
<1>0. /\ Kept(n, o, l, o.next) /\ D = Doomed(o, l, o.next) /\ ReadsTheSame(n, o, v, l)
      /\ WellFormed(n) /\ n.portCells = o.portCells
  BY DEF Folding, Kept, Remains
<1>1. WellFormed(o) /\ o.next \in Nat /\ \A c \in Cells(o) : c < o.next
  BY CircuitFacts
<1>2. D \in SUBSET (Cells(n) \ n.portCells)
  BY <1>0 DEF Doomed, Kept
<1>3. WellFormed(BulkDelete(n, D))
  BY <1>0, <1>2, BulkDeleteWellFormed
<1>4. ASSUME Varying(o, v, l)
      PROVE  Folded(BulkDelete(n, D), o, v, l)
  <2>1. NothingLost(n, o, l, o.next)
    BY <1>4 DEF Folding
  <2>2. \A w \in ShownFrom(o, v, l) : ReadsAs(n, o, w)
    BY <1>0 DEF ReadsTheSame
  <2> QED BY <1>0, <1>1, <2>1, <2>2, FinishLeaves DEF Folded, ReadsTheSame
<1> QED BY <1>3, <1>4

-----------------------------------------------------------------------------
(* The invariant is inductive.                                               *)

LEMMA LowestIsIn ==
  ASSUME NEW S \in SUBSET CellId, S # {}
  PROVE  Lowest(S) \in S
<1>1. S \in SUBSET Nat
  BY DEF CellId
<1>2. PICK k \in S : \A j \in S : k <= j
  BY <1>1, LeastNumber
<1> QED BY <1>2 DEF Lowest

LEMMA InitIInv == ASSUME Orderly PROVE Init => IInv
<1> SUFFICES ASSUME Init PROVE IInv
  OBVIOUS
<1>1. /\ orig \in Circuits /\ def = orig /\ cellsLeft = Cells(orig)
      /\ toDelete = {} /\ at = 1 /\ phase = "labelling"
  BY DEF Init
<1>2. WellFormed(orig) /\ orig.next \in Nat /\ orig.next > 0
  BY <1>1, CircuitFacts
<1>3. Updated(orig, store)
  BY DEF Init, Updated
<1>4. Labelling(orig, store, label, cellsLeft)
  <2>1. label = [c \in CellId |-> IF c \in Cells(orig) THEN InitialLabel(orig, c) ELSE "none"]
    BY DEF Init
  <2>2. /\ label \in [CellId -> Label] /\ Grounded(orig, store, label)
        /\ \A c \in CellId : label[c] = "none" <=> c \notin Cells(orig)
    BY <1>2, <2>1, InitialLabels
  <2> QED BY <1>1, <2>2 DEF Labelling, Settled
<1> QED BY <1>1, <1>2, <1>3, <1>4 DEF IInv, LabelInv

LEMMA RelabelLabels ==
  ASSUME Orderly, NEW o \in Circuits, NEW v, NEW l, NEW S, Labelling(o, v, l, S),
         NEW c \in S, NEW k, Relabels(o, v, l, c, k), NEW T, Queues(o, v, l, c, S, T)
  PROVE  Labelling(o, v, k, T) /\ Rises(l, k)
<1>0. /\ l \in [CellId -> Label] /\ Grounded(o, v, l) /\ S \in SUBSET Cells(o) /\ c \in Cells(o)
      /\ Settled(o, v, l, Cells(o) \ S) /\ WellFormed(o) /\ FullyDriven(o)
      /\ Cells(o) \subseteq CellId
      /\ \A d \in CellId : l[d] = "none" <=> d \notin Cells(o)
  BY CircuitFacts DEF Labelling, Cells
<1>1. /\ k \in [CellId -> Label] /\ Rises(l, k) /\ Grounded(o, v, k)
      /\ \A d \in CellId : k[d] = "none" => l[d] = "none"
      /\ \A d \in CellId : l[d] = "none" => d = c \/ k[d] = "none"
  BY <1>0, RelabelGrounded
<1>2. T \subseteq Cells(o) /\ Settled(o, v, k, Cells(o) \ T)
  BY <1>0, RelabelSettles
<1>3. \A d \in CellId : k[d] = "none" <=> d \notin Cells(o)
  BY <1>0, <1>1
<1> QED BY <1>1, <1>2, <1>3 DEF Labelling

LEMMA RelabelIInv ==
  ASSUME Orderly, IInv, Relabel
  PROVE  IInv' /\ Rises(label, label')
<1>1. /\ phase = "labelling" /\ cellsLeft # {} /\ def = orig /\ orig \in Circuits
      /\ UNCHANGED <<def, store, toDelete, at, phase, orig>>
      /\ Labelling(orig, store, label, cellsLeft) /\ Updated(orig, store)
  BY DEF Relabel, IInv, LabelInv
<1> DEFINE c == Lowest(cellsLeft)
<1>2. c \in cellsLeft
  BY <1>1, LowestIsIn DEF Labelling, Cells
<1>3. /\ Relabels(orig, store, label, c, label')
      /\ Queues(orig, store, label, c, cellsLeft, cellsLeft')
  BY <1>1 DEF Relabel, Relabels, Queues
<1> HIDE DEF c
<1>4. Labelling(orig, store, label', cellsLeft') /\ Rises(label, label')
  BY <1>1, <1>2, <1>3, RelabelLabels
<1>5. LabelInv'
  BY <1>1, <1>4 DEF LabelInv
<1> QED BY <1>1, <1>4, <1>5 DEF IInv

LEMMA LabelledIInv == ASSUME Orderly, IInv, Labelled PROVE IInv'
<1>1. /\ phase = "labelling" /\ cellsLeft = {} /\ def = orig /\ toDelete = {} /\ at = 1
      /\ phase' = "folding" /\ orig \in Circuits
      /\ UNCHANGED <<def, store, label, cellsLeft, toDelete, at, orig>>
  BY DEF Labelled, IInv, LabelInv
<1>2. Folding(orig, orig, store, label, 1, {})
  BY <1>1, FoldingStarts
<1>3. Folding(def, orig, store, label, at, toDelete)'
  BY <1>1, <1>2
<1>4. LabelInv'
  BY <1>1 DEF IInv, LabelInv
<1> QED BY <1>1, <1>3, <1>4 DEF IInv

\* A turn of the loop at cell c.
LEMMA TurnIInv ==
  ASSUME Orderly, IInv, NEW c \in 1 .. orig.next - 1,
         Skip(c) \/ Forget(c) \/ Replace(c) \/ Choose(c),
         UNCHANGED <<store, label, cellsLeft, orig>>
  PROVE  IInv'
<1>1. /\ phase = "folding" /\ at = c /\ at' = c + 1 /\ orig \in Circuits
      /\ Updated(orig, store) /\ Folding(def, orig, store, label, c, toDelete)
      /\ WellFormed(def) /\ toDelete \subseteq Cells(orig) \ orig.portCells
      /\ cellsLeft = {} /\ Labelling(orig, store, label, {})
      /\ label \in [CellId -> Label] /\ \A d \in CellId : label[d] = "none" <=> d \notin Cells(orig)
      /\ Kept(def, orig, label, c) /\ def.portCells = orig.portCells
  BY DEF Skip, Forget, Replace, Choose, Turn, IInv, LabelInv, Labelling, Folding, Kept
<1>2. c \in CellId /\ c + 1 \in 1 .. orig.next
  <2>1. orig.next \in 1 .. MaxId + 1 /\ MaxId \in Nat
    BY <1>1, CircuitFacts, NetFields, NetlistAssumption
  <2> QED BY <2>1 DEF CellId
<1>3. LabelInv'
  <2>1. phase' # "labelling"
    BY <1>1 DEF Skip, Forget, Replace, Choose
  <2> QED BY <1>1, <2>1 DEF LabelInv
<1>4. label[c] = "const" /\ c \notin def.portCells => c \in Cells(orig) \ orig.portCells
  BY <1>1, <1>2
<1>5. ASSUME phase' = "folding", WellFormed(def'), toDelete' \subseteq Cells(orig) \ orig.portCells,
             Folding(def', orig, store, label, c + 1, toDelete')
      PROVE  IInv'
  BY <1>1, <1>2, <1>3, <1>5 DEF IInv
<1>6. ASSUME phase' \in {"missing", "state"}, def' = def,
             toDelete' \subseteq Cells(orig) \ orig.portCells
      PROVE  IInv'
  BY <1>1, <1>2, <1>3, <1>6 DEF IInv
<1>7. CASE Skip(c)
  <2>1. Folding(def, orig, store, label, c + 1, toDelete)
    BY <1>1, <1>2, <1>7, SkippingFolds DEF Skip
  <2> QED BY <1>1, <1>5, <1>7, <2>1 DEF Skip
<1>8. CASE Forget(c)
  <2>1. Folding(def, orig, store, label, c + 1, toDelete \cup {c})
    BY <1>1, <1>2, <1>8, ForgettingFolds DEF Forget
  <2> QED BY <1>1, <1>4, <1>5, <1>8, <2>1 DEF Forget
<1>9. CASE Replace(c)
  <2>0. /\ toDelete' = toDelete \cup {c} /\ toDelete' \subseteq Cells(orig) \ orig.portCells
        /\ label[c] = "const" /\ c \notin def.portCells
    BY <1>1, <1>4, <1>9 DEF Replace
  <2>1. CASE Tp(def, c) = "MUX" \/ c \in Registers(def) \cup Memories(def)
    BY <1>6, <1>9, <2>0, <2>1 DEF Replace
  <2>2. CASE Tp(def, c) # "MUX" /\ c \notin Registers(def) \cup Memories(def)
    <3>1. /\ def.next <= MaxId /\ phase' = phase
          /\ def' = ReplaceWithConstant(def, c, "OUT", Const(store[c]))
      BY <1>9, <2>2 DEF Replace
    <3>2. Folding(def', orig, store, label, c + 1, toDelete')
      BY <1>1, <1>2, <2>0, <2>2, <3>1, ReplacingFolds
    <3>3. WellFormed(def')
      BY <3>2 DEF Folding, Kept, Remains
    <3> QED BY <1>1, <1>5, <2>0, <3>1, <3>2, <3>3
  <2> QED BY <2>1, <2>2
<1>10. CASE Choose(c)
  <2> DEFINE with == [o \in Offset |-> def.drivers[PinOf(c, Chosen(store, def, c))]]
  <2>0. toDelete' = toDelete /\ label[c] = "select"
    BY <1>10 DEF Choose
  <2>1. CASE Driver(def, c, "SEL") \notin Cells(orig)
    BY <1>1, <1>6, <1>10, <2>0, <2>1 DEF Choose
  <2>2. CASE Driver(def, c, "SEL") \in Cells(orig)
    <3>1. def' = DeleteCell(MoveReceivers(def, c, "OUT", with), c) /\ phase' = phase
      BY <1>10, <2>2 DEF Choose
    <3> HIDE DEF with
    <3>2. with = [i \in Offset |-> def.drivers[PinOf(c, Chosen(store, def, c))]]
      BY DEF with
    <3>3. Folding(def', orig, store, label, c + 1, toDelete')
      BY <1>1, <1>2, <2>0, <2>2, <3>1, <3>2, ChoosingFolds
    <3>4. WellFormed(def')
      BY <3>3 DEF Folding, Kept, Remains
    <3> QED BY <1>1, <1>5, <2>0, <3>1, <3>3, <3>4
  <2> QED BY <2>1, <2>2
<1> QED BY <1>7, <1>8, <1>9, <1>10

LEMMA FinishIInv == ASSUME Orderly, IInv, Finish PROVE IInv'
<1>1. /\ phase = "folding" /\ at = orig.next /\ def' = BulkDelete(def, toDelete) /\ phase' = "done"
      /\ UNCHANGED <<store, label, cellsLeft, toDelete, at, orig>>
      /\ orig \in Circuits /\ Folding(def, orig, store, label, orig.next, toDelete)
  BY DEF Finish, IInv, LabelInv
<1>2. /\ WellFormed(def')
      /\ Varying(orig, store, label) => Folded(def', orig, store, label)
  BY <1>1, FinishingFolds
<1>3. LabelInv'
  BY <1>1 DEF IInv, LabelInv
<1> QED BY <1>1, <1>2, <1>3 DEF IInv

\* An action property as well: labels only rise.
LEMMA NextIInv ==
  ASSUME Orderly, IInv, [Next]_vars
  PROVE  IInv' /\ Rises(label, label')
<1>1. CASE Relabel
  BY <1>1, RelabelIInv
<1>2. CASE Labelled
  BY <1>2, LabelledIInv DEF Labelled, Rises
<1>3. CASE FoldTurn
  <2>1. label' = label
    BY <1>3 DEF FoldTurn
  <2> QED BY <1>3, <2>1, TurnIInv DEF FoldTurn, Rises
<1>4. CASE Finish
  BY <1>4, FinishIInv DEF Finish, Rises
<1>5. CASE UNCHANGED vars
  <2>1. IInv'
    BY <1>5 DEF vars, IInv, LabelInv
  <2> QED BY <1>5, <2>1 DEF vars, Rises
<1> QED BY <1>1, <1>2, <1>3, <1>4, <1>5 DEF Next

THEOREM InvariantHolds == ASSUME Orderly PROVE Spec => []IInv
<1>1. Init => IInv
  BY InitIInv
<1>2. IInv /\ [Next]_vars => IInv'
  BY NextIInv
<1> QED BY <1>1, <1>2, PTL DEF Spec

-----------------------------------------------------------------------------
(* What it says of the properties.                                           *)

\* The definition stays well formed at every step, and no port is to be deleted.
THEOREM TypeCorrect == ASSUME Orderly PROVE Spec => []TypeOK
<1>1. IInv => TypeOK
  <2> SUFFICES ASSUME IInv PROVE TypeOK
    OBVIOUS
  <2>1. store \in [CellId -> Val]
    BY StoreSolves DEF IInv, LabelInv
  <2>2. label \in [CellId -> Label]
    BY DEF IInv, LabelInv, Labelling
  <2>3. cellsLeft \subseteq Cells(def)
    BY DEF IInv, LabelInv, Labelling
  <2> QED BY <2>1, <2>2, <2>3 DEF IInv, TypeOK
<1> QED BY <1>1, InvariantHolds, PTL

\* The work list forgets no cell.
THEOREM LabelsSettle == ASSUME Orderly PROVE Spec => []LabelsAreSettled
<1>1. IInv => LabelsAreSettled
  <2> SUFFICES ASSUME IInv, JustLabelled
               PROVE  \A c \in Cells(orig) : label[c] = NewLabel(orig, store, label, c)
    BY DEF LabelsAreSettled
  <2>1. cellsLeft = {} /\ Settled(orig, store, label, Cells(orig) \ cellsLeft)
    BY DEF JustLabelled, IInv, LabelInv, Labelling
  <2> QED BY <2>1 DEF Settled
<1> QED BY <1>1, InvariantHolds, PTL

\* What was found constant stays so.
THEOREM LabelsRise == ASSUME Orderly PROVE Spec => LabelsOnlyRise
<1>1. IInv /\ [Next]_vars => [\A c \in CellId : label[c] = "const" => label'[c] = "const"]_vars
  BY NextIInv DEF Rises
<1> QED BY <1>1, InvariantHolds, PTL DEF Spec, LabelsOnlyRise

\* Every input of a labelled register that its label was given for.
LEMMA LabelledInput ==
  ASSUME Orderly, NEW o \in Circuits, NEW v, Updated(o, v), NEW l, Grounded(o, v, l),
         NEW c, NEW p, PinOf(c, p) \in InBits(o), DrivenByConstants(o, l, c, p)
  PROVE  /\ v[Driver(o, c, p)] \in Val
         /\ \A w \in ShownFrom(o, v, l) : In(o, w, c, p) = v[Driver(o, c, p)]
<1>1. Driver(o, c, p) \in Cells(o) /\ l[Driver(o, c, p)] = "const"
  BY CircuitFacts, LabelledDriver
<1>2. v[Driver(o, c, p)] \in Val
  BY <1>1, StoreSolves DEF Solution
<1> QED BY <1>1, <1>2, ShownAgree DEF In

LEMMA RegisterInputs ==
  ASSUME NEW o, WellFormed(o), FullyDriven(o), NEW c \in Registers(o)
  PROVE  /\ c \in Cells(o) /\ Tp(o, c) \in {"REG", "REG_ARST"}
         /\ {"IN", "CLK"} \subseteq InPort
         /\ PinOf(c, "IN") \in InBits(o) /\ PinOf(c, "CLK") \in InBits(o)
         /\ Tp(o, c) = "REG_ARST" => PinOf(c, "ARST") \in InBits(o)
<1>1. c \in Cells(o) /\ o.type[c] \in Kind /\ Tp(o, c) \in {"REG", "REG_ARST"}
  BY NetFields DEF Registers, Cells, WellFormed
<1>2. /\ {"IN", "CLK"} \subseteq DOMAIN PortWidths(o.type[c])
      /\ Tp(o, c) = "REG_ARST" => "ARST" \in DOMAIN PortWidths(o.type[c])
  BY <1>1 DEF PortWidths, Comparator, Binop, ReduceOp, Unop, Tp
<1>3. {"IN", "CLK"} \subseteq InPort
  BY <1>1, <1>2 DEF InPort, Port
<1> QED BY <1>1, <1>2, <1>3, PortIsDriven

LEMMA ShownIsFrom == Shown = ShownFrom(orig, store, label)
BY DEF ShownFrom, Shown, RegStates

\* A labelled cell shows what the value store has for it whatever the inputs and the
\* other registers do, and a labelled register never takes another value.
THEOREM LabelsSound == ASSUME Orderly PROVE Spec => []LabelsAreSound
<1>1. IInv => LabelsAreSound
  <2> SUFFICES ASSUME IInv, JustLabelled, NEW c \in Cells(orig), label[c] = "const"
               PROVE  /\ \A w \in Shown : w[c] = store[c]
                      /\ c \in Registers(orig) =>
                           /\ Still(c, "CLK") \/ \A w \in Shown : In(orig, w, c, "IN") = store[c]
                           /\ Tp(orig, c) = "REG_ARST" => Still(c, "ARST")
    BY DEF LabelsAreSound
  <2>1. /\ orig \in Circuits /\ Updated(orig, store) /\ Grounded(orig, store, label)
        /\ WellFormed(orig) /\ FullyDriven(orig)
    BY CircuitFacts DEF IInv, LabelInv, Labelling
  <2>2. \A w \in Shown : w[c] = store[c]
    BY <2>1, ShownAgree, ShownIsFrom
  <2>3. ASSUME c \in Registers(orig)
        PROVE  /\ Still(c, "CLK") \/ \A w \in Shown : In(orig, w, c, "IN") = store[c]
               /\ Tp(orig, c) = "REG_ARST" => Still(c, "ARST")
    <3>1. Reason(orig, store, label, c)
      BY <2>1 DEF Grounded
    <3>2. /\ Tp(orig, c) \in {"REG", "REG_ARST"} /\ "CLK" \in InPort
          /\ PinOf(c, "CLK") \in InBits(orig)
          /\ Tp(orig, c) = "REG_ARST" => PinOf(c, "ARST") \in InBits(orig)
      BY <2>1, <2>3, RegisterInputs
    <3>3. CASE Tp(orig, c) = "REG"
      <4>1. DrivenByConstants(orig, label, c, "CLK")
        BY <3>1, <3>2, <3>3 DEF Reason
      <4>2. Still(c, "CLK")
        BY <2>1, <3>2, <4>1, LabelledInput, ShownIsFrom DEF Still
      <4> QED BY <3>3, <4>2
    <3>4. CASE Tp(orig, c) = "REG_ARST"
      <4>1. DrivenByConstants(orig, label, c, "ARST") /\ ReadsItself(orig, c)
        BY <3>1, <3>4 DEF Reason
      <4>2. Still(c, "ARST")
        BY <2>1, <3>2, <3>4, <4>1, LabelledInput, ShownIsFrom DEF Still
      <4>3. Driver(orig, c, "IN") = c
        BY <4>1 DEF ReadsItself, Driver, PinOf
      <4> QED BY <2>2, <4>2, <4>3 DEF In
    <3> QED BY <3>2, <3>3, <3>4
  <2> QED BY <2>2, <2>3
<1> QED BY <1>1, InvariantHolds, PTL

\* Where no multiplexer chooses what is labelled, the definition that is left has lost no
\* driver and every input reads what it reads in the original, whatever the inputs do.
THEOREM FoldingByStateKeepsTheFunction == ASSUME Orderly PROVE Spec => []SameFunction
<1>1. IInv => SameFunction
  <2> SUFFICES ASSUME IInv, phase = "done", ChoicesVary
               PROVE  /\ FullyDriven(def)
                      /\ \A in \in [Inputs(orig) -> Val], r \in RegStates, b \in InBits(def) :
                           Wires(def, in, r, Zeros)[def.drivers[b].cell]
                             = Wires(orig, in, r, Zeros)[orig.drivers[b].cell]
    BY DEF SameFunction
  <2>1. /\ orig \in Circuits /\ Remains(def, orig) /\ ReadsTheSame(def, orig, store, label)
        /\ WellFormed(orig) /\ FullyDriven(orig) /\ Acyclic(orig)
    BY CircuitFacts DEF IInv, LabelInv, ChoicesVary, Varying, Folded
  <2>2. ASSUME NEW in \in [Inputs(orig) -> Val], NEW r \in RegStates, NEW b \in InBits(def)
        PROVE  Wires(def, in, r, Zeros)[def.drivers[b].cell]
                 = Wires(orig, in, r, Zeros)[orig.drivers[b].cell]
    <3>1. r \in [Registers(orig) -> Val]
      BY DEF RegStates
    <3>2. Wires(orig, in, r, Zeros) \in ShownFrom(orig, store, label)
      BY ShownIsFrom DEF Shown
    <3>3. ReadsAs(def, orig, Wires(orig, in, r, Zeros))
      BY <2>1, <3>2 DEF ReadsTheSame
    <3> QED BY <2>1, <3>1, <3>3, RemainsReadTheSame
  <2> QED BY <2>1, <2>2 DEF Remains
<1> QED BY <1>1, InvariantHolds, PTL

\* A select that is known leaves nothing labelled to choose: ChoicesVary excepts only
\* multiplexers whose constant select is unknown.
THEOREM KnownSelectsVary ==
  ASSUME Orderly
  PROVE  Spec => [](JustLabelled /\ (\A c \in Cells(orig) :
                       label[c] = "select" => In(orig, store, c, "SEL") \in {0, 1}) => ChoicesVary)
<1> DEFINE SelectsKnown ==
             \A c \in Cells(orig) : label[c] = "select" => In(orig, store, c, "SEL") \in {0, 1}
<1>1. IInv => (JustLabelled /\ SelectsKnown => ChoicesVary)
  <2> SUFFICES ASSUME IInv, JustLabelled, SelectsKnown, NEW c \in Cells(orig), label[c] = "select"
               PROVE  label[Driver(orig, c, Chosen(store, orig, c))] # "const"
    BY DEF ChoicesVary
  <2> DEFINE p == Chosen(store, orig, c)
  <2>1. /\ orig \in Circuits /\ Grounded(orig, store, label)
        /\ label[c] = NewLabel(orig, store, label, c)
    BY DEF JustLabelled, IInv, LabelInv, Labelling, Settled
  <2>2. Tp(orig, c) = "MUX" /\ DrivenByConstants(orig, label, c, "SEL")
    BY <2>1 DEF Grounded
  <2>3. MuxLabel(orig, store, label, c) = "select" /\ In(orig, store, c, "SEL") \in {0, 1}
    BY <2>1, <2>2 DEF NewLabel, Inputs
  <2>4. ~DrivenByConstants(orig, label, c, p)
    BY <2>2, <2>3 DEF MuxLabel, Chosen
  <2>5. PICK r \in CellIns(orig, c) : r.port = p /\ label[orig.drivers[r].cell] # "const"
    BY <2>4 DEF DrivenByConstants
  <2>6. r = PinOf(c, p)
    BY <2>5, InputPins DEF CellIns
  <2> QED BY <2>5, <2>6 DEF Driver
<1> QED BY <1>1, InvariantHolds, PTL

=============================================================================
