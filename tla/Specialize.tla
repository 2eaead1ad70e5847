----------------------------- MODULE Specialize -----------------------------
(***************************************************************************)
(* Specialization of a running simulation: specializePort replaces input   *)
(* ports by constants, specializeCircuit folds the definition under the    *)
(* simulator, deletes what is dead, merges duplicates, and lets            *)
(* refreshConstants bring the store in line with the new definition.  The  *)
(* interpreter, foldConstants and the removals are the modules Simulator,  *)
(* FoldConstants and Cleanup, here on one definition.  Beside it the       *)
(* definition as it was runs synchronously on the same inputs.             *)
(***************************************************************************)
EXTENDS SimulatorSync

VARIABLES
  specialized,  \* specializedPorts
  stage,        \* what the caller is in: "client" is none of the below
  regs, candidates, frozen,            \* of FoldConstants
  todo,                                \* of Cleanup
  orig,                                \* history: the definition as it was
  ins, old, origReg, origMem, pc       \* history: the run of it

running == <<store, combChanges, seqChanges, userInputs, reread, phase>>
folding == <<regs, candidates, frozen>>
twin    == <<ins, old, origReg, origMem, pc>>
allVars == <<def, running, specialized, stage, folding, todo, orig, twin>>

Fold  == INSTANCE FoldConstants WITH phase <- stage
Clean == INSTANCE Cleanup WITH pass <- stage
Orig  == INSTANCE SyncCircuit WITH def <- orig, reg <- origReg, mem <- origMem

SpecializeInit ==
  /\ Init
  /\ specialized = {} /\ stage = "client"
  /\ regs = << >> /\ candidates = {} /\ frozen = [c \in CellId |-> Fold!NotConst]
  /\ todo = {}
  /\ orig = def
  /\ Orig!Init

-----------------------------------------------------------------------------
(* The simulator.  A cell may clock others that nothing clocked when the     *)
(* store was laid out: then no past value is kept for it, and signalling it  *)
(* stops the program.                                                        *)

ClockBits(n) == {b \in InBits(n) : b.port \in {"CLK", "ARST"}}

\* What the next step signals; the cells whose past value it sets or reads.
Signalled ==
  CASE phase \in {"idle", "constructing"} -> Inputs(def)
    [] phase = "comb" /\ combChanges # {} -> {First(combChanges).cell} \cap Evaluated(def)
    [] phase = "comb" /\ combChanges = {} ->
         {c \in Registers(def) \cap Clocked : NextReg(c) # reg[c]}
    [] phase = "reread" -> {m \in reread : \A c \in reread : m <= c}
    [] OTHER -> {}

PastLookedUp ==
  {c \in Signalled : SeqReceivers(def, c) # {}}
    \cup IF phase = "comb" /\ combChanges = {}
         THEN {def.drivers[b].cell : b \in {x \in ClockBits(def) : x.cell \in Clocked}} ELSE {}

PastIsFound == \A c \in PastLookedUp : past[c] # NoPast

\* Bound: one value for a port between two updates.
CallSetFreshValue(c, v) ==
  /\ stage \in {"client", "ports", "changed"}
  /\ userInputs[c] = {}
  /\ SetFreshValue(c, v)
  /\ UNCHANGED <<specialized, stage, folding, todo, orig, twin>>

\* The original circuit gets the same inputs, but holds those that are specialized; it
\* is not run if its clocks are gated.
HeldOr(c, v) == IF c \in specialized THEN ins[c] ELSE v

TwinChanges ==
  /\ Orig!Change
  /\ \A c \in Inputs(orig) : ins'[c] = HeldOr(c, PortLast(c))
  /\ \A c \in Orig!Clocks(orig) : old'[c] = HeldOr(c, PortMid(c))

CallUpdate ==
  /\ stage = "client"
  /\ PastIsFound
  /\ Update
  /\ IF ClocksArePorts(orig) THEN TwinChanges ELSE UNCHANGED twin
  /\ UNCHANGED <<specialized, stage, folding, todo, orig>>

UpdateTurn ==
  /\ stage = "client"
  /\ PastIsFound
  /\ Running
  /\ IF pc = "clocked" /\ phase = "comb" /\ phase' = "reread"
     THEN Orig!Clock ELSE UNCHANGED twin
  /\ UNCHANGED <<specialized, stage, folding, todo, orig>>

PastIsMissing ==
  /\ stage = "client" /\ phase # "idle"
  /\ ~PastIsFound
  /\ stage' = "no past value"
  /\ UNCHANGED <<def, running, specialized, folding, todo, orig, twin>>

-----------------------------------------------------------------------------
(* specializePort, once for a port, with the value it has or another.  Until  *)
(* the constants are refreshed the store has none of them: a client does not *)
(* update in between, and does not fold when a port was given another value, *)
(* since folding queues nobody (constants are refreshed before and after).   *)
(* Bound: ports are specialized in the order of their identifiers, as         *)
(* allInputsToConstants does with all of them, at 0.                         *)

SpecializePort(c, v) ==
  /\ stage \in {"client", "ports", "changed"} /\ phase = "idle"
  /\ c \in Inputs(def) /\ \A d \in specialized : d < c
  /\ def.next <= MaxId
  /\ def' = ReplaceWithConstant(def, c, "OUT", Fold!Const(v))
  /\ specialized' = specialized \cup {c}
  /\ stage' = IF stage # "changed" /\ v = value[c] THEN "ports" ELSE "changed"
  /\ ins' = [ins EXCEPT ![c] = v]
  /\ UNCHANGED <<running, folding, todo, orig, old, origReg, origMem, pc>>

(* specializeCircuit.  Bound: when there is something to fold.               *)

BeginFolding ==
  /\ stage \in {"client", "ports"} /\ phase = "idle"
  /\ \E c \in Cells(def) : Fold!ReadsConstant(def, c) /\ Fold!Foldable(def, c, reg)
  /\ stage' = "folding"
  /\ regs' = [c \in Registers(def) |-> reg[c]]
  /\ candidates' = {c \in Cells(def) : Fold!ReadsConstant(def, c)}
  /\ UNCHANGED <<def, running, specialized, frozen, todo, orig, twin>>

FoldTurn ==
  /\ Fold!Next
  /\ UNCHANGED <<running, specialized, todo, twin>>

BeginDeleting ==
  /\ stage = "done"
  /\ stage' = "dead"
  /\ UNCHANGED <<def, running, specialized, folding, todo, orig, twin>>

CleanTurn ==
  /\ Clean!Turn \/ (stage = "dead deleted" /\ Clean!Begin("duplicates"))
  /\ UNCHANGED <<running, specialized, folding, twin>>

\* refreshConstants; it goes on with an update.
Constants == {c \in Cells(def) : Tp(def, c) = "CONST"}

\* faults: a constant that clocks something gets no past value, and nobody is told
RefreshWithoutPast ==
  /\ stage \in {"ports", "changed", "none"}
  /\ value' = [c \in CellId |-> IF c \in Constants THEN InitialValue(def, c) ELSE value[c]]
  /\ combChanges' = UNION {SeqReceivers(def, c) \cup CombReceivers(def, c) : c \in Constants}
  /\ phase' = "constructing" /\ stage' = "client"
  /\ UNCHANGED <<def, past, reg, mem, seqChanges, userInputs, reread,
                 specialized, folding, todo, orig, twin>>

RefreshSilently ==
  /\ stage \in {"ports", "changed", "none"}
  /\ value' = [c \in CellId |-> IF c \in Constants THEN InitialValue(def, c) ELSE value[c]]
  /\ past'  = [c \in CellId |-> IF c \in Constants /\ SeqReceivers(def, c) # {}
                                THEN InitialValue(def, c) ELSE past[c]]
  /\ phase' = "constructing" /\ stage' = "client"
  /\ UNCHANGED <<def, reg, mem, combChanges, seqChanges, userInputs, reread,
                 specialized, folding, todo, orig, twin>>

RefreshConstants ==
  /\ stage \in {"ports", "changed", "none"}
  /\ value' = [c \in CellId |-> IF c \in Constants THEN InitialValue(def, c) ELSE value[c]]
  /\ past'  = [c \in CellId |-> IF c \in Constants /\ SeqReceivers(def, c) # {}
                                THEN InitialValue(def, c) ELSE past[c]]
  /\ combChanges' = UNION {SeqReceivers(def, c) \cup CombReceivers(def, c) : c \in Constants}
  /\ phase' = "constructing" /\ stage' = "client"
  /\ UNCHANGED <<def, reg, mem, seqChanges, userInputs, reread,
                 specialized, folding, todo, orig, twin>>

Specializing == BeginFolding \/ FoldTurn \/ BeginDeleting \/ CleanTurn \/ RefreshConstants

SpecializeNext ==
  \/ \E c \in CellId, v \in Fresh : CallSetFreshValue(c, v)
  \/ CallUpdate \/ UpdateTurn \/ PastIsMissing
  \/ \E c \in Inputs(def) : \E v \in Fresh \cup {value[c]} : SpecializePort(c, v)
  \/ Specializing

SpecializeSpec == SpecializeInit /\ [][SpecializeNext]_allVars

\* What the theorems are about: definitions without combinational cycles, whose cells of
\* type PORT are those addPort made, and in which no name of a constant that replaces a
\* cell is taken.
Specializable ==
  /\ \A v \in Val : Fold!Const(v) \in Kind
  /\ \A n \in Circuits :
       /\ Acyclic(n)
       /\ \A c \in Cells(n) : Tp(n, c) = "PORT" <=> c \in n.portCells
       /\ \A c \in Cells(n) \ n.portCells : \A p \in OutPort : ~NameTaken(n, c, p)

\* Without memories foldConstants leaves no cell unfolded that reads constants alone.
Memoryless == \A k \in Kind : k.tp # "MEM"

-----------------------------------------------------------------------------
\* The store and the definition keep their types while the one is rewritten under the
\* other, and nothing in a queue of the simulator names a cell that is gone.
SpecializeTypeOK ==
  /\ TypeOK
  /\ specialized \subseteq Inputs(orig)
  /\ \A s \in combChanges \cup seqChanges : s.cell \in Cells(def)

\* What the registers and memories that are gone held, and showed, is what they were
\* replaced by; foldConstants does not ask (transformations.cpp:93 and 342).
Kept ==
  /\ \A c \in Registers(orig) : frozen[c] \in {Fold!NotConst, reg[c]}
  /\ \A c \in Memories(orig) \ Cells(def) : value[c] = 0 /\ \A a \in Addr : mem[c][a] = 0

\* The simulator is settled after an update, whatever was folded under it: of a circuit
\* that is rewritten no cell is left with a value it does not compute.
SettlesAgain == stage = "client" /\ Kept => Settled

\* A client cannot tell: whatever was specialized, whenever, and whatever inputs were
\* pending, the simulator is settled after an update, and every cell that is left shows
\* what it would show in the circuit as it was with the specialized ports held; no
\* register or memory misses an edge or loads at another.  (While what folded cells held
\* is kept; the second part is for clocks that are ports.)
ShowsTheOriginal ==
  stage = "client" /\ phase = "idle" /\ Kept =>
    /\ SettlesAgain
    /\ ClocksArePorts(orig) =>
         LET wire == Wires(orig, ins, origReg, origMem)
         IN  /\ \A c \in (Cells(orig) \cap Cells(def)) \ Inputs(orig) : value[c] = wire[c]
             /\ \A c \in Registers(orig) \cap Cells(def) : reg[c] = origReg[c]
             /\ \A c \in Memories(orig) \cap Cells(def) : mem[c] = origMem[c]

\* No assertion stops a specialization or an update after it: the definition stays
\* consistent for the passes that follow, and whatever clocks a register has a past
\* value, unless clocks were gated before (value_store.h:553).
SpecializationSucceeds ==
  /\ stage \notin {"no cell", "unfolded", "left over"}
  /\ phase # "lost event"
  /\ stage = "no past value" => ~ClocksArePorts(orig)
=============================================================================
