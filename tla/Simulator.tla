----------------------------- MODULE Simulator -----------------------------
(***************************************************************************)
(* The interpreter of class Simulator: setFreshValue and update, run on a  *)
(* definition whose ports are one bit wide.  update drains a queue of      *)
(* input ports whose driver changed (combChanges), then lets the registers *)
(* and memories whose clock or reset changed (seqChanges) load, then       *)
(* drives their outputs, and repeats while that queued anything.  Each     *)
(* turn of a loop is a step; a client calls only when phase is "idle".     *)
(***************************************************************************)
EXTENDS CellSemantics

CONSTANTS
  Circuits,     \* the definitions a simulator is constructed for
  Fresh         \* the values a client gives to setFreshValue

VARIABLES
  def,          \* the definition
  value,        \* portOffsets: the value of a cell's output (or output port)
  past,         \* pastValueOffsets: what an output that clocks something was
  reg,          \* registerOffsets: the state of the registers
  mem,          \* memoryOffsets: the state of the memories
  combChanges,  \* input ports whose value may have changed
  seqChanges,   \* clock and reset ports whose value has changed
  userInputs,   \* what setFreshValue left for the next update
  reread,       \* memoriesToUpdate
  phase         \* where update is, or the assertion that stopped it

store == <<value, past, reg, mem>>
vars  == <<def, store, combChanges, seqChanges, userInputs, reread, phase>>

NoPast == 3             \* no past value is kept for the output
Past   == Val \cup {NoPast}
Phase  == {"constructing", "idle", "comb", "reread", "lost event", "x address"}

\* materializeInput asserts that what it reads is driven.
ASSUME SimulatorAssumption ==
  /\ Fresh \subseteq Val
  /\ \A n \in Circuits : WellFormed(n) /\ FullyDriven(n)

-----------------------------------------------------------------------------
(* The constructor.  It queues the receivers of every output, clock ports    *)
(* included, and then calls update.                                          *)

Init ==
  /\ def \in Circuits
  /\ value = [c \in CellId |-> InitialValue(def, c)]
  /\ past  = [c \in CellId |-> IF SeqReceivers(def, c) # {} THEN 0 ELSE NoPast]
  /\ reg   = [c \in CellId |-> IF c \in Registers(def) THEN InitialValue(def, c) ELSE X]
  /\ mem   = [c \in CellId |-> [a \in Addr |-> X]]
  /\ combChanges = UNION {SeqReceivers(def, c) \cup CombReceivers(def, c) : c \in Cells(def)}
  /\ seqChanges  = {}
  /\ userInputs  = [c \in CellId |-> {}]
  /\ reread = {}
  /\ phase  = "constructing"

(* setFreshValue.  userInputs is a set ordered by port and then value, and an  *)
(* unknown value is neither below nor above another: it takes the place of    *)
(* both, and keeps both out.                                                 *)

SetFreshValue(c, v) ==
  /\ phase = "idle"
  /\ c \in Inputs(def)
  /\ userInputs' = [userInputs EXCEPT
       ![c] = IF \A w \in @ : QLess(v, w) \/ QLess(w, v) THEN @ \cup {v} ELSE @]
  /\ UNCHANGED <<def, store, combChanges, seqChanges, reread, phase>>

(* combinationalSignalChange of several outputs, none of which is an input    *)
(* of another: output c goes to new[c], in one call or, by way of mid[c], in  *)
(* two.  Whoever receives an output that changed is queued.  What the output  *)
(* was before the last call becomes its past value whether it changed or not. *)

\* fault: a pulse is no change
ChangedOverall(mid, new, C) == {c \in C : new[c] # value[c]}

Changed(mid, new, C) == {c \in C : mid[c] # value[c] \/ new[c] # mid[c]}

\* fault: the past value is kept only when the output changes
SignalIfChanged(C, mid, new, combs, seqs) ==
  LET changed == Changed(mid, new, C)
  IN  /\ value' = [c \in CellId |-> IF c \in C THEN new[c] ELSE value[c]]
      /\ past'  = [c \in CellId |-> IF c \in changed /\ SeqReceivers(def, c) # {}
                                    THEN mid[c] ELSE past[c]]
      /\ combChanges' = combs \cup UNION {CombReceivers(def, c) : c \in changed}
      /\ seqChanges'  = seqs  \cup UNION {SeqReceivers(def, c)  : c \in changed}

Signal(C, mid, new, combs, seqs) ==
  LET changed == Changed(mid, new, C)
  IN  /\ value' = [c \in CellId |-> IF c \in C THEN new[c] ELSE value[c]]
      /\ past'  = [c \in CellId |-> IF c \in C /\ SeqReceivers(def, c) # {}
                                    THEN mid[c] ELSE past[c]]
      /\ combChanges' = combs \cup UNION {CombReceivers(def, c) : c \in changed}
      /\ seqChanges'  = seqs  \cup UNION {SeqReceivers(def, c)  : c \in changed}

(* update: the input ports are first signalled their own value, which brings   *)
(* their past value up to date, and then what userInputs holds, the smaller   *)
(* of two values first.                                                      *)

PortMid(c)  == IF userInputs[c] = {0, 1} THEN 0 ELSE value[c]
PortLast(c) == IF userInputs[c] = {} THEN value[c]
               ELSE CHOOSE v \in userInputs[c] : \A w \in userInputs[c] : ~QLess(v, w)

Update ==
  /\ phase \in {"idle", "constructing"}
  /\ Signal(Inputs(def), [c \in CellId |-> PortMid(c)], [c \in CellId |-> PortLast(c)],
            combChanges, seqChanges)
  /\ userInputs' = [c \in CellId |-> {}]
  /\ phase' = "comb"
  /\ UNCHANGED <<def, reg, mem, reread>>

(* One turn of the inner loop: the first port of combChanges is taken out and  *)
(* its cell evaluated.                                                       *)

UpdatePort(c, combs) ==
  LET new == [value EXCEPT ![c] = Eval(def, value, mem, c)]
  IN  Signal({c}, value, new, combs, seqChanges)

CombStep ==
  /\ phase = "comb"
  /\ combChanges # {}
  /\ LET s == First(combChanges)
     IN  IF s.cell \in Evaluated(def)
         THEN UpdatePort(s.cell, combChanges \ {s})
         ELSE combChanges' = combChanges \ {s} /\ UNCHANGED <<value, past, seqChanges>>
  /\ UNCHANGED <<def, reg, mem, userInputs, reread, phase>>

(* updateSequentialPort of every port of seqChanges: the states change, the    *)
(* outputs do not.                                                           *)

EdgeOn(c, p, positive) == Edge(positive, In(def, past, c, p), In(def, value, c, p))

Clocked == {s.cell : s \in seqChanges}

Resets(c) == /\ Tp(def, c) = "REG_ARST"
             /\ EdgeOn(c, "ARST", def.type[c].rstPos)

\* fault: a register that is clocked ignores its reset
NextRegClockFirst(c) ==
  IF EdgeOn(c, "CLK", def.type[c].clkPos) THEN In(def, value, c, "IN")
  ELSE IF Resets(c) THEN def.type[c].init[1] ELSE reg[c]

NextReg(c) ==
  IF Resets(c) THEN def.type[c].init[1]
  ELSE IF EdgeOn(c, "CLK", def.type[c].clkPos) THEN In(def, value, c, "IN")
  ELSE reg[c]

Writes(c) == EdgeOn(c, "CLK", TRUE) /\ In(def, value, c, "WEN") = 1

NextMem(c) == IF Writes(c)
              THEN [mem[c] EXCEPT ![In(def, value, c, "WADDR")] = In(def, value, c, "WDATA")]
              ELSE mem[c]

UnknownAddress(c) == Writes(c) /\ ~IsBinary(In(def, value, c, "WADDR"))

\* to_type asserts that the address is binary.
StoreAborts ==
  /\ phase = "comb" /\ combChanges = {}
  /\ \E c \in Memories(def) \cap Clocked : UnknownAddress(c)
  /\ phase' = "x address"
  /\ UNCHANGED <<def, store, combChanges, seqChanges, userInputs, reread>>

SeqStep ==
  LET regs == {c \in Registers(def) \cap Clocked : NextReg(c) # reg[c]}
      mems == {c \in Memories(def) \cap Clocked : NextMem(c) # mem[c]}
  IN  /\ phase = "comb" /\ combChanges = {}
      /\ \A c \in Memories(def) \cap Clocked : ~UnknownAddress(c)
      /\ reg' = [c \in CellId |-> IF c \in regs THEN NextReg(c) ELSE reg[c]]
      /\ mem' = [c \in CellId |-> IF c \in mems THEN NextMem(c) ELSE mem[c]]
      /\ Signal(regs, value, reg', {}, {})
      /\ reread' = mems
      /\ phase' = "reread"
      /\ UNCHANGED <<def, userInputs>>

(* The memories that were written drive their read ports.                    *)

RereadStep ==
  /\ phase = "reread"
  /\ \E m \in reread :
       /\ \A c \in reread : m <= c
       /\ UpdatePort(m, combChanges)
       /\ reread' = reread \ {m}
  /\ UNCHANGED <<def, reg, mem, userInputs, phase>>

(* The outer loop ends when no port is left in combChanges; seqChanges must    *)
(* then be empty too.                                                        *)

\* faults: the loop is not entered again, and never left
LoopEndOnce ==
  /\ phase = "reread" /\ reread = {}
  /\ phase' = "idle"
  /\ UNCHANGED <<def, store, combChanges, seqChanges, userInputs, reread>>

LoopEndForever ==
  /\ phase = "reread" /\ reread = {}
  /\ phase' = "comb"
  /\ UNCHANGED <<def, store, combChanges, seqChanges, userInputs, reread>>

LoopEnd ==
  /\ phase = "reread" /\ reread = {}
  /\ phase' = IF combChanges # {} THEN "comb"
              ELSE IF seqChanges # {} THEN "lost event" ELSE "idle"
  /\ UNCHANGED <<def, store, combChanges, seqChanges, userInputs, reread>>

Running == CombStep \/ StoreAborts \/ SeqStep \/ RereadStep \/ LoopEnd

Next ==
  \/ \E c \in CellId, v \in Fresh : SetFreshValue(c, v)
  \/ Update
  \/ Running

Spec == Init /\ [][Next]_vars

\* update runs on its caller's thread: once entered it goes on, and nothing
\* runs in between.
FairSpec == Spec /\ WF_vars(Running) /\ WF_vars(Update /\ phase = "constructing")

-----------------------------------------------------------------------------
\* The store, the queues and the pending inputs have their types.
TypeOK ==
  /\ value \in [CellId -> Val]
  /\ past  \in [CellId -> Past]
  /\ reg   \in [CellId -> Val]
  /\ mem   \in [CellId -> [Addr -> Val]]
  /\ combChanges \subseteq [cell : CellId, port : InPort]
  /\ seqChanges  \subseteq [cell : CellId, port : InPort]
  /\ userInputs \in [CellId -> SUBSET Val]
  /\ reread \subseteq Memories(def)
  /\ phase \in Phase

\* No lost wake-up: a cell whose output is not what its inputs say has one of its
\* inputs in the queue, or is a memory about to be read again, at every step of
\* update, whatever the circuit is (cycles and derived clocks included).
StaleCellsArePending ==
  \A c \in Evaluated(def) :
    \/ value[c] = Eval(def, value, mem, c)
    \/ c \in reread
    \/ \E s \in combChanges : s.cell = c

\* What a client reads between two updates: every output agrees with the inputs
\* of its cell, and every register shows its state.
Settled ==
  phase = "idle" =>
    /\ \A c \in Evaluated(def) : value[c] = Eval(def, value, mem, c)
    /\ \A c \in Registers(def) : value[c] = reg[c]

\* update ends by asserting that no clock event is left (simulator.h:500).
NoLostEvent == phase # "lost event"

\* Every update of a circuit without combinational cycles returns, or stops because
\* the address it is to write is unknown.
UpdateReturns == phase # "idle" ~> phase \in {"idle", "x address"}
=============================================================================
