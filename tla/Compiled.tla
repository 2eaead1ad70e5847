------------------------------ MODULE Compiled ------------------------------
(***************************************************************************)
(* The compiled simulation.  After compileCircuit update runs generated    *)
(* code, group by group of the schedule: first the four-state code, on the *)
(* table of the interpreter, whose bytes have a mask of unknown bits; and  *)
(* after simulateRaw the two-state code, on a table of bytes of its own.   *)
(* Ports are one bit wide, so each has a byte, and an operation leaves in  *)
(* it what C++ leaves in a uint8_t.                                        *)
(***************************************************************************)
EXTENDS Schedule

CONSTANT Fresh    \* the values a client gives to setFreshValue

VARIABLES
  simRaw,         \* simulateRaw was called: the table below is the raw one
  value, past,    \* the bytes of the table: the output of a cell, and what it was before
  reg, mem,       \* its registers and memories
  xValue, xReg, xMem,   \* their x_mask; nothing reads the mask of a past value
  userInputs,     \* what setFreshValue left for the next update
  at              \* the next group update runs

masks == <<xValue, xReg, xMem>>
table == <<value, past, reg, mem, masks>>
vars  == <<scheduling, simRaw, table, userInputs, at>>

Byte == 0 .. 255

\* The generator knows no reduction but ORR, and stops where the output of a memory clocks
\* something: it asks a memory for port OUT.  A sum may be larger than a bit (Compute), and as
\* an address would leave the memory.
ASSUME CompiledAssumption ==
  /\ Fresh \subseteq Val
  /\ \A k \in Kind : k.tp # "ANDR"
  /\ \A n \in Circuits : /\ WellFormed(n) /\ FullyDriven(n)
                         /\ \A c \in Memories(n) : SeqReceivers(n, c) = {}
                         /\ Memories(n) = {} \/ \A c \in Cells(n) : Tp(n, c) \notin {"ADD", "SUB"}

\* Between two calls; "written": with values in the raw table no update has seen.
Waiting == {"compiled", "idle", "written"}

TwoState(v) == IF v = X THEN 0 ELSE v
IsX(v)      == Bool(v = X)

\* The table of a simulator that has just been constructed; where something is clocked the
\* past is 0 or unknown.  An unknown bit of an input or register has no value yet and is 0; one
\* of a gate may have kept what it was while the constructor settled the wires (setBitVector
\* sets its mask only), where this says 0: the first update stores every gate anew, and only
\* the first edge of a clock that comes from a gate could tell.
Init ==
  /\ ScheduleInit
  /\ simRaw = FALSE
  /\ LET r == [c \in CellId |-> IF c \in Registers(def) THEN InitialValue(def, c) ELSE X]
         m == [c \in CellId |-> [a \in Addr |-> X]]
         w == Wires(def, [c \in CellId |-> X], r, m)
     IN  /\ value = [c \in CellId |-> TwoState(w[c])] /\ xValue = [c \in CellId |-> IsX(w[c])]
         /\ reg = [c \in CellId |-> TwoState(r[c])]   /\ xReg = [c \in CellId |-> IsX(r[c])]
  /\ past = [c \in CellId |-> 0]
  /\ mem  = [c \in CellId |-> [a \in Addr |-> 0]]
  /\ xMem = [c \in CellId |-> [a \in Addr |-> 1]]
  /\ userInputs = [c \in CellId |-> {}]
  /\ at = 0

\* What the four-state table shows, as getBitVector reads it.
Shown(x, v) == [c \in DOMAIN v |-> IF x[c] % 2 = 1 THEN X ELSE v[c] % 2]

\* simulateRaw copies constants and registers to a raw table that is all 0, and leaves the
\* other table for good; a register has the state its output shows.
SimulateRaw ==
  /\ phase \in Waiting /\ ~simRaw
  /\ LET kept == [c \in CellId |->
                    IF c \in Registers(def) \/ (c \in Cells(def) /\ Tp(def, c) = "CONST")
                    THEN TwoState(Shown(xValue, value)[c]) ELSE 0]
     IN  /\ value' = kept
         /\ reg' = [c \in CellId |-> IF c \in Registers(def) THEN kept[c] ELSE 0]
  /\ past' = [c \in CellId |-> 0]
  /\ mem'  = [c \in CellId |-> [a \in Addr |-> 0]]
  /\ xValue' = past' /\ xReg' = past' /\ xMem' = mem'
  /\ simRaw' = TRUE
  /\ phase' = "compiled"
  /\ UNCHANGED <<def, combChanges, freshChanges, seqChanges, visit, updates, userInputs, at>>

\* As in the interpreter, an unknown value keeps all others out, or is kept out.
SetFreshValue(c, v) ==
  /\ phase \in Waiting
  /\ c \in Inputs(def)
  /\ userInputs' = [userInputs EXCEPT
       ![c] = IF \A w \in @ : QLess(v, w) \/ QLess(w, v) THEN @ \cup {v} ELSE @]
  /\ UNCHANGED <<scheduling, simRaw, table, at>>

\* Straight into the raw table, where the next update finds it.
SetFreshValueTwoState(c, v) ==
  /\ phase \in Waiting /\ simRaw
  /\ c \in Inputs(def)
  /\ value' = [value EXCEPT ![c] = v]
  /\ phase' = "written"
  /\ UNCHANGED <<def, combChanges, freshChanges, seqChanges, visit, updates, simRaw, past, reg, mem,
                 masks, userInputs, at>>

\* updateCompiledTwoState and updateCompiledFourState: the larger of two values is written
\* last.  Where a value is not known the raw table gets 0, the other keeps the bit.
Update ==
  /\ phase \in Waiting
  /\ LET given == [c \in CellId |->
                     IF userInputs[c] = {} THEN Shown(xValue, value)[c]
                     ELSE CHOOSE v \in userInputs[c] : \A w \in userInputs[c] : ~QLess(v, w)]
     IN  /\ value' = [c \in CellId |->
                        IF userInputs[c] = {} \/ (~simRaw /\ given[c] = X) THEN value[c]
                        ELSE TwoState(given[c])]
         /\ xValue' = [c \in CellId |->
                         IF userInputs[c] = {} THEN xValue[c] ELSE Bool(~simRaw /\ given[c] = X)]
  /\ userInputs' = [c \in CellId |-> {}]
  /\ phase' = "running"
  /\ at' = 1
  /\ UNCHANGED <<def, combChanges, freshChanges, seqChanges, visit, updates, simRaw, past, reg, mem,
                 xReg, xMem>>

-----------------------------------------------------------------------------
(* The code of a combinational group.                                      *)

\* A port all of whose bits are those of one output, as here, loads its whole container.
Operand(v, c, p) == In(def, v, c, p)

\* The input a multiplexer passes on, and what a memory gives.
Chosen(v, c)    == IF Operand(v, c, "SEL") # 0 THEN "IN1" ELSE "IN0"
Loaded(v, m, c) == m[c][Operand(v, c, "RADDR")]

Bits(x) == {i \in 0 .. 7 : (x \div 2^i) % 2 = 1}
FromBits(S) ==
  LET bit(i) == IF i \in S THEN 2^i ELSE 0
  IN  bit(0) + bit(1) + bit(2) + bit(3) + bit(4) + bit(5) + bit(6) + bit(7)

\* fault: the complement of the byte
ComplementByte(a) == 255 - a

Complement(a) == 1 - (a % 2)

Compute(v, m, c) ==
  LET tp == Tp(def, c)
      a  == Operand(v, c, "IN")
      x  == Operand(v, c, "IN0")
      y  == Operand(v, c, "IN1")
  IN  CASE tp \in {"PORT", "PASSTHROUGH", "ZEXT"} -> a
        [] tp = "SLICE" -> a % 2
        [] tp = "NOT"   -> Complement(a)
        [] tp = "ORR"   -> Bool(a # 0)
        [] tp = "AND"   -> FromBits(Bits(x) \cap Bits(y))
        [] tp = "OR"    -> FromBits(Bits(x) \cup Bits(y))
        [] tp = "XOR"   -> FromBits((Bits(x) \cup Bits(y)) \ (Bits(x) \cap Bits(y)))
        [] tp = "ADD"   -> (x + y) % 256
        [] tp = "SUB"   -> (x - y) % 256
        [] tp = "EQ"    -> Bool(x = y)
        [] tp = "NEQ"   -> Bool(x # y)
        [] tp = "ULT"   -> Bool(x < y)
        [] tp = "UGT"   -> Bool(x > y)
        [] tp = "ULE"   -> Bool(x <= y)
        [] tp = "UGE"   -> Bool(x >= y)
        [] tp = "MUX"   -> Operand(v, c, Chosen(v, c))
        [] tp = "MEM"   -> Loaded(v, m, c)

\* fault: the mask of the second operand is forgotten
XMaskOfFirst(v, x, m, c) ==
  LET tp == Tp(def, c)
  IN  IF tp = "MUX" THEN Operand(x, c, Chosen(v, c))
      ELSE IF tp = "MEM" THEN Loaded(v, m, c)
      ELSE Operand(x, c, IF tp \in Binary THEN "IN0" ELSE "IN")

\* The masks the four-state code computes beside it: a gate knows its output only if it
\* knows its inputs, a multiplexer and a memory ask for their data, not for what selects.
XMask(v, x, m, c) ==
  LET tp == Tp(def, c)
  IN  CASE tp \in Unary \cup {"PORT"} -> Operand(x, c, "IN")
        [] tp \in Binary -> FromBits(Bits(Operand(x, c, "IN0")) \cup Bits(Operand(x, c, "IN1")))
        [] tp = "MUX"   -> Operand(x, c, Chosen(v, c))
        [] tp = "MEM"   -> Loaded(v, m, c)

\* The table w with what the code of a cell stores in it; a register shows its state.
Store(w, c) ==
  LET shows == IF c \in Registers(def) THEN [v |-> reg[c], x |-> xReg[c]]
               ELSE [v |-> Compute(w.v, mem, c), x |-> XMask(w.v, w.x, xMem, c)]
  IN  [v |-> [w.v EXCEPT ![c] = shows.v],
       x |-> IF simRaw THEN w.x ELSE [w.x EXCEPT ![c] = shows.x]]

\* The cells one after the other.
Evaluate(cells) ==
  LET after[i \in 0 .. Len(cells)] ==
        IF i = 0 THEN [v |-> value, x |-> xValue] ELSE Store(after[i - 1], cells[i])
  IN  after[Len(cells)]

\* An output that clocks something leaves what it was in its past value.
CombBlock ==
  /\ phase = "running" /\ at \in DOMAIN updates /\ at % 2 = 1
  /\ LET done == Evaluate(updates[at]) IN value' = done.v /\ xValue' = done.x
  /\ past' = [c \in CellId |-> IF c \in Range(updates[at]) /\ SeqReceivers(def, c) # {}
                               THEN value[c] ELSE past[c]]
  /\ at' = at + 1
  /\ UNCHANGED <<scheduling, simRaw, reg, mem, xReg, xMem, userInputs>>

-----------------------------------------------------------------------------
(* The code of a clocked group: no cell reads what another writes.         *)

\* two_state_posedge and two_state_negedge.
EdgeOn(c, p, positive) ==
  LET was == Operand(past, c, p)
      is  == Operand(value, c, p)
  IN  IF positive THEN was = 0 /\ is # 0 ELSE was # 0 /\ is = 0

\* fault: the test of the clock is the last
NextRegClockLast(c) ==
  IF EdgeOn(c, "CLK", def.type[c].clkPos) THEN Operand(value, c, "IN")
  ELSE IF Tp(def, c) = "REG_ARST" /\ EdgeOn(c, "ARST", def.type[c].rstPos)
  THEN TwoState(def.type[c].init[1]) ELSE reg[c]

NextReg(c) ==
  IF Tp(def, c) = "REG_ARST" /\ EdgeOn(c, "ARST", def.type[c].rstPos)
  THEN TwoState(def.type[c].init[1])
  ELSE IF EdgeOn(c, "CLK", def.type[c].clkPos) THEN Operand(value, c, "IN")
  ELSE reg[c]

\* A mask goes with what is loaded; what a reset loads is known.
NextXReg(c) ==
  IF simRaw THEN xReg[c]
  ELSE IF Tp(def, c) = "REG_ARST" /\ EdgeOn(c, "ARST", def.type[c].rstPos) THEN 0
  ELSE IF EdgeOn(c, "CLK", def.type[c].clkPos) THEN Operand(xValue, c, "IN")
  ELSE xReg[c]

Writes(c)  == Operand(value, c, "WEN") # 0 /\ EdgeOn(c, "CLK", TRUE)
NextMem(c) == [mem[c] EXCEPT ![Operand(value, c, "WADDR")] =
                 IF Writes(c) THEN Operand(value, c, "WDATA") ELSE @]
NextXMem(c) == [xMem[c] EXCEPT ![Operand(value, c, "WADDR")] =
                  IF Writes(c) /\ ~simRaw THEN Operand(xValue, c, "WDATA") ELSE @]

SeqBlock ==
  /\ phase = "running" /\ at \in DOMAIN updates /\ at % 2 = 0
  /\ LET regs == Range(updates[at]) \cap Registers(def)
         mems == Range(updates[at]) \cap Memories(def)
     IN  /\ reg'  = [c \in CellId |-> IF c \in regs THEN NextReg(c) ELSE reg[c]]
         /\ xReg' = [c \in CellId |-> IF c \in regs THEN NextXReg(c) ELSE xReg[c]]
         /\ mem'  = [c \in CellId |-> IF c \in mems THEN NextMem(c) ELSE mem[c]]
         /\ xMem' = [c \in CellId |-> IF c \in mems THEN NextXMem(c) ELSE xMem[c]]
  /\ at' = at + 1
  /\ UNCHANGED <<scheduling, simRaw, value, past, xValue, userInputs>>

\* sequentialPortUpdateCode: the input ports that clock something.
Return ==
  /\ phase = "running" /\ at \notin DOMAIN updates
  /\ past' = [c \in CellId |-> IF c \in Inputs(def) /\ SeqReceivers(def, c) # {}
                               THEN value[c] ELSE past[c]]
  /\ phase' = "idle"
  /\ at' = 0
  /\ UNCHANGED <<def, combChanges, freshChanges, seqChanges, visit, updates, simRaw, value, reg,
                 mem, masks, userInputs>>

Next ==
  \/ Compile /\ UNCHANGED <<simRaw, table, userInputs, at>>
  \/ SimulateRaw
  \/ \E c \in CellId, v \in Fresh : SetFreshValue(c, v)
  \/ \E c \in CellId, v \in Fresh \ {X} : SetFreshValueTwoState(c, v)
  \/ Update
  \/ CombBlock \/ SeqBlock \/ Return

Spec == Init /\ [][Next]_vars

\* compileCircuit runs on its caller's thread: once begun it goes on.
FairSpec == Spec /\ WF_vars(Compile /\ UNCHANGED <<simRaw, table, userInputs, at>>)

-----------------------------------------------------------------------------
\* The table has bytes, and bits where nothing is added; the masks have bits; the queues of
\* the schedule have ports.
TypeOK ==
  LET Byt == IF \E k \in Kind : k.tp \in {"ADD", "SUB"} THEN Byte ELSE {0, 1}
  IN  /\ value \in [CellId -> Byt] /\ past \in [CellId -> Byt] /\ reg \in [CellId -> Byt]
      /\ mem \in [CellId -> [Addr -> Byt]]
      /\ xValue \in [CellId -> {0, 1}] /\ xReg \in [CellId -> {0, 1}]
      /\ xMem \in [CellId -> [Addr -> {0, 1}]]
      /\ freshChanges \cup visit \cup seqChanges \cup Range(combChanges)
           \subseteq [cell : Cells(def), port : Port]
      /\ \A g \in DOMAIN updates : Range(updates[g]) \subseteq Cells(def)
      /\ phase \in {"spreading", "clocking", "running"} \cup Waiting

\* The low bit of a byte is what a client reads of it.
LowBit(v) == [c \in DOMAIN v |-> v[c] % 2]

\* Where no register and no memory reaches a read address, a memory that is read a group after
\* its clock is read at an address that holds still; and where no memory reaches what is loaded,
\* a load does not see what was read at the address before.
AddressesHoldStill(n) ==
  \A m \in Memories(n) : Driver(n, m, "RADDR") \notin Reached(n, Registers(n) \cup Memories(n))
LoadsNoReads(n) ==
  \A c \in Registers(n) \cup Memories(n) : \A p \in Samples(Tp(n, c)) :
    Driver(n, c, p) \notin Reached(n, Memories(n))

\* What a client reads after an update is the function of the inputs and states that
\* the combinational cells define, as it is in the interpreter (op_tests.cpp compares
\* the two after every update).  Of the four-state table this holds of the bits, as if all
\* were known; and what it shows as known is what the interpreter would show of the same
\* inputs and states, where every select and address is the interpreter's: the code goes by
\* a bit even if it means nothing, while the interpreter takes IN0 for an unknown select and
\* reads 21 at an unknown address.  (Circuits whose addresses hold still: the schedule follows
\* no change of another.)
ReadsTheSynchronousValue ==
  phase = "idle" =>
    LET low(m) == [c \in CellId |-> LowBit(m[c])]
        bits   == Wires(def, LowBit(value), LowBit(reg), low(mem))
        signal == Wires(def, Shown(xValue, value), Shown(xReg, reg),
                        [c \in CellId |-> Shown(xMem[c], mem[c])])
        Selected == \A b \in InBits(def) : b.port \in {"SEL", "RADDR"} =>
                      value[Driver(def, b.cell, b.port)] % 2 = In(def, signal, b.cell, b.port)
    IN  \A c \in Cells(def) :
          /\ value[c] % 2 = bits[c]
          /\ Selected /\ xValue[c] = 0 => value[c] % 2 = signal[c]

ClockedByInputs ==
  \A c \in Cells(def) \ Inputs(def) : SeqReceivers(def, c) = {}

\* The table has a bit for whatever a client sets.
Sync == INSTANCE SyncCircuit WITH
          Fresh <- {0, 1},
          ins <- [c \in Inputs(def) |-> value[c]],
          old <- [c \in {i \in Inputs(def) : SeqReceivers(def, i) # {}} |-> past[c]],
          reg <- [c \in CellId |-> IF c \in Registers(def) THEN reg[c] ELSE X],
          pc  <- IF /\ phase = "running" /\ at <= 2
                    /\ \E c \in Inputs(def) : SeqReceivers(def, c) # {} /\ past[c] # value[c]
                 THEN "clocked" ELSE "rest"

\* Before simulateRaw and after it, unless a client writes to the raw table, a circuit
\* clocked by its input ports behaves as the synchronous circuit, as the interpreter does
\* (in the four-state table: its bits); the clocked group after the first is its clock edge.
\* (Circuits whose addresses hold still and whose loads are of no reads.)
ImplementsSync ==
  [][ClockedByInputs /\ phase \notin {"spreading", "clocking", "written"} /\ phase' # "written"
     /\ simRaw' = simRaw => [Sync!Next]_(Sync!vars)]_vars
=============================================================================
