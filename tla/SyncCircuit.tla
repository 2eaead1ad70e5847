---------------------------- MODULE SyncCircuit ----------------------------
(***************************************************************************)
(* What an interpreter of a circuit clocked by its input ports promises,   *)
(* with no queue and no order of evaluation: the ports change together,    *)
(* and then every register and memory whose clock or reset moved loads, at *)
(* once and once, what the combinational cells make of the new inputs and  *)
(* of the states from before the edge.                                     *)
(***************************************************************************)
EXTENDS CellSemantics

CONSTANT Fresh   \* the values an input port is set to

VARIABLES
  def,        \* the circuit, whatever it is
  ins, old,   \* the values of the input ports, and those the clocks had before
  reg, mem,   \* the states
  pc          \* "rest", or "clocked" when a clock or reset has moved

vars == <<def, ins, old, reg, mem, pc>>

Clocks(n) == {c \in Inputs(n) : SeqReceivers(n, c) # {}}

Init ==
  /\ ins = [c \in Inputs(def) |-> X]
  /\ old = [c \in Clocks(def) |-> 0]
  /\ reg = [c \in CellId |-> IF c \in Registers(def) THEN InitialValue(def, c) ELSE X]
  /\ mem = [c \in CellId |-> [a \in Addr |-> X]]
  /\ pc  = "rest"

\* A port takes one new value, or falls and then rises.
Change ==
  /\ pc = "rest"
  /\ ins' \in [Inputs(def) -> Fresh \cup {X}]
  /\ \A c \in Inputs(def) : ins'[c] \in Fresh \cup {ins[c]}
  /\ old' \in [Clocks(def) -> Val]
  /\ \A c \in Clocks(def) : old'[c] = ins[c] \/ (old'[c] = 0 /\ ins'[c] = 1)
  /\ pc' = IF \A c \in Clocks(def) : old'[c] = ins[c] /\ ins'[c] = ins[c]
           THEN "rest" ELSE "clocked"
  /\ UNCHANGED <<def, reg, mem>>

EdgeAt(c, p, positive) ==
  LET clock == Driver(def, c, p) IN Edge(positive, old[clock], ins[clock])

Loaded(wire, c) ==
  LET k == def.type[c]
  IN  IF k.tp = "REG_ARST" /\ EdgeAt(c, "ARST", k.rstPos) THEN k.init[1]
      ELSE IF EdgeAt(c, "CLK", k.clkPos) THEN In(def, wire, c, "IN")
      ELSE reg[c]

Written(wire, c) ==
  LET addr == In(def, wire, c, "WADDR")
  IN  IF In(def, wire, c, "WEN") = 1 /\ EdgeAt(c, "CLK", TRUE)
      THEN [mem[c] EXCEPT ![addr] = In(def, wire, c, "WDATA")]
      ELSE mem[c]

Clock ==
  LET wire == Wires(def, ins, reg, mem)
  IN  /\ pc = "clocked"
      /\ reg' = [c \in CellId |-> IF c \in Registers(def) THEN Loaded(wire, c) ELSE X]
      /\ mem' = [c \in CellId |-> IF c \in Memories(def) THEN Written(wire, c) ELSE mem[c]]
      /\ pc' = "rest"
      /\ UNCHANGED <<def, ins, old>>

Next == Change \/ Clock

Spec == Init /\ [][Next]_vars
=============================================================================
