--------------------------- MODULE SimulatorSync ---------------------------
(***************************************************************************)
(* The interpreter of a circuit whose clocks and resets are input ports    *)
(* implements the synchronous circuit: the clock edge is the step of       *)
(* update that drains seqChanges.                                          *)
(***************************************************************************)
EXTENDS Simulator

\* The circuits this is about: no combinational cycle, and no cell but an input port clocks
\* or resets another.  (A register that clocks the next has it load too late: NoLostEvent.)
ClocksArePorts(n) == \A c \in Cells(n) \ Inputs(n) : SeqReceivers(n, c) = {}

Synchronous(n) == Acyclic(n) /\ ClocksArePorts(n)

Clocking == phase \in {"comb", "x address"} /\ seqChanges # {}

Sync == INSTANCE SyncCircuit WITH
          ins <- [c \in Inputs(def) |-> value[c]],
          old <- [c \in {i \in Inputs(def) : SeqReceivers(def, i) # {}} |-> past[c]],
          pc  <- IF Clocking THEN "clocked" ELSE "rest"

\* Every behaviour of setFreshValue and update is one of the synchronous circuit:
\* registers load on exactly the edges of their clock port, once for an update,
\* all from the values before the edge, whatever the order of evaluation.
ImplementsSync == Sync!Spec
=============================================================================
