---------------------------- MODULE MCSimulator ----------------------------
(* Families of small circuits the interpreter is checked on.                 *)
EXTENDS SimulatorSync, Wiring

Kinds == {In1, Out1, RegPos, RegNeg, RegRst, Mem} \cup {Gate(t) : t \in {"AND", "XOR"}}

ClockedByPorts == Pipelines \cup Resettable \cup WithMemory

ASSUME EverySynchronous == \A n \in ClockedByPorts : Synchronous(n)

\* A register clocks the next one.
Ripple ==
  Wirings(<<In1, In1, RegPos, RegPos, Out1>>,
          <<NoPorts, NoPorts, [IN |-> {2}, CLK |-> {1}], [IN |-> {1, 2}, CLK |-> {1, 3}],
            [IN |-> {3, 4}]>>)
=============================================================================
