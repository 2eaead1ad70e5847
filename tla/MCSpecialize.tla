---------------------------- MODULE MCSpecialize ----------------------------
(* Families of small circuits that are specialized while they are simulated. *)
EXTENDS Specialize, Wiring

Kinds == {In1, Out1, RegPos, RegRst} \cup {Constant(v) : v \in Val}
           \cup {Gate("OR"), Gate("MUX")}

\* Two gates that are duplicates when a multiplexer chooses what both read.
Configured ==
  Wirings(<<In1, In1, Gate("MUX"), RegPos, Gate("OR"), Gate("OR"), Out1>>,
          <<NoPorts, NoPorts, [IN0 |-> {4}, IN1 |-> {2}, SEL |-> {1}],
            [IN |-> {6}, CLK |-> {1}],
            [IN0 |-> {3}, IN1 |-> {4}], [IN0 |-> {2}, IN1 |-> {4}], [IN |-> {5}]>>)

\* A register whose clock a multiplexer chooses.
Gated ==
  Wirings(<<In1, In1, Gate("MUX"), RegPos, Out1>>,
          <<NoPorts, NoPorts, [IN0 |-> {1}, IN1 |-> {2}, SEL |-> {2}],
            [IN |-> {1}, CLK |-> {3}], [IN |-> {4}]>>)

\* A multiplexer that a register with a reset selects, which is folded to what the
\* register reads, not to what it holds.
Selected ==
  Wirings(<<In1, In1, RegRst, Gate("MUX"), Out1>>,
          <<NoPorts, NoPorts, [IN |-> {2}, CLK |-> {1}, ARST |-> {2}],
            [IN0 |-> {1}, IN1 |-> {2}, SEL |-> {3}], [IN |-> {4}]>>)

Specialized == Configured \cup Gated \cup Selected

ASSUME EverySpecializable == Specializable /\ Memoryless
=============================================================================
