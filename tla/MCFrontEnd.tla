----------------------------- MODULE MCFrontEnd -----------------------------
(* Families of small definitions and modules the removals are checked on.    *)
EXTENDS FrontEnd, Wiring

Zext == [tp |-> "ZEXT", inWidth |-> 1, width |-> 1]
Kinds == {In1, Out1, Constant(0), Constant(1), Reg(TRUE, 0), Zext, Gate("PASSTHROUGH"), Gate("AND")}

\* Two gates that may have the same inputs once pass-throughs are gone and constants
\* merged, of which either, or neither, may reach the output; and a register that may
\* keep itself alive.
Redundant ==
  Wirings(<<In1, Constant(0), Gate("PASSTHROUGH"), Constant(0), Zext, Gate("AND"), Gate("AND"),
            Reg(TRUE, 0), Out1>>,
          <<NoPorts, NoPorts, [IN |-> {1, 5}], NoPorts, [IN |-> {2}],
            [IN0 |-> {1, 3}, IN1 |-> {4, 8}], [IN0 |-> {3}, IN1 |-> {2, 6}],
            [IN |-> {6, 8}, CLK |-> {3}], [IN |-> {7, 8}]>>)

ASSUME EveryRemovable == Removable

\* A module with two fields, constants 0 and 1, wraps and extensions that read each other
\* in chains but no cycle, a gate and a register; its connections name either end first.
Fields == <<[dir |-> "in", width |-> 1], [dir |-> "out", width |-> 1]>>
Insts  == <<[op |-> "wrap"], [op |-> "zext", width_in |-> 1, width_out |-> 1], [op |-> "wrap"],
            [op |-> "const", width |-> 1, value |-> <<0>>], [op |-> "and", width |-> 1],
            [op |-> "const", width |-> 1, value |-> <<0>>],
            [op |-> "reg", width |-> 1, init |-> <<0>>, clk_posedge |-> TRUE]>>

Select(el, port, dir) ==
  [el |-> el, port |-> port, bit |-> IF port \in {"clk", "field"} THEN 0 ELSE Whole, dir |-> dir]
Driver1(el) == Select(el, IF el = 1 THEN "field" ELSE "out", "out")

\* Connections to the last elements name the driver first.
Connection(el, port, d) ==
  IF el > 5 THEN <<Driver1(d), Select(el, port, "in")>> ELSE <<Select(el, port, "in"), Driver1(d)>>

Chained ==
  {[fields |-> Fields, insts |-> Insts,
    conns  |-> {Connection(2, "field", 7 + o), Connection(3, "in", 5 + w), Connection(4, "in", 1 + 7 * z),
                Connection(5, "in", 1 + 3 * v), Connection(7, "in0", 1 + 2 * a), Connection(7, "in1", 3 + 6 * b),
                Connection(9, "in", 3 + 4 * r), Connection(9, "clk", 1)}] :
     o \in {0, 2}, w, z, v, a, b, r \in {0, 1}}
=============================================================================
