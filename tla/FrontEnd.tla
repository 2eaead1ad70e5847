------------------------------ MODULE FrontEnd ------------------------------
(***************************************************************************)
(* Loading from CoreIR (convert_coreir.cpp).  A flattened module of CoreIR *)
(* has fields, instances of primitives and connections between selects of  *)
(* them; convertCellType makes a definition of it, and loadFromCoreIR then *)
(* merges constants and culls extensions and pass-throughs.  After that,   *)
(* or on a definition it built by itself, the client calls the removals of *)
(* Cleanup.                                                                *)
(***************************************************************************)
EXTENDS Cleanup, SequencesExt

CONSTANT Modules      \* the modules that may be loaded

VARIABLES
  module,   \* the module that is loaded, or NoModule
  passes,   \* what loadFromCoreIR has still to call
  loaded    \* history: the definition it returned

allVars == <<vars, module, passes, loaded>>

NoModule == [fields |-> << >>, insts |-> << >>, conns |-> {}]

-----------------------------------------------------------------------------
(* Elements are numbered, the fields first: the order in which they become   *)
(* cells.  A select is [el, port, bit, dir]: a bit of a port or, where bit   *)
(* is Whole, all of it, and dir its direction as CoreIR sees it: a field of  *)
(* the module is selected off self, where an input is an output.             *)

Whole == -1

\* fromSelf
OfSelf(m, s) == s.el \in DOMAIN m.fields

\* primitiveForMod, for the operators without parameters of their own.
CellTypeOf ==
  [or |-> "OR", and |-> "AND", xor |-> "XOR", not |-> "NOT", orr |-> "ORR", andr |-> "ANDR",
   eq |-> "EQ", neq |-> "NEQ", ult |-> "ULT", ugt |-> "UGT", ule |-> "ULE", uge |-> "UGE",
   add |-> "ADD", sub |-> "SUB", mul |-> "MUL", shl |-> "SHL", lshr |-> "LSHR", ashr |-> "ASHR",
   mux |-> "MUX"]

\* paramsForMod; a wrap is one bit wide whatever it wraps, and a memory has 2 ^ addr words
\* that nothing initializes.
KindOf(i) ==
  CASE i.op = "wrap"  -> [tp |-> "PASSTHROUGH", width |-> 1]
    [] i.op = "const" -> [tp |-> "CONST", width |-> i.width, init |-> i.value]
    [] i.op = "zext"  -> [tp |-> "ZEXT", inWidth |-> i.width_in, width |-> i.width_out]
    [] i.op = "slice" -> [tp |-> "SLICE", width |-> i.width, lo |-> i.lo, hi |-> i.hi]
    [] i.op = "reg"   -> [tp |-> "REG", width |-> i.width, init |-> i.init,
                          clkPos |-> i.clk_posedge]
    [] i.op = "reg_arst" ->
         [tp |-> "REG_ARST", width |-> i.width, init |-> i.init,
          clkPos |-> i.clk_posedge, rstPos |-> i.arst_posedge]
    [] i.op = "mem"   -> [tp |-> "MEM", width |-> i.width, addr |-> i.addr]
    [] OTHER          -> [tp |-> CellTypeOf[i.op], width |-> i.width]

\* The fields become port cells, the instances cells.
Elements(m) ==
  FoldLeft(LAMBDA n, i : AddCell(n, KindOf(i)),
           FoldLeft(LAMBDA n, f : AddPort(n, [tp |-> "PORT", dir |-> f.dir, width |-> f.width]),
                    EmptyNet, m.fields),
           m.insts)

\* getPortId
PortNamed ==
  [in |-> "IN", out |-> "OUT", in0 |-> "IN0", in1 |-> "IN1", sel |-> "SEL", clk |-> "CLK",
   arst |-> "ARST", raddr |-> "RADDR", rdata |-> "RDATA", waddr |-> "WADDR", wdata |-> "WDATA",
   wen |-> "WEN"]

PortOf(m, s) ==
  IF OfSelf(m, s) THEN IF s.dir = "in" THEN "IN" ELSE "OUT" ELSE PortNamed[s.port]

BitOf(m, s, o) ==
  [cell |-> s.el, port |-> PortOf(m, s), offset |-> IF s.bit = Whole THEN o ELSE s.bit]

\* fault: the first of a connection is taken for the driver
DriverFirst(c) == c[1]

\* A connection has no direction of its own: its driver is the one that is an output.
DriverOf(c)   == IF c[1].dir = "out" THEN c[1] ELSE c[2]
ReceiverOf(c) == IF DriverOf(c) = c[1] THEN c[2] ELSE c[1]

\* The wires of a connection: receiver bits and their drivers.
Joined(n, m, c) ==
  LET d == DriverOf(c)
      r == ReceiverOf(c)
      width == IF d.bit = Whole THEN Width(n.type[d.el], PortOf(m, d)) ELSE 1
  IN  {<<BitOf(m, r, o), BitOf(m, d, o)>> : o \in 0 .. width - 1}

\* convertCellType: setDriver and addReceiver of the cells at both ends, for each wire.
Converted(m) ==
  LET n      == Elements(m)
      wires  == UNION {Joined(n, m, c) : c \in m.conns}
      driver == [b \in {w[1] : w \in wires} |-> CHOOSE d \in Bit : <<b, d>> \in wires]
  IN  SetDrivers(n, DOMAIN driver, driver)

-----------------------------------------------------------------------------
LoadInit ==
  /\ \/ Init /\ module = NoModule
     \/ /\ module \in Modules
        /\ def = EmptyNet /\ orig = EmptyNet /\ pass = "none" /\ todo = {}
  /\ passes = << >> /\ loaded = EmptyNet

Convert ==
  /\ module # NoModule /\ def = EmptyNet
  /\ def' = Converted(module) /\ orig' = def'
  /\ passes' = <<"zeros", "zexts", "passthroughs">>
  /\ UNCHANGED <<pass, todo, module, loaded>>

CallPass ==
  /\ passes # << >>
  /\ Begin(Head(passes))
  /\ passes' = Tail(passes)
  /\ UNCHANGED <<module, loaded>>

PassTurn == Turn /\ UNCHANGED <<module, passes, loaded>>

\* The environment loadFromCoreIR returns.
Return ==
  /\ module # NoModule /\ def # EmptyNet /\ loaded = EmptyNet
  /\ passes = << >> /\ pass = "none"
  /\ loaded' = def
  /\ UNCHANGED <<vars, module, passes>>

\* The client has a definition, of its own or loaded.
CallRemoval(p) ==
  /\ module = NoModule \/ loaded # EmptyNet
  /\ Begin(p)
  /\ UNCHANGED <<module, passes, loaded>>

LoadNext ==
  \/ Convert \/ CallPass \/ PassTurn \/ Return
  \/ \E p \in {"passthroughs", "zexts", "zeros", "duplicates", "dead"} : CallRemoval(p)

LoadSpec == LoadInit /\ [][LoadNext]_allVars

-----------------------------------------------------------------------------
(* Where the bits of a module come from, read off its connections.           *)

\* The bit an element reads at r, past wraps and extensions to the same width; any of
\* the constants 0 is the last.
Origin(m, r) ==
  LET inst(e)     == m.insts[e - Len(m.fields)]
      Is(e, op)   == e > Len(m.fields) /\ inst(e).op = op
      PassesOn(e) == Is(e, "wrap") \/ (Is(e, "zext") /\ inst(e).width_in = inst(e).width_out)
      zeros == {e \in Cells(orig) : Is(e, "const") /\ inst(e).value = <<0>>}
      source(b) ==
        LET ends == CHOOSE c \in m.conns : \E s \in Range(c) :
                      s.dir = "in" /\ b = BitOf(m, s, b.offset)
        IN  BitOf(m, CHOOSE s \in Range(ends) : s.dir = "out", b.offset)
      from[k \in Nat] ==
        IF k = 0 THEN source(r)
        ELSE LET d == from[k - 1]
             IN  IF PassesOn(d.cell) THEN source([d EXCEPT !.port = "IN"]) ELSE d
      found == from[Len(m.insts)]
  IN  IF found.cell \in zeros THEN [found EXCEPT !.cell = Max(zeros)] ELSE found

\* What is loaded reads, at every input bit of every cell, what the module reads there,
\* directly: no pass-through, extension to the same width or second constant 0 is left in
\* between, in whatever order they are chained, and both ends of every wire agree.
LoadedReadsItsSources ==
  loaded # EmptyNet =>
    /\ WellFormed(loaded)
    /\ \A b \in InBits(loaded) : loaded.drivers[b] = Origin(module, b)
=============================================================================
