-------------------------- MODULE SimulatorProofs --------------------------
(***************************************************************************)
(* The interpreter, for every definition of one-bit ports, cyclic ones     *)
(* included: no cell is ever stale without being queued, so that between   *)
(* two updates every output agrees with the inputs of its cell.  And it    *)
(* implements the synchronous circuit, for every definition without        *)
(* combinational cycles whose clocks and resets are input ports: every     *)
(* step of update is the change of the ports, the clock edge, or nothing   *)
(* the synchronous circuit shows.  Under it a definition is specialized:   *)
(* what the queues hold stays part of the definition, no assertion stops   *)
(* the passes or the updates after them, and what is left shows what the   *)
(* circuit as it was would show.                                           *)
(***************************************************************************)
EXTENDS Specialize, CellProofs

(* The inductive invariant.  A cell is evaluated again only when one of its   *)
(* ports is queued, so the queue has to cover every stale cell at every step. *)
Circuit == WellFormed(def) /\ FullyDriven(def)

QueuesDrained ==
  /\ phase # "reread" => reread = {}
  /\ phase \in {"idle", "lost event", "x address"} => combChanges = {}

RegistersShown == \A c \in Registers(def) : value[c] = reg[c]

StoreInv == Circuit /\ TypeOK /\ QueuesDrained /\ RegistersShown

IInv == StoreInv /\ StaleCellsArePending

-----------------------------------------------------------------------------
LEMMA CircuitFacts ==
  ASSUME Circuit
  PROVE  /\ WellFormed(def) /\ FullyDriven(def) /\ def \in Net
         /\ Cells(def) \subseteq CellId /\ Evaluated(def) \subseteq Cells(def)
BY DEF Circuit, WellFormed, Cells, Evaluated

\* What a combinational cell reads are values of cells.
LEMMA ReadPorts ==
  ASSUME Circuit, NEW c \in Evaluated(def), NEW p \in Reads(Tp(def, c))
  PROVE  /\ Driver(def, c, p) \in Cells(def)
         /\ PinOf(c, p) \in OutReceivers(def, Driver(def, c, p))
         /\ p \in {"IN", "IN0", "IN1", "SEL", "RADDR"}
<1>1. /\ WellFormed(def) /\ FullyDriven(def) /\ def \in Net
      /\ Tp(def, c) \in CombTypes /\ def.type[c] \in Kind /\ c \in Cells(def)
      /\ Tp(def, c) = "PORT" => def.type[c].dir # "in"
  BY CircuitFacts, EvaluatedTypes
<1>2. p \in DOMAIN PortWidths(def.type[c]) /\ p \in {"IN", "IN0", "IN1", "SEL", "RADDR"}
  BY <1>1, ReadsArePorts DEF Tp
<1> QED BY <1>1, <1>2, PortIsDriven

LEMMA EvaluatesToVal ==
  ASSUME Circuit, TypeOK, NEW c \in Evaluated(def)
  PROVE  Eval(def, value, mem, c) \in Val
<1>1. Tp(def, c) \in CombTypes /\ c \in CellId
  BY CircuitFacts, EvaluatedTypes
<1>2. \A p \in Reads(Tp(def, c)) : In(def, value, c, p) \in Val
  BY ReadPorts, CircuitFacts DEF In, TypeOK
<1>3. mem[c] \in [Addr -> Val]
  BY <1>1 DEF TypeOK
<1> QED BY <1>1, <1>2, <1>3, EvalType

\* A register or memory loads a value.
LEMMA SampledVal ==
  ASSUME Circuit, TypeOK, NEW c \in Registers(def) \cup Memories(def),
         NEW p \in Samples(Tp(def, c))
  PROVE  In(def, value, c, p) \in Val
<1>1. /\ c \in Cells(def) /\ def.type[c] \in Kind
      /\ Tp(def, c) \in {"REG", "REG_ARST", "MEM"}
  BY CircuitFacts, NetFields DEF Registers, Memories, Cells
<1>2. p \in DOMAIN PortWidths(def.type[c]) /\ p \in {"IN", "WADDR", "WDATA", "WEN"}
  BY <1>1, SamplesArePorts DEF Tp
<1>3. Driver(def, c, p) \in CellId
  BY <1>1, <1>2, PortIsDriven, CircuitFacts
<1> QED BY <1>3 DEF In, TypeOK

LEMMA InitialVal ==
  ASSUME NEW n \in Net, NEW c \in CellId
  PROVE  InitialValue(n, c) \in Val
<1>1. X \in Val /\ 0 \in Val
  BY DEF X, Val
<1>2. CASE c \in Cells(n) /\ Tp(n, c) \in {"CONST", "REG", "REG_ARST"}
  <2>1. n.type[c] \in Kind
    BY <1>2, NetFields DEF Cells
  <2>2. n.type[c].init[1] \in Val
    BY <2>1, <1>2, SemanticsAssumption DEF Tp
  <2> QED BY <1>2, <2>2 DEF InitialValue, Memories, Tp
<1>3. CASE ~(c \in Cells(n) /\ Tp(n, c) \in {"CONST", "REG", "REG_ARST"})
  BY <1>1, <1>3 DEF InitialValue, Memories, Tp
<1> QED BY <1>2, <1>3

-----------------------------------------------------------------------------
(* combinationalSignalChange: types, and no cell that is not queued sees one *)
(* of its inputs change.                                                     *)

LEMMA SignalType ==
  ASSUME Circuit, TypeOK, NEW C \in SUBSET CellId, NEW mid, NEW new, NEW combs, NEW seqs,
         \A c \in C : mid[c] \in Val /\ new[c] \in Val,
         combs \subseteq [cell : CellId, port : InPort],
         seqs  \subseteq [cell : CellId, port : InPort],
         Signal(C, mid, new, combs, seqs)
  PROVE  /\ value' \in [CellId -> Val]
         /\ past'  \in [CellId -> Past]
         /\ combChanges' \subseteq [cell : CellId, port : InPort]
         /\ seqChanges'  \subseteq [cell : CellId, port : InPort]
<1>1. value' \in [CellId -> Val]
  BY DEF Signal, TypeOK
<1>2. past' \in [CellId -> Past]
  BY DEF Signal, TypeOK, Past
<1>3. \A c \in CellId : /\ SeqReceivers(def, c)  \subseteq [cell : CellId, port : InPort]
                        /\ CombReceivers(def, c) \subseteq [cell : CellId, port : InPort]
  BY CircuitFacts, ReceiversAreInputs
<1>4. Changed(mid, new, C) \subseteq CellId
  BY DEF Changed
<1> QED BY <1>1, <1>2, <1>3, <1>4 DEF Signal

LEMMA SignalQueuesReaders ==
  ASSUME Circuit, TypeOK, NEW C \in SUBSET CellId, NEW mid, NEW new, NEW combs, NEW seqs,
         Signal(C, mid, new, combs, seqs),
         NEW c \in Evaluated(def), \A s \in combChanges' : s.cell # c,
         NEW p \in Reads(Tp(def, c))
  PROVE  In(def, value', c, p) = In(def, value, c, p)
<1> DEFINE d == Driver(def, c, p)
<1>1. /\ d \in CellId
      /\ PinOf(c, p) \in OutReceivers(def, d)
      /\ p \in {"IN", "IN0", "IN1", "SEL", "RADDR"}
  BY ReadPorts, CircuitFacts
<1>2. SigPort(PinOf(c, p)) \in CombReceivers(def, d) /\ SigPort(PinOf(c, p)).cell = c
  BY <1>1 DEF CombReceivers, SigPort, PinOf
<1>3. d \notin Changed(mid, new, C)
  BY <1>2 DEF Signal
<1>4. value'[d] = value[d]
  BY <1>1, <1>3 DEF Signal, Changed
<1> QED BY <1>4 DEF In

\* A cell that was up to date, and is not queued, still is.
LEMMA StaysUpToDate ==
  ASSUME Circuit, TypeOK, def' = def, NEW C \in SUBSET CellId, NEW mid, NEW new, NEW combs, NEW seqs,
         Signal(C, mid, new, combs, seqs),
         NEW c \in Evaluated(def), \A s \in combChanges' : s.cell # c,
         mem'[c] = mem[c]
  PROVE  Eval(def', value', mem', c) = Eval(def, value, mem, c)
<1>1. \A p \in Reads(Tp(def, c)) : In(def, value', c, p) = In(def, value, c, p)
  BY SignalQueuesReaders
<1>2. Tp(def, c) \in CombTypes
  BY CircuitFacts, EvaluatedTypes
<1> QED BY <1>1, <1>2, EvalDependsOnReads

-----------------------------------------------------------------------------
(* The constructor queues every receiver, hence every cell that reads.       *)

LEMMA InitIInv ==
  ASSUME Init
  PROVE  IInv
<1>1. def \in Circuits /\ Circuit /\ def \in Net /\ WellFormed(def)
  BY SimulatorAssumption DEF Init, Circuit, WellFormed
<1>2. \A c \in CellId : InitialValue(def, c) \in Val
  BY <1>1, InitialVal
<1>3. TypeOK
  <2>1. X \in Val /\ 0 \in Val
    BY DEF X, Val
  <2>2. value \in [CellId -> Val] /\ reg \in [CellId -> Val] /\ mem \in [CellId -> [Addr -> Val]]
    BY <1>2, <2>1 DEF Init
  <2>3. past \in [CellId -> Past]
    BY <2>1 DEF Init, Past
  <2>4. combChanges \subseteq [cell : CellId, port : InPort]
    <3>1. \A c \in Cells(def) : c \in CellId
      BY DEF Cells
    <3> QED BY <1>1, <3>1, ReceiversAreInputs DEF Init
  <2> QED BY <2>2, <2>3, <2>4 DEF Init, TypeOK, Phase
<1>4. RegistersShown
  BY DEF Init, RegistersShown, Registers, Cells
<1>5. StaleCellsArePending
  <2> SUFFICES ASSUME NEW c \in Evaluated(def)
               PROVE  \E s \in combChanges : s.cell = c
    BY DEF StaleCellsArePending
  <2>1. PICK p \in Reads(Tp(def, c)) : TRUE
    BY <1>1, EvaluatedTypes, ReadsArePorts DEF Tp
  <2>2. /\ Driver(def, c, p) \in Cells(def)
        /\ PinOf(c, p) \in OutReceivers(def, Driver(def, c, p))
    BY <1>1, ReadPorts
  <2>3. SigPort(PinOf(c, p)) \in SeqReceivers(def, Driver(def, c, p))
                                  \cup CombReceivers(def, Driver(def, c, p))
    BY <2>2 DEF SeqReceivers, CombReceivers
  <2>4. SigPort(PinOf(c, p)) \in combChanges
    BY <2>2, <2>3 DEF Init
  <2>5. SigPort(PinOf(c, p)).cell = c
    BY DEF SigPort, PinOf
  <2> QED BY <2>4, <2>5
<1> QED BY <1>1, <1>3, <1>4, <1>5 DEF IInv, StoreInv, QueuesDrained, Init

-----------------------------------------------------------------------------
(* The steps of update.                                                      *)

\* A step keeps the store, and lets no cell go stale that was not.
Keeps == StoreInv' /\ (StaleCellsArePending => StaleCellsArePending')

LEMMA SetFreshValueStep ==
  ASSUME StoreInv, NEW c \in CellId, NEW v \in Fresh, SetFreshValue(c, v)
  PROVE  Keeps
<1>1. userInputs' \in [CellId -> SUBSET Val]
  BY SimulatorAssumption DEF StoreInv, TypeOK, SetFreshValue
<1>2. TypeOK'
  BY <1>1 DEF StoreInv, TypeOK, SetFreshValue, store
<1>3. StaleCellsArePending => StaleCellsArePending'
  BY DEF StaleCellsArePending, SetFreshValue, store, Eval, In
<1> QED BY <1>2, <1>3 DEF Keeps, StoreInv, Circuit, QueuesDrained, RegistersShown, SetFreshValue, store

LEMMA PortValues ==
  ASSUME TypeOK, NEW c \in CellId
  PROVE  PortMid(c) \in Val /\ PortLast(c) \in Val
<1>1. value[c] \in Val /\ userInputs[c] \subseteq Val /\ 0 \in Val /\ 1 \in Val
  BY DEF TypeOK, Val
<1>2. PortMid(c) \in Val
  BY <1>1 DEF PortMid
<1>3. CASE userInputs[c] = {}
  BY <1>1, <1>2, <1>3 DEF PortLast
<1>4. CASE userInputs[c] # {}
  <2>1. \E v \in userInputs[c] : \A w \in userInputs[c] : ~QLess(v, w)
    <3>1. CASE 1 \in userInputs[c]
      BY <3>1, <1>1 DEF QLess, IsBinary, Val
    <3>2. CASE 1 \notin userInputs[c]
      BY <3>2, <1>1, <1>4 DEF QLess, IsBinary, Val
    <3> QED BY <3>1, <3>2
  <2> QED BY <2>1, <1>1, <1>2, <1>4 DEF PortLast
<1> QED BY <1>2, <1>3, <1>4

LEMMA UpdateStep ==
  ASSUME StoreInv, Update
  PROVE  Keeps
<1> DEFINE C   == Inputs(def)
           mid == [c \in CellId |-> PortMid(c)]
           new == [c \in CellId |-> PortLast(c)]
<1>1. Circuit /\ TypeOK /\ def' = def /\ mem' = mem /\ reg' = reg /\ reread' = reread
  BY DEF StoreInv, Update
<1>2. Signal(C, mid, new, combChanges, seqChanges) /\ C \in SUBSET CellId
  BY DEF Update, Inputs, Cells
<1>3. \A c \in C : mid[c] \in Val /\ new[c] \in Val
  BY <1>1, <1>2, PortValues
<1>4. TypeOK'
  <2> HIDE DEF mid, new, C
  <2>1. /\ value' \in [CellId -> Val] /\ past' \in [CellId -> Past]
        /\ combChanges' \subseteq [cell : CellId, port : InPort]
        /\ seqChanges'  \subseteq [cell : CellId, port : InPort]
    BY <1>1, <1>2, <1>3, SignalType DEF TypeOK
  <2> QED BY <2>1, <1>1 DEF TypeOK, Update, Phase
<1>5. \A c \in CellId \ C : value'[c] = value[c]
  BY <1>2 DEF Signal
<1>6. RegistersShown'
  BY <1>1, <1>5 DEF StoreInv, RegistersShown, Registers, Inputs, Cells
<1>7. StaleCellsArePending => StaleCellsArePending'
  <2> HIDE DEF mid, new, C
  <2> SUFFICES ASSUME StaleCellsArePending, NEW c \in Evaluated(def), c \notin reread,
                      \A s \in combChanges' : s.cell # c
               PROVE  value'[c] = Eval(def', value', mem', c)
    BY <1>1 DEF StaleCellsArePending
  <2>1. \A s \in combChanges : s.cell # c
    BY <1>2 DEF Signal
  <2>2. value[c] = Eval(def, value, mem, c)
    BY <2>1 DEF StaleCellsArePending
  <2>3. value'[c] = value[c]
    BY <1>5, CircuitFacts, <1>1 DEF C, Evaluated
  <2>4. Eval(def', value', mem', c) = Eval(def, value, mem, c)
    BY <1>1, <1>2, StaysUpToDate
  <2> QED BY <2>2, <2>3, <2>4
<1> QED BY <1>1, <1>4, <1>6, <1>7 DEF Keeps, StoreInv, Circuit, QueuesDrained, Update

\* updatePort of one cell: the cell is up to date, and its readers are queued.
LEMMA UpdatePortKeeps ==
  ASSUME StoreInv, def' = def, mem' = mem, reg' = reg, userInputs' = userInputs,
         NEW e \in Evaluated(def), NEW combs \in SUBSET combChanges,
         UpdatePort(e, combs)
  PROVE  /\ value' \in [CellId -> Val] /\ past' \in [CellId -> Past]
         /\ combChanges' \subseteq [cell : CellId, port : InPort]
         /\ seqChanges'  \subseteq [cell : CellId, port : InPort]
         /\ RegistersShown'
         /\ StaleCellsArePending => \A c \in Evaluated(def) :
              \/ value'[c] = Eval(def', value', mem', c)
              \/ \E s \in combChanges' : s.cell = c
              \/ c # e /\ c \in reread
              \/ c # e /\ \E s \in combChanges \ combs : s.cell = c
<1> DEFINE new == [value EXCEPT ![e] = Eval(def, value, mem, e)]
<1>1. Circuit /\ TypeOK /\ e \in CellId /\ e \notin Registers(def)
  BY CircuitFacts DEF StoreInv, Evaluated
<1>2. Signal({e}, value, new, combs, seqChanges)
  BY DEF UpdatePort
<1>3. new \in [CellId -> Val] /\ new[e] = Eval(def, value, mem, e)
  BY <1>1, EvaluatesToVal DEF TypeOK
<1>4. /\ value' \in [CellId -> Val] /\ past' \in [CellId -> Past]
      /\ combChanges' \subseteq [cell : CellId, port : InPort]
      /\ seqChanges'  \subseteq [cell : CellId, port : InPort]
  <2> HIDE DEF new
  <2>1. \A c \in {e} : value[c] \in Val /\ new[c] \in Val
    BY <1>1, <1>3 DEF TypeOK
  <2>2. /\ combs \subseteq [cell : CellId, port : InPort]
        /\ seqChanges \subseteq [cell : CellId, port : InPort]
        /\ {e} \in SUBSET CellId
    BY <1>1 DEF TypeOK
  <2> QED BY <1>1, <1>2, <2>1, <2>2, SignalType
<1>5. value'[e] = Eval(def, value, mem, e) /\ \A c \in CellId \ {e} : value'[c] = value[c]
  BY <1>1, <1>2, <1>3 DEF Signal
<1>6. RegistersShown'
  BY <1>1, <1>5 DEF StoreInv, RegistersShown, Registers, Cells
<1>7. ASSUME StaleCellsArePending, NEW c \in Evaluated(def), \A s \in combChanges' : s.cell # c,
             c # e => c \notin reread /\ \A s \in combChanges \ combs : s.cell # c
      PROVE  value'[c] = Eval(def', value', mem', c)
  <2> HIDE DEF new
  <2>1. Eval(def', value', mem', c) = Eval(def, value, mem, c)
    BY <1>1, <1>2, <1>7, StaysUpToDate
  <2>2. CASE c = e
    BY <2>1, <2>2, <1>5
  <2>3. CASE c # e
    <3>1. \A s \in combs : s.cell # c
      BY <1>2, <1>7 DEF Signal
    <3>2. value[c] = Eval(def, value, mem, c)
      BY <3>1, <2>3, <1>7 DEF StaleCellsArePending
    <3>3. value'[c] = value[c]
      BY <1>1, <1>5, <2>3, CircuitFacts
    <3> QED BY <2>1, <3>2, <3>3
  <2> QED BY <2>2, <2>3
<1> QED BY <1>4, <1>6, <1>7

LEMMA CombStepStep ==
  ASSUME StoreInv, CombStep
  PROVE  Keeps
<1> DEFINE s == First(combChanges)
           combs == combChanges \ {s}
<1>1. /\ Circuit /\ TypeOK /\ def' = def /\ mem' = mem /\ reg' = reg
      /\ reread' = reread /\ reread = {} /\ phase' = phase /\ phase = "comb"
      /\ userInputs' = userInputs
  BY DEF StoreInv, CombStep, QueuesDrained
<1>2. CASE s.cell \in Evaluated(def)
  <2>1. UpdatePort(s.cell, combs)
    BY <1>2 DEF CombStep
  <2> HIDE DEF s
  <2>2. /\ value' \in [CellId -> Val] /\ past' \in [CellId -> Past]
        /\ combChanges' \subseteq [cell : CellId, port : InPort]
        /\ seqChanges'  \subseteq [cell : CellId, port : InPort]
        /\ RegistersShown'
        /\ StaleCellsArePending => \A c \in Evaluated(def) :
             \/ value'[c] = Eval(def', value', mem', c)
             \/ \E t \in combChanges' : t.cell = c
             \/ c # s.cell /\ c \in reread
             \/ c # s.cell /\ \E t \in combChanges \ combs : t.cell = c
    BY <1>1, <1>2, <2>1, UpdatePortKeeps
  <2>3. StaleCellsArePending => StaleCellsArePending'
    BY <2>2, <1>1 DEF StaleCellsArePending
  <2>4. TypeOK'
    BY <2>2, <1>1 DEF TypeOK
  <2> QED BY <1>1, <2>2, <2>3, <2>4 DEF Keeps, StoreInv, Circuit, QueuesDrained
<1>3. CASE s.cell \notin Evaluated(def)
  <2>1. combChanges' = combs /\ value' = value /\ past' = past /\ seqChanges' = seqChanges
    BY <1>3 DEF CombStep
  <2>2. TypeOK' /\ RegistersShown'
    BY <1>1, <2>1 DEF TypeOK, StoreInv, RegistersShown
  <2>3. StaleCellsArePending => StaleCellsArePending'
    <3> HIDE DEF s
    <3> QED BY <1>1, <1>3, <2>1 DEF StaleCellsArePending, Eval, In
  <2> QED BY <1>1, <2>2, <2>3 DEF Keeps, StoreInv, Circuit, QueuesDrained
<1> QED BY <1>2, <1>3

LEMMA StoreAbortsStep ==
  ASSUME StoreInv, StoreAborts
  PROVE  Keeps
<1>1. TypeOK'
  BY DEF StoreInv, TypeOK, StoreAborts, store, Phase
<1>2. StaleCellsArePending => StaleCellsArePending'
  BY DEF StaleCellsArePending, StoreAborts, store, Eval, In
<1> QED BY <1>1, <1>2 DEF Keeps, StoreInv, Circuit, QueuesDrained, RegistersShown, StoreAborts, store

\* What a register and a memory load.
LEMMA NextStateType ==
  ASSUME Circuit, TypeOK
  PROVE  /\ \A c \in Registers(def) : NextReg(c) \in Val
         /\ \A c \in Memories(def) : NextMem(c) \in [Addr -> Val]
<1>1. ASSUME NEW c \in Registers(def)
      PROVE  NextReg(c) \in Val
  <2>1. c \in CellId /\ def.type[c] \in Kind /\ Tp(def, c) \in {"REG", "REG_ARST"}
    BY CircuitFacts, NetFields DEF Registers, Cells
  <2>2. def.type[c].init[1] \in Val
    BY <2>1, SemanticsAssumption DEF Tp
  <2>3. In(def, value, c, "IN") \in Val
    BY <2>1, SampledVal DEF Samples
  <2> QED BY <2>1, <2>2, <2>3 DEF NextReg, TypeOK
<1>2. ASSUME NEW c \in Memories(def)
      PROVE  NextMem(c) \in [Addr -> Val]
  <2>1. c \in CellId /\ Tp(def, c) = "MEM"
    BY DEF Memories, Cells, Tp
  <2>2. In(def, value, c, "WDATA") \in Val
    BY <2>1, SampledVal DEF Samples
  <2> QED BY <2>1, <2>2 DEF NextMem, TypeOK
<1> QED BY <1>1, <1>2

LEMMA SeqStepStep ==
  ASSUME StoreInv, SeqStep
  PROVE  Keeps
<1> DEFINE loading == {c \in Registers(def) \cap Clocked : NextReg(c) # reg[c]}
           writing == {c \in Memories(def) \cap Clocked : NextMem(c) # mem[c]}
<1>1. /\ Circuit /\ TypeOK /\ def' = def /\ userInputs' = userInputs
      /\ combChanges = {} /\ reread = {} /\ reread' = writing /\ phase' = "reread"
      /\ Signal(loading, value, reg', {}, {})
  BY DEF StoreInv, SeqStep, QueuesDrained
<1>2. /\ reg' = [c \in CellId |-> IF c \in loading THEN NextReg(c) ELSE reg[c]]
      /\ mem' = [c \in CellId |-> IF c \in writing THEN NextMem(c) ELSE mem[c]]
  BY DEF SeqStep
<1>3. /\ loading \subseteq Registers(def) /\ writing \subseteq Memories(def)
      /\ Registers(def) \subseteq CellId /\ Memories(def) \subseteq CellId
  BY DEF Registers, Memories, Cells
<1>4. /\ \A c \in loading : NextReg(c) \in Val
      /\ \A c \in writing : NextMem(c) \in [Addr -> Val]
  BY <1>1, <1>3, NextStateType
<1> HIDE DEF loading, writing
<1>5. reg' \in [CellId -> Val] /\ mem' \in [CellId -> [Addr -> Val]]
  BY <1>1, <1>2, <1>4 DEF TypeOK
<1>6. TypeOK'
  <2>1. \A c \in loading : value[c] \in Val /\ reg'[c] \in Val
    BY <1>1, <1>3, <1>5 DEF TypeOK
  <2>2. /\ value' \in [CellId -> Val] /\ past' \in [CellId -> Past]
        /\ combChanges' \subseteq [cell : CellId, port : InPort]
        /\ seqChanges'  \subseteq [cell : CellId, port : InPort]
    BY <1>1, <1>3, <2>1, SignalType
  <2> QED BY <1>1, <1>3, <1>5, <2>2 DEF TypeOK, Phase
<1>7. \A c \in CellId : value'[c] = IF c \in loading THEN reg'[c] ELSE value[c]
  BY <1>1 DEF Signal
<1>8. RegistersShown'
  BY <1>1, <1>2, <1>3, <1>7 DEF StoreInv, RegistersShown
<1>9. StaleCellsArePending => StaleCellsArePending'
  <2> SUFFICES ASSUME StaleCellsArePending, NEW c \in Evaluated(def), c \notin writing,
                      \A s \in combChanges' : s.cell # c
               PROVE  value'[c] = Eval(def', value', mem', c)
    BY <1>1 DEF StaleCellsArePending
  <2>1. c \in CellId /\ c \notin loading
    BY <1>1, <1>3, CircuitFacts DEF Evaluated
  <2>2. value[c] = Eval(def, value, mem, c)
    BY <1>1 DEF StaleCellsArePending
  <2>3. mem'[c] = mem[c] /\ value'[c] = value[c]
    BY <1>2, <1>7, <2>1
  <2>4. Eval(def', value', mem', c) = Eval(def, value, mem, c)
    <3>1. loading \in SUBSET CellId
      BY <1>3
    <3> QED BY <1>1, <2>3, <3>1, StaysUpToDate
  <2> QED BY <2>2, <2>3, <2>4
<1> QED BY <1>1, <1>6, <1>8, <1>9 DEF Keeps, StoreInv, Circuit, QueuesDrained

LEMMA RereadStepStep ==
  ASSUME StoreInv, RereadStep
  PROVE  Keeps
<1>1. PICK m \in reread : UpdatePort(m, combChanges) /\ reread' = reread \ {m}
  BY DEF RereadStep
<1>2. /\ Circuit /\ TypeOK /\ def' = def /\ mem' = mem /\ reg' = reg /\ phase' = "reread"
      /\ userInputs' = userInputs
  BY DEF StoreInv, RereadStep
<1>3. m \in Evaluated(def)
  BY <1>1, <1>2 DEF TypeOK, Memories, Evaluated, Inputs, Registers
<1>4. /\ value' \in [CellId -> Val] /\ past' \in [CellId -> Past]
      /\ combChanges' \subseteq [cell : CellId, port : InPort]
      /\ seqChanges'  \subseteq [cell : CellId, port : InPort]
      /\ RegistersShown'
      /\ StaleCellsArePending => \A c \in Evaluated(def) :
           \/ value'[c] = Eval(def', value', mem', c)
           \/ \E t \in combChanges' : t.cell = c
           \/ c # m /\ c \in reread
           \/ c # m /\ \E t \in combChanges \ combChanges : t.cell = c
  BY <1>1, <1>2, <1>3, UpdatePortKeeps
<1>5. StaleCellsArePending => StaleCellsArePending'
  BY <1>1, <1>2, <1>4 DEF StaleCellsArePending
<1>6. TypeOK'
  BY <1>1, <1>2, <1>4 DEF TypeOK, Phase
<1> QED BY <1>2, <1>4, <1>5, <1>6 DEF Keeps, StoreInv, Circuit, QueuesDrained

LEMMA LoopEndStep ==
  ASSUME StoreInv, LoopEnd
  PROVE  Keeps
<1>1. TypeOK'
  BY DEF StoreInv, TypeOK, LoopEnd, store, Phase
<1>2. StaleCellsArePending => StaleCellsArePending'
  BY DEF StaleCellsArePending, LoopEnd, store, Eval, In
<1> QED BY <1>1, <1>2 DEF Keeps, StoreInv, Circuit, QueuesDrained, RegistersShown, LoopEnd, store

LEMMA RunningStep ==
  ASSUME StoreInv, Running
  PROVE  Keeps
BY CombStepStep, StoreAbortsStep, SeqStepStep, RereadStepStep, LoopEndStep DEF Running

LEMMA NextIInv ==
  ASSUME IInv, [Next]_vars
  PROVE  IInv'
<1>1. CASE Next
  <2>1. Keeps
    BY <1>1, SetFreshValueStep, UpdateStep, RunningStep DEF Next, IInv
  <2> QED BY <2>1 DEF Keeps, IInv
<1>2. CASE UNCHANGED vars
  <2>1. TypeOK' /\ StaleCellsArePending'
    BY <1>2 DEF IInv, StoreInv, TypeOK, StaleCellsArePending, vars, store, Eval, In
  <2> QED BY <1>2, <2>1 DEF IInv, StoreInv, Circuit, QueuesDrained, RegistersShown, vars, store
<1> QED BY <1>1, <1>2

THEOREM InvariantHolds == Spec => []IInv
BY InitIInv, NextIInv, PTL DEF Spec

\* The store and the queues of every simulator have their types.
THEOREM StoreTyped == Spec => []TypeOK
<1>1. IInv => TypeOK
  BY DEF IInv, StoreInv
<1> QED BY <1>1, InvariantHolds, PTL

\* At no step of update is a cell stale that will not be evaluated again.
THEOREM NoLostWakeUp == Spec => []StaleCellsArePending
<1>1. IInv => StaleCellsArePending
  BY DEF IInv
<1> QED BY <1>1, InvariantHolds, PTL

\* Between two updates every output agrees with the inputs of its cell.
THEOREM UpdateSettles == Spec => []Settled
<1>1. IInv => Settled
  BY DEF IInv, StoreInv, Settled, QueuesDrained, RegistersShown, StaleCellsArePending
<1> QED BY <1>1, InvariantHolds, PTL
-----------------------------------------------------------------------------
(* The refinement: its inductive invariant, besides that of the interpreter. *)

\* Only combinational cells, registers and inputs ever change their output.
ConstantsKept ==
  \A c \in CellId \ (Inputs(def) \cup Registers(def) \cup Evaluated(def)) :
    value[c] = InitialValue(def, c)

OnlyRegistersHaveStates == \A c \in CellId \ Registers(def) : reg[c] = X

\* Input ports show, and are about to be set to, what a client may give them.
InputsAreFresh ==
  /\ \A c \in Inputs(def) : value[c] \in Fresh \cup {X} /\ userInputs[c] \subseteq Fresh
  /\ \A c \in CellId : SeqReceivers(def, c) # {} => past[c] \in Val

\* Clock events exist from the change of the ports to the step that drains them only.
EventsAreTransient == phase \notin {"comb", "x address"} => seqChanges = {}

\* As long as there are events every clock that moved has its receivers among them:
\* a register that is not queued is not at an edge.
EdgesAreQueued ==
  seqChanges # {} =>
    \A c \in Inputs(def) : past[c] = value[c] \/ SeqReceivers(def, c) \subseteq seqChanges

SyncInv ==
  /\ def \in Circuits /\ IInv
  /\ ConstantsKept /\ OnlyRegistersHaveStates /\ InputsAreFresh
  /\ EventsAreTransient /\ EdgesAreQueued

-----------------------------------------------------------------------------
(* The synchronous circuit speaks of the same cells.                         *)

LEMMA SameOperators ==
  /\ Sync!CellId = CellId /\ Sync!Addr = Addr /\ Sync!Val = Val /\ Sync!X = X
  /\ \A n : /\ Sync!Inputs(n) = Inputs(n) /\ Sync!Registers(n) = Registers(n)
            /\ Sync!Memories(n) = Memories(n)
  /\ \A n, c : /\ Sync!SeqReceivers(n, c) = SeqReceivers(n, c)
               /\ Sync!InitialValue(n, c) = InitialValue(n, c)
  /\ \A n, c, p : Sync!Driver(n, c, p) = Driver(n, c, p)
  /\ \A n, v, c, p : Sync!In(n, v, c, p) = In(n, v, c, p)
  /\ \A p, o, w : Sync!Edge(p, o, w) = Edge(p, o, w)
BY DEF Sync!CellId, CellId, Sync!Addr, Addr, Sync!Val, Val, Sync!X, X, Sync!Inputs, Inputs,
       Sync!Registers, Registers, Sync!Memories, Memories, Sync!Cells, Cells, Sync!NoType, NoType,
       Sync!Tp, Tp, Sync!SeqReceivers, SeqReceivers, Sync!OutReceivers, OutReceivers,
       Sync!OutPort, OutPort, Sync!Port, Port, Sync!PortWidths, PortWidths, Sync!PinOf, PinOf,
       Sync!SigPort, SigPort, Sync!Comparator, Comparator, Sync!Binop, Binop, Sync!ReduceOp, ReduceOp,
       Sync!Unop, Unop, Sync!InitialValue, InitialValue, Sync!Driver, Driver, Sync!In, In,
       Sync!Edge, Edge

LEMMA SameWires ==
  \A n, in, r, m : Sync!Wires(n, in, r, m) = Wires(n, in, r, m)
BY DEF Sync!Wires, Wires, Sync!WireValue, WireValue, Sync!Evaluated, Evaluated,
       Sync!Inputs, Inputs, Sync!Registers, Registers, Sync!Memories, Memories,
       Sync!CellId, CellId, Sync!Cells, Cells, Sync!NoType, NoType, Sync!Tp, Tp,
       Sync!InitialValue, InitialValue, Sync!X, X, Sync!Eval, Eval, Sync!In, In,
       Sync!Driver, Driver, Sync!PinOf, PinOf, Sync!QNot, QNot, Sync!QAnd, QAnd, Sync!QOr, QOr,
       Sync!QXor, QXor, Sync!QEquals, QEquals, Sync!QLess, QLess, Sync!Bool, Bool,
       Sync!IsBinary, IsBinary

-----------------------------------------------------------------------------
AllSynchronous == \A n \in Circuits : Synchronous(n)

\* No combinational cell, and no register, clocks another.
Quiet == \A c \in Evaluated(def) \cup Registers(def) : SeqReceivers(def, c) = {}

LEMMA SyncFacts ==
  ASSUME AllSynchronous, def \in Circuits
  PROVE  /\ Circuit /\ Quiet
         /\ WellFormed(def) /\ FullyDriven(def) /\ Acyclic(def) /\ def \in Net
         /\ \A c \in Cells(def) \ Inputs(def) : SeqReceivers(def, c) = {}
         /\ Inputs(def) \subseteq Cells(def) /\ Cells(def) \subseteq CellId
         /\ Evaluated(def) \subseteq Cells(def) \ (Inputs(def) \cup Registers(def))
         /\ Registers(def) \subseteq Cells(def) \ Inputs(def)
         /\ Memories(def) \subseteq Evaluated(def)
<1>1. Circuit
  BY SimulatorAssumption DEF Circuit
<1> QED BY <1>1, CircuitFacts DEF AllSynchronous, Synchronous, ClocksArePorts, Inputs, Evaluated,
           Registers, Memories, Quiet

LEMMA SyncInvFacts ==
  ASSUME AllSynchronous, SyncInv
  PROVE  /\ def \in Circuits /\ Circuit /\ Quiet /\ TypeOK /\ StoreInv
         /\ Inputs(def) \subseteq CellId
         /\ phase \notin {"comb", "x address"} => seqChanges = {}
BY SyncFacts DEF SyncInv, IInv, StoreInv, EventsAreTransient

\* The clock and reset of a register or memory are input ports, and it is among the
\* receivers they queue.
LEMMA ClockIsInput ==
  ASSUME AllSynchronous, def \in Circuits, NEW c \in Registers(def) \cup Memories(def), NEW p,
         p = "CLK" \/ (p = "ARST" /\ Tp(def, c) = "REG_ARST")
  PROVE  /\ Driver(def, c, p) \in Inputs(def)
         /\ \E s \in SeqReceivers(def, Driver(def, c, p)) : s.cell = c
<1>1. c \in Cells(def) /\ Tp(def, c) \in {"REG", "REG_ARST", "MEM"}
  BY DEF Registers, Memories
<1>2. p \in DOMAIN PortWidths(def.type[c])
  BY <1>1 DEF Tp, PortWidths, Comparator, Binop, ReduceOp, Unop
<1>3. /\ Driver(def, c, p) \in Cells(def)
      /\ PinOf(c, p) \in OutReceivers(def, Driver(def, c, p))
  BY <1>1, <1>2, SyncFacts, PortIsDriven
<1>4. SigPort(PinOf(c, p)) \in SeqReceivers(def, Driver(def, c, p))
  BY <1>3 DEF SeqReceivers, PinOf
<1> QED BY <1>3, <1>4, SyncFacts DEF SigPort, PinOf

\* A change of outputs that are no ports is no clock event.
LEMMA InsideSignal ==
  ASSUME Quiet, Circuit, TypeOK, NEW C \in SUBSET (Evaluated(def) \cup Registers(def)),
         NEW mid, NEW new, NEW combs, NEW seqs, Signal(C, mid, new, combs, seqs)
  PROVE  /\ past' = past /\ seqChanges' = seqs
         /\ \A c \in CellId \ C : value'[c] = value[c]
         /\ \A c \in Inputs(def) : value'[c] = value[c]
<1>1. \A c \in C : SeqReceivers(def, c) = {} /\ c \in CellId /\ c \notin Inputs(def)
  BY DEF Quiet, Evaluated, Registers, Inputs, Cells, Tp
<1>2. Changed(mid, new, C) \subseteq C
  BY DEF Changed
<1>3. past' = past
  <2>1. past' = [c \in CellId |-> past[c]]
    BY <1>1, <1>2 DEF Signal
  <2> QED BY <2>1 DEF TypeOK
<1>4. seqChanges' = seqs
  BY <1>1, <1>2 DEF Signal
<1>5. \A c \in CellId \ C : value'[c] = value[c]
  BY DEF Signal
<1> QED BY <1>1, <1>3, <1>4, <1>5 DEF Inputs, Cells

\* What update signals of the ports.
LEMMA PortsSignalled ==
  ASSUME TypeOK, seqChanges = {}, Update
  PROVE  /\ def' = def /\ reg' = reg /\ mem' = mem /\ phase' = "comb" /\ seqChanges = {}
         /\ \A c \in Inputs(def) : value'[c] = PortLast(c) /\ userInputs'[c] = {}
         /\ \A c \in CellId \ Inputs(def) : value'[c] = value[c]
         /\ \A c \in CellId : past'[c] = IF c \in Inputs(def) /\ SeqReceivers(def, c) # {}
                                        THEN PortMid(c) ELSE past[c]
         /\ seqChanges' = UNION {SeqReceivers(def, c) :
                c \in {i \in Inputs(def) : PortMid(i) # value[i] \/ PortLast(i) # PortMid(i)}}
<1>2. Inputs(def) \subseteq CellId
  BY DEF Inputs, Cells
<1> DEFINE mid == [c \in CellId |-> PortMid(c)]
           new == [c \in CellId |-> PortLast(c)]
           C   == {i \in Inputs(def) : PortMid(i) # value[i] \/ PortLast(i) # PortMid(i)}
<1>3. Changed(mid, new, Inputs(def)) = C
  BY <1>2 DEF Changed
<1>4. /\ value' = [c \in CellId |-> IF c \in Inputs(def) THEN new[c] ELSE value[c]]
      /\ past'  = [c \in CellId |-> IF c \in Inputs(def) /\ SeqReceivers(def, c) # {}
                                    THEN mid[c] ELSE past[c]]
      /\ seqChanges' = seqChanges \cup UNION {SeqReceivers(def, c) : c \in C}
  BY <1>3 DEF Update, Signal
<1> QED BY <1>2, <1>4 DEF Update

\* Of the values given to a port it takes the last, by way of the smaller if there are two.
LEMMA PortTakesFresh ==
  ASSUME SyncInv, NEW c \in Inputs(def), Circuit, c \in CellId
  PROVE  /\ PortLast(c) \in Fresh \cup {value[c]}
         /\ PortMid(c) \in Val
         /\ PortMid(c) = value[c] \/ (PortMid(c) = 0 /\ PortLast(c) = 1)
<1>1. /\ userInputs[c] \subseteq Fresh /\ userInputs[c] \subseteq Val
      /\ PortMid(c) \in Val /\ TypeOK
  BY PortValues DEF SyncInv, IInv, StoreInv, InputsAreFresh, TypeOK
<1>2. userInputs[c] # {} => \E v \in userInputs[c] : \A w \in userInputs[c] : ~QLess(v, w)
  <2>1. CASE 1 \in userInputs[c]
    BY <2>1, <1>1 DEF QLess, IsBinary, Val
  <2>2. CASE 1 \notin userInputs[c]
    BY <2>2, <1>1 DEF QLess, IsBinary, Val
  <2> QED BY <2>1, <2>2
<1>3. PortLast(c) \in Fresh \cup {value[c]}
  BY <1>1, <1>2 DEF PortLast
<1>4. userInputs[c] = {0, 1} => PortLast(c) = 1
  <2>1. userInputs[c] = {0, 1} =>
          \A v \in userInputs[c] : (\A w \in userInputs[c] : ~QLess(v, w)) => v = 1
    BY DEF QLess, IsBinary
  <2> QED BY <2>1, <1>2 DEF PortLast
<1> QED BY <1>1, <1>3, <1>4 DEF PortMid

-----------------------------------------------------------------------------
(* The invariant.                                                            *)

LEMMA InitSyncInv ==
  ASSUME AllSynchronous, Init
  PROVE  SyncInv
<1>1. IInv /\ def \in Circuits
  BY InitIInv DEF Init
<1>2. ConstantsKept /\ OnlyRegistersHaveStates
  BY DEF Init, ConstantsKept, OnlyRegistersHaveStates
<1>3. InputsAreFresh
  <2>1. \A c \in Inputs(def) : InitialValue(def, c) = X /\ c \in CellId
    BY DEF InitialValue, Inputs, Memories, Tp, Cells
  <2>2. 0 \in Val
    BY DEF Val
  <2> QED BY <2>1, <2>2 DEF Init, InputsAreFresh
<1> QED BY <1>1, <1>2, <1>3 DEF SyncInv, Init, EventsAreTransient, EdgesAreQueued

LEMMA SetFreshValueSync ==
  ASSUME AllSynchronous, SyncInv, NEW c \in CellId, NEW v \in Fresh, SetFreshValue(c, v)
  PROVE  SyncInv'
<1>1. IInv' /\ def' = def
  BY SetFreshValueStep DEF SyncInv, IInv, Keeps, SetFreshValue
<1>2. InputsAreFresh'
  <2>1. \A i \in CellId : userInputs'[i] = userInputs[i] \/ userInputs'[i] = userInputs[i] \cup {v}
    BY DEF SetFreshValue, SyncInv, IInv, StoreInv, TypeOK
  <2>2. Inputs(def) \subseteq CellId
    BY DEF Inputs, Cells
  <2> QED BY <2>1, <2>2 DEF SetFreshValue, store, SyncInv, InputsAreFresh
<1> QED BY <1>1, <1>2 DEF SyncInv, ConstantsKept, OnlyRegistersHaveStates, EventsAreTransient,
           EdgesAreQueued, SetFreshValue, store

LEMMA UpdateSync ==
  ASSUME AllSynchronous, SyncInv, Update
  PROVE  SyncInv'
<1>1. IInv' /\ Circuit /\ TypeOK /\ def' = def /\ seqChanges = {}
  BY UpdateStep, SyncInvFacts DEF SyncInv, IInv, Keeps, Update
<1>2. Inputs(def) \subseteq CellId
  BY SyncInvFacts
<1>3. \A c \in Inputs(def) : PortLast(c) \in Fresh \cup {value[c]} /\ PortMid(c) \in Val
  BY <1>1, <1>2, PortTakesFresh
<1>4. ConstantsKept' /\ OnlyRegistersHaveStates' /\ EventsAreTransient'
  BY <1>1, PortsSignalled DEF SyncInv, ConstantsKept, OnlyRegistersHaveStates, EventsAreTransient
<1>5. InputsAreFresh'
  BY <1>1, <1>2, <1>3, PortsSignalled DEF SyncInv, InputsAreFresh
<1>6. EdgesAreQueued'
  <2> SUFFICES ASSUME NEW c \in Inputs(def)
               PROVE  past'[c] = value'[c] \/ SeqReceivers(def, c) \subseteq seqChanges'
    BY <1>1, PortsSignalled DEF EdgesAreQueued
  <2>1. CASE PortMid(c) # value[c] \/ PortLast(c) # PortMid(c)
    BY <1>1, <2>1, PortsSignalled
  <2>2. CASE SeqReceivers(def, c) # {} /\ PortLast(c) = PortMid(c)
    BY <1>1, <2>2, <1>2, PortsSignalled
  <2>3. CASE SeqReceivers(def, c) = {}
    BY <2>3
  <2> QED BY <2>1, <2>2, <2>3
<1> QED BY <1>1, <1>4, <1>5, <1>6 DEF SyncInv

\* updatePort changes the output of a cell that clocks nothing.
LEMMA UpdatePortInside ==
  ASSUME Quiet, Circuit, TypeOK, def' = def, NEW e \in Evaluated(def), NEW combs,
         UpdatePort(e, combs)
  PROVE  /\ past' = past /\ seqChanges' = seqChanges
         /\ \A c \in CellId \ Evaluated(def) : value'[c] = value[c]
         /\ \A c \in Inputs(def) : value'[c] = value[c]
<1> DEFINE new == [value EXCEPT ![e] = Eval(def, value, mem, e)]
<1>1. Signal({e}, value, new, combs, seqChanges)
  BY DEF UpdatePort
<1> HIDE DEF new
<1>2. {e} \in SUBSET (Evaluated(def) \cup Registers(def))
  OBVIOUS
<1> QED BY <1>1, <1>2, InsideSignal

\* What a step leaves as it is that evaluates one cell, or none.
Outside ==
  /\ def' = def /\ reg' = reg /\ mem' = mem /\ past' = past /\ seqChanges' = seqChanges
  /\ userInputs' = userInputs
  /\ \A c \in CellId \ Evaluated(def) : value'[c] = value[c]

LEMMA OutsideSync ==
  ASSUME AllSynchronous, SyncInv, IInv', Outside,
         phase' \in {"comb", "x address"} \/ seqChanges = {}
  PROVE  SyncInv'
<1>1. /\ Inputs(def) \subseteq CellId \ Evaluated(def)
      /\ \A c \in Inputs(def) : value'[c] = value[c]
  BY SyncFacts DEF Outside, SyncInv
<1>2. ConstantsKept' /\ OnlyRegistersHaveStates' /\ InputsAreFresh'
  BY <1>1 DEF Outside, SyncInv, ConstantsKept, OnlyRegistersHaveStates, InputsAreFresh
<1>3. EventsAreTransient' /\ EdgesAreQueued'
  BY <1>1 DEF Outside, SyncInv, EventsAreTransient, EdgesAreQueued
<1> QED BY <1>2, <1>3 DEF SyncInv, Outside

LEMMA CombStepOutside ==
  ASSUME Quiet, StoreInv, CombStep
  PROVE  Outside /\ phase' = "comb" /\ phase = "comb"
<1> DEFINE s == First(combChanges)
<1>1. Circuit /\ TypeOK /\ def' = def
  BY DEF StoreInv, CombStep
<1>2. CASE s.cell \in Evaluated(def)
  <2>1. UpdatePort(s.cell, combChanges \ {s})
    BY <1>2 DEF CombStep
  <2> HIDE DEF s
  <2> QED BY <1>1, <1>2, <2>1, UpdatePortInside DEF Outside, CombStep
<1>3. CASE s.cell \notin Evaluated(def)
  BY <1>3 DEF CombStep, Outside
<1> QED BY <1>2, <1>3

LEMMA RereadStepOutside ==
  ASSUME Quiet, StoreInv, RereadStep
  PROVE  Outside /\ phase' = "reread" /\ phase = "reread"
<1>1. Circuit /\ TypeOK /\ def' = def
  BY DEF StoreInv, RereadStep
<1>2. PICK e \in reread : UpdatePort(e, combChanges)
  BY DEF RereadStep
<1>3. e \in Evaluated(def)
  BY <1>1, <1>2 DEF TypeOK, Memories, Evaluated, Inputs, Registers
<1> QED BY <1>1, <1>2, <1>3, UpdatePortInside DEF Outside, RereadStep

\* The outputs of the registers that load are no ports.
LEMMA SeqStepSignal ==
  ASSUME Quiet, StoreInv, SeqStep
  PROVE  /\ def' = def /\ userInputs' = userInputs /\ past' = past /\ seqChanges' = {}
         /\ phase = "comb" /\ phase' = "reread" /\ combChanges = {}
         /\ \A c \in CellId \ Registers(def) : value'[c] = value[c] /\ reg'[c] = reg[c]
         /\ \A c \in Inputs(def) : value'[c] = value[c]
<1> DEFINE loading == {c \in Registers(def) \cap Clocked : NextReg(c) # reg[c]}
<1>1. Circuit /\ TypeOK /\ Signal(loading, value, reg', {}, {})
  BY DEF StoreInv, SeqStep
<1>2. loading \in SUBSET (Evaluated(def) \cup Registers(def)) /\ loading \subseteq Registers(def)
  OBVIOUS
<1>3. \A c \in CellId : reg'[c] = IF c \in loading THEN NextReg(c) ELSE reg[c]
  BY DEF SeqStep
<1> HIDE DEF loading
<1>4. /\ past' = past /\ seqChanges' = {}
      /\ \A c \in CellId \ loading : value'[c] = value[c]
      /\ \A c \in Inputs(def) : value'[c] = value[c]
  BY <1>1, <1>2, InsideSignal
<1> QED BY <1>2, <1>3, <1>4 DEF SeqStep

LEMMA SeqStepSync ==
  ASSUME AllSynchronous, SyncInv, SeqStep
  PROVE  SyncInv'
<1>1. IInv' /\ Quiet /\ StoreInv
  BY SeqStepStep, SyncInvFacts DEF SyncInv, IInv, Keeps
<1>2. ConstantsKept' /\ OnlyRegistersHaveStates' /\ InputsAreFresh'
  BY <1>1, SeqStepSignal DEF SyncInv, ConstantsKept, OnlyRegistersHaveStates, InputsAreFresh
<1> QED BY <1>1, <1>2, SeqStepSignal DEF SyncInv, EventsAreTransient, EdgesAreQueued

LEMMA NextSyncInv ==
  ASSUME AllSynchronous, SyncInv, [Next]_vars
  PROVE  SyncInv'
<1>0. IInv'
  BY NextIInv DEF SyncInv
<1>1. CASE \E c \in CellId, v \in Fresh : SetFreshValue(c, v)
  BY <1>1, SetFreshValueSync
<1>2. CASE Update
  BY <1>2, UpdateSync
<1>3. CASE CombStep
  BY <1>0, <1>3, SyncInvFacts, CombStepOutside, OutsideSync
<1>4. CASE StoreAborts
  BY <1>0, <1>4, OutsideSync DEF Outside, StoreAborts, store
<1>5. CASE SeqStep
  BY <1>5, SeqStepSync
<1>6. CASE RereadStep
  BY <1>0, <1>6, SyncInvFacts, RereadStepOutside, OutsideSync DEF SyncInv, EventsAreTransient
<1>7. CASE LoopEnd
  BY <1>0, <1>7, OutsideSync DEF Outside, LoopEnd, store, SyncInv, EventsAreTransient
<1>8. CASE UNCHANGED vars
  BY <1>0, <1>8, OutsideSync DEF Outside, vars, store, SyncInv, EventsAreTransient
<1> QED BY <1>1, <1>2, <1>3, <1>4, <1>5, <1>6, <1>7, <1>8 DEF Next, Running

-----------------------------------------------------------------------------
(* The refinement.                                                           *)

LEMMA InitRefines ==
  ASSUME AllSynchronous, Init
  PROVE  Sync!Init
<1>2. \A c \in Inputs(def) : value[c] = X /\ c \in CellId
  BY DEF InitialValue, Inputs, Memories, Tp, Cells, Init
<1>3. \A c \in Inputs(def) : SeqReceivers(def, c) # {} => past[c] = 0
  BY <1>2 DEF Init
<1>4. ~Clocking
  BY DEF Init, Clocking
<1> QED BY <1>2, <1>3, <1>4, SameOperators DEF Sync!Init, Sync!Clocks, Init

\* A step that leaves what the synchronous circuit shows is none of its steps.
LEMMA Stutters ==
  ASSUME AllSynchronous, SyncInv, Outside, Clocking' = Clocking
  PROVE  UNCHANGED Sync!vars
<1>1. \A c \in Inputs(def) : value'[c] = value[c]
  BY SyncFacts DEF Outside, SyncInv
<1>2. /\ [c \in Inputs(def') |-> value'[c]] = [c \in Inputs(def) |-> value[c]]
      /\ [c \in {i \in Inputs(def') : SeqReceivers(def', i) # {}} |-> past'[c]]
           = [c \in {i \in Inputs(def) : SeqReceivers(def, i) # {}} |-> past[c]]
  BY <1>1 DEF Outside
<1> QED BY <1>2 DEF Sync!vars, Outside

LEMMA UpdateRefines ==
  ASSUME AllSynchronous, SyncInv, Update
  PROVE  Sync!Change
<1>1. Circuit /\ TypeOK /\ Inputs(def) \subseteq CellId /\ seqChanges = {}
  BY SyncInvFacts DEF Update
<1>2. /\ def' = def /\ reg' = reg /\ mem' = mem /\ phase' = "comb" /\ seqChanges = {}
      /\ \A c \in Inputs(def) : value'[c] = PortLast(c)
      /\ \A c \in Inputs(def) : SeqReceivers(def, c) # {} => past'[c] = PortMid(c)
  BY <1>1, PortsSignalled
<1>3. \A c \in Inputs(def) :
        /\ PortLast(c) \in Fresh \cup {value[c]} /\ value[c] \in Fresh \cup {X}
        /\ PortMid(c) \in Val
        /\ PortMid(c) = value[c] \/ (PortMid(c) = 0 /\ PortLast(c) = 1)
  BY <1>1, PortTakesFresh DEF SyncInv, InputsAreFresh
<1>4. ~Clocking
  BY <1>2 DEF Clocking
<1> DEFINE clocks == {i \in Inputs(def) : SeqReceivers(def, i) # {}}
<1>5. Clocking' <=> \E c \in clocks : PortMid(c) # value[c] \/ PortLast(c) # PortMid(c)
  <2>1. Clocking' <=> seqChanges' # {}
    BY <1>2 DEF Clocking
  <2> QED BY <1>1, <2>1, PortsSignalled
<1>6. Clocking' <=> ~\A c \in clocks : past'[c] = value[c] /\ value'[c] = value[c]
  BY <1>2, <1>5
<1> DEFINE ports == [c \in Inputs(def) |-> value[c]]
           newIns == [c \in Inputs(def) |-> value'[c]]
           newOld == [c \in clocks |-> past'[c]]
<1>7. newIns \in [Inputs(def) -> Fresh \cup {X}] /\ \A c \in Inputs(def) : newIns[c] \in Fresh \cup {ports[c]}
  BY <1>2, <1>3
<1>8. /\ newOld \in [clocks -> Val]
      /\ \A c \in clocks : newOld[c] = ports[c] \/ (newOld[c] = 0 /\ newIns[c] = 1)
  BY <1>2, <1>3
<1>9. Sync!Clocks(def) = clocks /\ Sync!Inputs(def) = Inputs(def) /\ Sync!Val = Val /\ Sync!X = X
  BY SameOperators DEF Sync!Clocks
<1>10. (IF \A c \in clocks : newOld[c] = ports[c] /\ newIns[c] = ports[c] THEN "rest" ELSE "clocked")
         = IF Clocking' THEN "clocked" ELSE "rest"
  BY <1>6
<1> QED BY <1>2, <1>4, <1>7, <1>8, <1>9, <1>10 DEF Sync!Change

\* When nothing is left to evaluate, the outputs are what the synchronous circuit makes of
\* the inputs and states.
LEMMA SettledIsWires ==
  ASSUME AllSynchronous, SyncInv, combChanges = {}, reread = {}
  PROVE  Wires(def, [c \in Inputs(def) |-> value[c]], reg, mem) = value
<1>1. Circuit /\ TypeOK /\ def \in Circuits
  BY SyncInvFacts
<1>2. value = [c \in CellId |-> value[c]]
  BY <1>1 DEF TypeOK
<1> DEFINE in == [c \in Inputs(def) |-> value[c]]
<1>3. ASSUME NEW c \in CellId
      PROVE  value[c] = WireValue(def, in, reg, mem, value, c)
  BY DEF WireValue, SyncInv, IInv, StoreInv, StaleCellsArePending, RegistersShown, ConstantsKept
<1> HIDE DEF in
<1>4. Agree(def, in, reg, mem, value, CellId)
  BY <1>3 DEF Agree
<1>5. Wires(def, in, reg, mem) = value
  BY <1>1, <1>2, <1>4, SyncFacts, WiresAreUnique
<1> QED BY <1>5 DEF in

\* A register or memory that is not queued is at no edge.
LEMMA UnqueuedHasNoEdge ==
  ASSUME AllSynchronous, SyncInv, seqChanges # {},
         NEW c \in Registers(def) \cup Memories(def), c \notin Clocked,
         NEW p, p = "CLK" \/ (p = "ARST" /\ Tp(def, c) = "REG_ARST"), NEW positive
  PROVE  ~EdgeOn(c, p, positive)
<1> DEFINE d == Driver(def, c, p)
<1>1. d \in Inputs(def) /\ \E s \in SeqReceivers(def, d) : s.cell = c
  BY ClockIsInput DEF SyncInv, IInv
<1>2. past[d] = value[d]
  BY <1>1 DEF SyncInv, EdgesAreQueued, Clocked
<1> QED BY <1>2 DEF EdgeOn, In, Edge

\* The edge the synchronous circuit sees is the one the interpreter sees.
LEMMA SameEdges ==
  ASSUME AllSynchronous, SyncInv, NEW c \in Registers(def) \cup Memories(def),
         NEW p, p = "CLK" \/ (p = "ARST" /\ Tp(def, c) = "REG_ARST"), NEW positive
  PROVE  Sync!EdgeAt(c, p, positive) = EdgeOn(c, p, positive)
<1> DEFINE d == Driver(def, c, p)
<1>1. d \in Inputs(def) /\ SeqReceivers(def, d) # {}
  BY ClockIsInput DEF SyncInv, IInv
<1> DEFINE ports == [i \in Inputs(def) |-> value[i]]
           were == [i \in {j \in Inputs(def) : SeqReceivers(def, j) # {}} |-> past[i]]
<1>2. ports[d] = value[d] /\ were[d] = past[d]
  BY <1>1
<1>3. Sync!EdgeAt(c, p, positive) = Edge(positive, were[d], ports[d])
  BY SameOperators DEF Sync!EdgeAt
<1> QED BY <1>2, <1>3 DEF EdgeOn, In

LEMMA ClockRefines ==
  ASSUME AllSynchronous, SyncInv, SeqStep, seqChanges # {}
  PROVE  Sync!Clock
<1>1. /\ Circuit /\ TypeOK /\ combChanges = {} /\ reread = {} /\ phase = "comb"
      /\ phase' = "reread" /\ def' = def /\ past' = past
      /\ \A c \in Inputs(def) : value'[c] = value[c]
  BY SyncInvFacts, SeqStepSignal DEF StoreInv, QueuesDrained
<1>2. Clocking /\ ~Clocking'
  BY <1>1 DEF Clocking
<1> DEFINE in == [c \in Inputs(def) |-> value[c]]
<1>3. Sync!Wires(def, in, reg, mem) = value
  BY <1>1, SettledIsWires, SameWires
<1>4. reg' = [c \in CellId |-> IF c \in Registers(def) THEN Sync!Loaded(value, c) ELSE X]
  <2>1. ASSUME NEW c \in Registers(def)
        PROVE  reg'[c] = Sync!Loaded(value, c)
    <3>1. c \in CellId /\ Tp(def, c) \in {"REG", "REG_ARST"}
      BY DEF Registers, Cells
    <3>2. /\ \A q : Sync!EdgeAt(c, "CLK", q) = EdgeOn(c, "CLK", q)
          /\ Tp(def, c) = "REG_ARST" => \A q : Sync!EdgeAt(c, "ARST", q) = EdgeOn(c, "ARST", q)
      BY SameEdges
    <3>3. Sync!Loaded(value, c) = NextReg(c)
      BY <3>2, SameOperators DEF Sync!Loaded, NextReg, Resets, Tp
    <3>4. CASE c \in Clocked
      BY <3>1, <3>3, <3>4 DEF SeqStep
    <3>5. CASE c \notin Clocked
      <4>1. /\ \A q : ~EdgeOn(c, "CLK", q)
            /\ Tp(def, c) = "REG_ARST" => \A q : ~EdgeOn(c, "ARST", q)
        BY <3>5, UnqueuedHasNoEdge
      <4>2. NextReg(c) = reg[c]
        BY <4>1 DEF NextReg, Resets
      <4> QED BY <3>1, <3>3, <3>5, <4>2 DEF SeqStep
    <3> QED BY <3>4, <3>5
  <2>2. \A c \in CellId \ Registers(def) : reg'[c] = X
    BY SyncInvFacts, SeqStepSignal DEF SyncInv, OnlyRegistersHaveStates
  <2>3. reg' = [c \in CellId |-> reg'[c]]
    BY DEF SeqStep
  <2> QED BY <2>1, <2>2, <2>3
<1>5. mem' = [c \in CellId |-> IF c \in Memories(def) THEN Sync!Written(value, c) ELSE mem[c]]
  <2>1. ASSUME NEW c \in Memories(def)
        PROVE  mem'[c] = Sync!Written(value, c)
    <3>1. c \in CellId
      BY DEF Memories, Cells
    <3>2. Sync!EdgeAt(c, "CLK", TRUE) = EdgeOn(c, "CLK", TRUE)
      BY SameEdges
    <3>3. Sync!Written(value, c) = NextMem(c)
      BY <3>2, SameOperators DEF Sync!Written, NextMem, Writes
    <3>4. CASE c \in Clocked
      BY <3>1, <3>3, <3>4 DEF SeqStep
    <3>5. CASE c \notin Clocked
      <4>1. ~EdgeOn(c, "CLK", TRUE)
        BY <3>5, UnqueuedHasNoEdge
      <4> QED BY <3>1, <3>3, <3>5, <4>1 DEF SeqStep, NextMem, Writes
    <3> QED BY <3>4, <3>5
  <2>2. /\ \A c \in CellId \ Memories(def) : mem'[c] = mem[c]
        /\ mem' = [c \in CellId |-> mem'[c]]
    BY DEF SeqStep
  <2> QED BY <2>1, <2>2
<1>6. /\ [c \in Inputs(def') |-> value'[c]] = in
      /\ [c \in {i \in Inputs(def') : SeqReceivers(def', i) # {}} |-> past'[c]]
           = [c \in {i \in Inputs(def) : SeqReceivers(def, i) # {}} |-> past[c]]
  BY <1>1
<1> QED BY <1>1, <1>2, <1>3, <1>4, <1>5, <1>6, SameOperators DEF Sync!Clock

\* A turn in which no clock moved loads nothing.
LEMMA IdleSeqStep ==
  ASSUME AllSynchronous, SyncInv, SeqStep, seqChanges = {}
  PROVE  UNCHANGED Sync!vars
<1>1. Clocked = {} /\ TypeOK /\ Quiet /\ StoreInv
  BY SyncInvFacts DEF Clocked
<1>2. reg' = reg /\ mem' = mem
  <2>1. reg' = [c \in CellId |-> reg[c]] /\ mem' = [c \in CellId |-> mem[c]]
    BY <1>1 DEF SeqStep
  <2> QED BY <1>1, <2>1 DEF TypeOK
<1>3. Clocking' = Clocking
  BY <1>1, SeqStepSignal DEF Clocking
<1>4. \A c \in Inputs(def) : value'[c] = value[c]
  BY <1>1, SeqStepSignal
<1>5. /\ [c \in Inputs(def') |-> value'[c]] = [c \in Inputs(def) |-> value[c]]
      /\ [c \in {i \in Inputs(def') : SeqReceivers(def', i) # {}} |-> past'[c]]
           = [c \in {i \in Inputs(def) : SeqReceivers(def, i) # {}} |-> past[c]]
  BY <1>1, <1>4, SeqStepSignal
<1> QED BY <1>1, <1>2, <1>3, <1>5, SeqStepSignal DEF Sync!vars

LEMMA NextRefines ==
  ASSUME AllSynchronous, SyncInv, [Next]_vars
  PROVE  [Sync!Next]_Sync!vars
<1>1. CASE \E c \in CellId, v \in Fresh : SetFreshValue(c, v)
  <2>1. UNCHANGED <<def, value, past, reg, mem, Clocking>>
    BY <1>1 DEF SetFreshValue, store, Clocking
  <2> QED BY <2>1 DEF Sync!vars
<1>2. CASE Update
  BY <1>2, UpdateRefines DEF Sync!Next
<1>3. CASE CombStep
  BY <1>3, SyncInvFacts, CombStepOutside, Stutters DEF Clocking, Outside
<1>4. CASE StoreAborts
  <2>1. UNCHANGED <<def, value, past, reg, mem, Clocking>>
    BY <1>4 DEF StoreAborts, store, Clocking
  <2> QED BY <2>1 DEF Sync!vars
<1>5. CASE SeqStep
  BY <1>5, ClockRefines, IdleSeqStep DEF Sync!Next
<1>6. CASE RereadStep
  BY <1>6, SyncInvFacts, RereadStepOutside, Stutters DEF Clocking
<1>7. CASE LoopEnd
  <2>1. UNCHANGED <<def, value, past, reg, mem, Clocking>>
    BY <1>7 DEF LoopEnd, store, Clocking, SyncInv, EventsAreTransient
  <2> QED BY <2>1 DEF Sync!vars
<1>8. CASE UNCHANGED vars
  <2>1. UNCHANGED <<def, value, past, reg, mem, Clocking>>
    BY <1>8 DEF vars, store, Clocking
  <2> QED BY <2>1 DEF Sync!vars
<1> QED BY <1>1, <1>2, <1>3, <1>4, <1>5, <1>6, <1>7, <1>8 DEF Next, Running

THEOREM SyncInvariantHolds ==
  ASSUME AllSynchronous
  PROVE  Spec => []SyncInv
BY InitSyncInv, NextSyncInv, PTL DEF Spec

\* Every behaviour of setFreshValue and update is one of the synchronous circuit.
THEOREM UpdateIsSynchronous ==
  ASSUME AllSynchronous
  PROVE  Spec => ImplementsSync
<1>1. Init => Sync!Init
  BY InitRefines
<1>2. SyncInv /\ [Next]_vars => [Sync!Next]_Sync!vars
  BY NextRefines
<1> QED BY <1>1, <1>2, SyncInvariantHolds, PTL DEF Spec, ImplementsSync, Sync!Spec

\* update ends without a clock event left, whatever the clocks do: the assertion at its
\* end only fails where a cell that is no port clocks another.
THEOREM NoEventIsLost ==
  ASSUME AllSynchronous
  PROVE  Spec => []NoLostEvent
<1>1. Init => NoLostEvent
  BY DEF Init, NoLostEvent
<1>2. SyncInv /\ NoLostEvent /\ [Next]_vars => NoLostEvent'
  <2> SUFFICES ASSUME SyncInv, NoLostEvent, [Next]_vars, phase' # phase
               PROVE  NoLostEvent'
    BY DEF NoLostEvent
  <2>1. CASE Update \/ StoreAborts \/ SeqStep
    BY <2>1 DEF NoLostEvent, Update, StoreAborts, SeqStep
  <2>2. CASE LoopEnd
    BY <2>2 DEF NoLostEvent, LoopEnd, SyncInv, EventsAreTransient
  <2>3. CASE \E c \in CellId, v \in Fresh : SetFreshValue(c, v)
    BY <2>3 DEF SetFreshValue
  <2>4. CASE CombStep \/ RereadStep \/ UNCHANGED vars
    BY <2>4 DEF CombStep, RereadStep, vars
  <2> QED BY <2>1, <2>2, <2>3, <2>4 DEF Next, Running
<1> QED BY <1>1, <1>2, SyncInvariantHolds, PTL DEF Spec

-----------------------------------------------------------------------------
(* Specialization.  First that Fold and Clean, the modules it is made of, are *)
(* those the lemmas of FoldProofs and CleanupProofs are about.               *)
FP == INSTANCE FoldProofs WITH phase <- stage
CP == INSTANCE CleanupProofs WITH pass <- stage

\* The operators of FoldProofs are those of CellProofs.
LEMMA FoldingOperators ==
  /\ \A n : FP!WellFormed(n) = WellFormed(n)
  /\ \A n : FP!FullyDriven(n) = FullyDriven(n)
  /\ \A n : FP!Acyclic(n) = Acyclic(n)
  /\ \A n, c : FP!CellIns(n, c) = CellIns(n, c)
  /\ \A n : FP!Registers(n) = Registers(n)
  /\ \A n : FP!Cells(n) = Cells(n)
  /\ \A n, c : FP!Tp(n, c) = Tp(n, c)
  /\ \A n, v, c, p : FP!In(n, v, c, p) = In(n, v, c, p)
  /\ \A n, c, p : FP!Driver(n, c, p) = Driver(n, c, p)
  /\ \A o, w, m : FP!Solution(o, w, m) = Solution(o, w, m)
  /\ \A n, o, w : FP!ReadsAs(n, o, w) = ReadsAs(n, o, w)
  /\ \A n : FP!InBits(n) = InBits(n)
  /\ \A n, c, p : FP!NameTaken(n, c, p) = NameTaken(n, c, p)
  /\ \A c, p : FP!PinOf(c, p) = PinOf(c, p)
  /\ \A n, c, d, e : FP!FoldedInto(n, c, d, e) = FoldedInto(n, c, d, e)
  /\ \A n, o : FP!Remains(n, o) = Remains(n, o)
<1> USE DEF FP!Binop, Binop, FP!Bit, Bit, FP!CellId, CellId, FP!Comparator, Comparator,
       FP!NoType, NoType, FP!NoBit, NoBit, FP!Offset, Offset, FP!Port, Port, FP!InPort, InPort,
       FP!OutPort, OutPort, FP!PortWidths, PortWidths, FP!ReduceOp, ReduceOp, FP!Unop, Unop,
       FP!Width, Width, FP!Tp, Tp, FP!PinOf, PinOf, FP!Driver, Driver, FP!X, X, FP!Val, Val
<1>1. \A n : FP!WellFormed(n) = WellFormed(n)
  BY DEF FP!Cells, Cells, FP!CellsNumbered, CellsNumbered, FP!EndsAgreeIn, EndsAgreeIn,
         FP!InBits, InBits, FP!Net, Net, FP!OutBits, OutBits, FP!WellFormed, WellFormed,
         FP!WiresExistIn, WiresExistIn
<1>2. \A n : FP!FullyDriven(n) = FullyDriven(n)
  BY DEF FP!FullyDriven, FullyDriven, FP!InBits, InBits
<1>3. \A n : FP!Acyclic(n) = Acyclic(n)
  BY DEF FP!Acyclic, Acyclic, FP!Binary, Binary, FP!Cells, Cells, FP!Evaluated, Evaluated,
         FP!Inputs, Inputs, FP!Reads, Reads, FP!Registers, Registers
<1>4. \A n, c : FP!CellIns(n, c) = CellIns(n, c)
  BY DEF FP!CellIns, CellIns, FP!InBits, InBits
<1>5. \A n : FP!Registers(n) = Registers(n)
  BY DEF FP!Cells, Cells, FP!Registers, Registers
<1>6. \A n : FP!Cells(n) = Cells(n)
  BY DEF FP!Cells, Cells
<1>7. \A n, c : FP!Tp(n, c) = Tp(n, c)
  OBVIOUS
<1>8. \A n, v, c, p : FP!In(n, v, c, p) = In(n, v, c, p)
  BY DEF FP!In, In
<1>9. \A n, c, p : FP!Driver(n, c, p) = Driver(n, c, p)
  OBVIOUS
<1>10. \A o, w, m : FP!Solution(o, w, m) = Solution(o, w, m)
  BY DEF FP!Bool, Bool, FP!Cells, Cells, FP!Eval, Eval, FP!Evaluated, Evaluated, FP!In, In,
         FP!Inputs, Inputs, FP!IsBinary, IsBinary, FP!QAnd, QAnd, FP!QEquals, QEquals, FP!QLess,
         QLess, FP!QNot, QNot, FP!QOr, QOr, FP!QXor, QXor, FP!Registers, Registers, FP!Solution,
         Solution
<1>11. \A n, o, w : FP!ReadsAs(n, o, w) = ReadsAs(n, o, w)
  BY DEF FP!Cells, Cells, FP!InBits, InBits, FP!InitialValue, InitialValue, FP!Memories,
         Memories, FP!ReadsAs, ReadsAs, FP!Value, Value
<1>12. \A n : FP!InBits(n) = InBits(n)
  BY DEF FP!InBits, InBits
<1>13. \A n, c, p : FP!NameTaken(n, c, p) = NameTaken(n, c, p)
  BY DEF FP!NameTaken, NameTaken
<1>14. \A c, p : FP!PinOf(c, p) = PinOf(c, p)
  OBVIOUS
<1>15. \A n, c, d, e : FP!FoldedInto(n, c, d, e) = FoldedInto(n, c, d, e)
  BY <1>1, <1>2, <1>6, <1>7, <1>12 DEF FP!FoldedInto, FoldedInto, FP!HandedTo, HandedTo
<1>16. \A n, o : FP!Remains(n, o) = Remains(n, o)
  BY <1>1, <1>2, <1>3, <1>6, <1>7 DEF FP!Remains, Remains
<1> QED BY <1>1, <1>2, <1>3, <1>4, <1>5, <1>6, <1>7, <1>8, <1>9, <1>10, <1>11, <1>12, <1>13,
       <1>14, <1>15, <1>16

\* What foldConstants and the removals assume.
LEMMA FoldingAssumptions ==
  ASSUME Specializable
  PROVE  FP!NetlistAssumption /\ FP!SemanticsAssumption /\ FP!FoldAssumption
<1>1. FP!NetlistAssumption
  BY NetlistAssumption DEF FP!NetlistAssumption
<1>2. FP!SemanticsAssumption
  BY SemanticsAssumption DEF FP!SemanticsAssumption,
         FP!Binary, Binary, FP!Binop, Binop, FP!Comparator, Comparator,
         FP!PortWidths, PortWidths, FP!ReduceOp, ReduceOp, FP!Simulated, Simulated, FP!Unary,
         Unary, FP!Unop, Unop, FP!Val, Val
<1>3. FP!FoldAssumption
  <2>1. \A v \in FP!Val : FP!Const(v) \in Kind
    BY DEF Specializable, FP!Const, Fold!Const, FP!Val, Val
  <2>2. \A n \in Circuits : FP!WellFormed(n) /\ FP!FullyDriven(n)
    BY FoldingOperators, SimulatorAssumption
  <2>3. \A n \in Circuits : \A c \in FP!Cells(n) : FP!Tp(n, c) = "PORT" => c \in n.portCells
    BY FoldingOperators DEF Specializable
  <2> QED BY <2>1, <2>2, <2>3 DEF FP!FoldAssumption
<1> QED BY <1>1, <1>2, <1>3

\* A turn of the one is a turn of the other.
LEMMA FoldingTurns == Fold!Next => FP!Next
<1> USE DEF FP!Binop, Fold!Binop, FP!Bit, Fold!Bit, FP!CellId, Fold!CellId, FP!Comparator,
       Fold!Comparator, FP!NoType, Fold!NoType, FP!NoBit, Fold!NoBit, FP!Offset, Fold!Offset,
       FP!Port, Fold!Port, FP!InPort, Fold!InPort, FP!OutPort, Fold!OutPort, FP!PortWidths,
       Fold!PortWidths, FP!ReduceOp, Fold!ReduceOp, FP!Unop, Fold!Unop, FP!Width, Fold!Width,
       FP!Tp, Fold!Tp, FP!PinOf, Fold!PinOf, FP!Driver, Fold!Driver, FP!NotConst, Fold!NotConst,
       FP!X, Fold!X, FP!Val, Fold!Val
<1>1. \A n, c, p, w : FP!MoveReceivers(n, c, p, w) = Fold!MoveReceivers(n, c, p, w)
  BY DEF FP!MoveReceivers, Fold!MoveReceivers, FP!Moved, Fold!Moved, FP!OutBits, Fold!OutBits,
         FP!PortOuts, Fold!PortOuts, FP!Receivers, Fold!Receivers, FP!SetDrivers,
         Fold!SetDrivers
<1>2. \A n, c, p, w : FP!MoveReceiversAborts(n, c, p, w) = Fold!MoveReceiversAborts(n, c, p, w)
  BY DEF FP!InBits, Fold!InBits, FP!MoveReceiversAborts, Fold!MoveReceiversAborts, FP!Moved,
         Fold!Moved, FP!OutBits, Fold!OutBits, FP!PortOuts, Fold!PortOuts, FP!Receivers,
         Fold!Receivers, FP!SetDriversAborts, Fold!SetDriversAborts
<1>3. \A n, c : FP!DeleteCell(n, c) = Fold!DeleteCell(n, c)
  BY DEF FP!CellIns, Fold!CellIns, FP!CellOuts, Fold!CellOuts, FP!DeleteCell, Fold!DeleteCell,
         FP!InBits, Fold!InBits, FP!OutBits, Fold!OutBits
<1>4. \A n, c : FP!DeleteCellAborts(n, c) = Fold!DeleteCellAborts(n, c)
  BY DEF FP!CellIns, Fold!CellIns, FP!CellOuts, Fold!CellOuts, FP!DeleteCellAborts,
         Fold!DeleteCellAborts, FP!InBits, Fold!InBits, FP!MissingDriver, Fold!MissingDriver,
         FP!OutBits, Fold!OutBits, FP!UnhookedFirst, Fold!UnhookedFirst
<1>5. \A n, c, p : FP!MaterializeConstPort(n, c, p) = Fold!MaterializeConstPort(n, c, p)
  BY DEF FP!MaterializeConstPort, Fold!MaterializeConstPort
<1>6. \A n, k : FP!AddCell(n, k) = Fold!AddCell(n, k)
  BY DEF FP!AddCell, Fold!AddCell
<1>7. \A c, p : FP!Bus(c, p) = Fold!Bus(c, p)
  BY DEF FP!Bus, Fold!Bus
<1>8. \A n, c, p : FP!ClearReceivers(n, c, p) = Fold!ClearReceivers(n, c, p)
  BY DEF FP!ClearReceivers, Fold!ClearReceivers
<1>9. \A n, c, p, k : FP!ReplaceWithConstantAborts(n, c, p, k) = Fold!ReplaceWithConstantAborts(n, c, p, k)
  BY DEF FP!AddCell, Fold!AddCell, FP!Bus, Fold!Bus, FP!InBits, Fold!InBits,
         FP!MoveReceiversAborts, Fold!MoveReceiversAborts, FP!Moved, Fold!Moved, FP!NameTaken,
         Fold!NameTaken, FP!OutBits, Fold!OutBits, FP!PortOuts, Fold!PortOuts, FP!Receivers,
         Fold!Receivers, FP!ReplaceWithConstantAborts, Fold!ReplaceWithConstantAborts,
         FP!SetDriversAborts, Fold!SetDriversAborts
<1>10. \A n, c, r : FP!GetOutput(n, c, r) = Fold!GetOutput(n, c, r)
  BY DEF FP!Binary, Fold!Binary, FP!Bool, Fold!Bool, FP!DoBinop, Fold!DoBinop, FP!DoUnop,
         Fold!DoUnop, FP!GetOutput, Fold!GetOutput, FP!IsBinary, Fold!IsBinary,
         FP!MaterializeConstPort, Fold!MaterializeConstPort, FP!MaterializeRegisterInput,
         Fold!MaterializeRegisterInput, FP!QAnd, Fold!QAnd, FP!QEquals, Fold!QEquals, FP!QLess,
         Fold!QLess, FP!QNot, Fold!QNot, FP!QOr, Fold!QOr, FP!QXor, Fold!QXor
<1>11. \A n, c : FP!ReceiverCells(n, c) = Fold!ReceiverCells(n, c)
  BY DEF FP!OutBits, Fold!OutBits, FP!PortOuts, Fold!PortOuts, FP!ReceiverCells,
         Fold!ReceiverCells, FP!Receivers, Fold!Receivers
<1>12. \A n, c : FP!ChosenBus(n, c) = Fold!ChosenBus(n, c)
  BY DEF FP!ChosenBus, Fold!ChosenBus, FP!MaterializeConstPort, Fold!MaterializeConstPort
<1>13. \A n, c : FP!CellIns(n, c) = Fold!CellIns(n, c)
  BY DEF FP!CellIns, Fold!CellIns, FP!InBits, Fold!InBits
<1>14. \A n : FP!Cells(n) = Fold!Cells(n)
  BY DEF FP!Cells, Fold!Cells
<1>15. \A n, c : FP!Tp(n, c) = Fold!Tp(n, c)
  OBVIOUS
<1>16. \A n, c, p, k : FP!ReplaceWithConstant(n, c, p, k) = Fold!ReplaceWithConstant(n, c, p, k)
  BY <1>1, <1>6, <1>7, <1>8 DEF FP!ReplaceWithConstant, Fold!ReplaceWithConstant
<1>17. \A n, c : FP!SelectKnown(n, c) <=> Fold!SelectKnown(n, c)
  BY <1>5, <1>15 DEF FP!SelectKnown, Fold!SelectKnown
<1>18. \A n, c : FP!MemoryKnown(n, c) <=> Fold!MemoryKnown(n, c)
  BY <1>5, <1>15 DEF FP!MemoryKnown, Fold!MemoryKnown
<1>19. \A n, c, r : FP!OutputKnown(n, c, r) <=> Fold!OutputKnown(n, c, r)
  BY <1>10, <1>15 DEF FP!OutputKnown, Fold!OutputKnown
<1>20. \A n, c, r : FP!Foldable(n, c, r) <=> Fold!Foldable(n, c, r)
  BY <1>17, <1>18, <1>19 DEF FP!Foldable, Fold!Foldable
<1>21. \A n, c : FP!AllInputsConst(n, c) <=> Fold!AllInputsConst(n, c)
  BY <1>5, <1>13 DEF FP!AllInputsConst, Fold!AllInputsConst
<1>22. \A c : Fold!FoldMux(c) => FP!FoldMux(c)
  BY <1>1, <1>2, <1>3, <1>4, <1>11, <1>12, <1>17 DEF FP!Delete, Fold!Delete, FP!FoldMux,
         Fold!FoldMux
<1>23. \A c : Fold!FoldMemory(c) => FP!FoldMemory(c)
  BY <1>3, <1>4, <1>9, <1>16, <1>18 DEF FP!Const, Fold!Const, FP!Delete, Fold!Delete,
         FP!FoldMemory, Fold!FoldMemory
<1>24. \A c : Fold!FoldOutput(c) => FP!FoldOutput(c)
  BY <1>3, <1>4, <1>9, <1>10, <1>11, <1>14, <1>15, <1>16, <1>19 DEF FP!Const, Fold!Const,
         FP!Delete, Fold!Delete, FP!FoldOutput, Fold!FoldOutput, FP!Registers, Fold!Registers
<1>25. \A c : Fold!PassOver(c) => FP!PassOver(c)
  BY <1>20 DEF FP!PassOver, Fold!PassOver
<1>26. Fold!Finish => FP!Finish
  BY <1>14, <1>21 DEF FP!Finish, Fold!Finish
<1>27. Fold!Turn => FP!Turn
  BY <1>22, <1>23, <1>24, <1>25 DEF FP!Turn, Fold!Turn
<1> QED BY <1>26, <1>27 DEF FP!Next, Fold!Next

\* The operators of CleanupProofs are those of CellProofs.
LEMMA RemovalOperators ==
  /\ \A n : CP!WellFormed(n) = WellFormed(n)
  /\ \A n : CP!FullyDriven(n) = FullyDriven(n)
  /\ \A n : CP!Acyclic(n) = Acyclic(n)
  /\ \A n : CP!Cells(n) = Cells(n)
  /\ \A n, c : CP!Tp(n, c) = Tp(n, c)
  /\ \A n : CP!InBits(n) = InBits(n)
  /\ \A n : CP!Evaluated(n) = Evaluated(n)
  /\ \A n, c, p : CP!Driver(n, c, p) = Driver(n, c, p)
  /\ \A tp : CP!Reads(tp) = Reads(tp)
  /\ \A n, v, m, c : CP!Eval(n, v, m, c) = Eval(n, v, m, c)
  /\ \A n, c, d, e : CP!FoldedInto(n, c, d, e) = FoldedInto(n, c, d, e)
<1> USE DEF CP!Binop, Binop, CP!Bit, Bit, CP!CellId, CellId, CP!Comparator, Comparator,
       CP!NoType, NoType, CP!NoBit, NoBit, CP!Offset, Offset, CP!Port, Port, CP!InPort, InPort,
       CP!OutPort, OutPort, CP!PortWidths, PortWidths, CP!ReduceOp, ReduceOp, CP!Unop, Unop,
       CP!Width, Width, CP!Tp, Tp, CP!PinOf, PinOf, CP!Driver, Driver, CP!X, X, CP!Val, Val
<1>1. \A n : CP!WellFormed(n) = WellFormed(n)
  BY DEF CP!Cells, Cells, CP!CellsNumbered, CellsNumbered, CP!EndsAgreeIn, EndsAgreeIn,
         CP!InBits, InBits, CP!Net, Net, CP!OutBits, OutBits, CP!WellFormed, WellFormed,
         CP!WiresExistIn, WiresExistIn
<1>2. \A n : CP!FullyDriven(n) = FullyDriven(n)
  BY DEF CP!FullyDriven, FullyDriven, CP!InBits, InBits
<1>3. \A n : CP!Acyclic(n) = Acyclic(n)
  BY DEF CP!Acyclic, Acyclic, CP!Binary, Binary, CP!Cells, Cells, CP!Evaluated, Evaluated,
         CP!Inputs, Inputs, CP!Reads, Reads, CP!Registers, Registers
<1>4. \A n : CP!Cells(n) = Cells(n)
  BY DEF CP!Cells, Cells
<1>5. \A n, c : CP!Tp(n, c) = Tp(n, c)
  OBVIOUS
<1>6. \A n : CP!InBits(n) = InBits(n)
  BY DEF CP!InBits, InBits
<1>7. \A n : CP!Evaluated(n) = Evaluated(n)
  BY DEF CP!Cells, Cells, CP!Evaluated, Evaluated, CP!Inputs, Inputs, CP!Registers, Registers
<1>8. \A n, c, p : CP!Driver(n, c, p) = Driver(n, c, p)
  OBVIOUS
<1>9. \A tp : CP!Reads(tp) = Reads(tp)
  BY DEF CP!Binary, Binary, CP!Reads, Reads
<1>10. \A n, v, m, c : CP!Eval(n, v, m, c) = Eval(n, v, m, c)
  BY DEF CP!Bool, Bool, CP!Eval, Eval, CP!In, In, CP!IsBinary, IsBinary, CP!QAnd, QAnd,
         CP!QEquals, QEquals, CP!QLess, QLess, CP!QNot, QNot, CP!QOr, QOr, CP!QXor, QXor
<1>11. \A n, c, d, e : CP!FoldedInto(n, c, d, e) = FoldedInto(n, c, d, e)
  BY <1>1, <1>2, <1>4, <1>5, <1>6 DEF CP!FoldedInto, FoldedInto, CP!HandedTo, HandedTo
<1> QED BY <1>1, <1>2, <1>3, <1>4, <1>5, <1>6, <1>7, <1>8, <1>9, <1>10, <1>11

LEMMA RemovalAssumptions ==
  CP!NetlistAssumption /\ CP!SemanticsAssumption /\ CP!CleanupAssumption
<1>1. CP!NetlistAssumption
  BY NetlistAssumption DEF CP!NetlistAssumption
<1>2. CP!SemanticsAssumption
  BY SemanticsAssumption DEF CP!SemanticsAssumption,
         CP!Binary, Binary, CP!Binop, Binop, CP!Comparator, Comparator,
         CP!PortWidths, PortWidths, CP!ReduceOp, ReduceOp, CP!Simulated, Simulated, CP!Unary,
         Unary, CP!Unop, Unop, CP!Val, Val
<1>3. CP!CleanupAssumption
  BY RemovalOperators, SimulatorAssumption DEF CP!CleanupAssumption
<1> QED BY <1>1, <1>2, <1>3

\* A turn of the one is a turn of the other.
LEMMA RemovalTurns ==
  ASSUME stage \notin {"passthroughs", "zexts", "zeros"}
  PROVE  /\ Clean!Turn => CP!Turn
         /\ Clean!Begin("duplicates") => CP!Begin("duplicates")
<1> USE DEF CP!Binop, Clean!Binop, CP!Bit, Clean!Bit, CP!CellId, Clean!CellId, CP!Comparator,
       Clean!Comparator, CP!NoType, Clean!NoType, CP!NoBit, Clean!NoBit, CP!Offset,
       Clean!Offset, CP!Port, Clean!Port, CP!InPort, Clean!InPort, CP!OutPort, Clean!OutPort,
       CP!PortWidths, Clean!PortWidths, CP!ReduceOp, Clean!ReduceOp, CP!Unop, Clean!Unop,
       CP!Width, Clean!Width, CP!Tp, Clean!Tp, CP!PinOf, Clean!PinOf, CP!Driver, Clean!Driver,
       CP!X, Clean!X, CP!Val, Clean!Val
<1>1. \A n, c, p, w : CP!MoveReceivers(n, c, p, w) = Clean!MoveReceivers(n, c, p, w)
  BY DEF CP!MoveReceivers, Clean!MoveReceivers, CP!Moved, Clean!Moved, CP!OutBits,
         Clean!OutBits, CP!PortOuts, Clean!PortOuts, CP!Receivers, Clean!Receivers,
         CP!SetDrivers, Clean!SetDrivers
<1>2. \A n, c : CP!DeleteCell(n, c) = Clean!DeleteCell(n, c)
  BY DEF CP!CellIns, Clean!CellIns, CP!CellOuts, Clean!CellOuts, CP!DeleteCell,
         Clean!DeleteCell, CP!InBits, Clean!InBits, CP!OutBits, Clean!OutBits
<1>3. \A n, S : CP!BulkDelete(n, S) = Clean!BulkDelete(n, S)
  BY DEF CP!BulkDelete, Clean!BulkDelete, CP!Cells, Clean!Cells
<1>4. \A c, p : CP!Bus(c, p) = Clean!Bus(c, p)
  BY DEF CP!Bus, Clean!Bus
<1>5. \A n, a, b : CP!Duplicates(n, a, b) = Clean!Duplicates(n, a, b)
  BY DEF CP!Cells, Clean!Cells, CP!Duplicates, Clean!Duplicates, CP!SameDrivers,
         Clean!SameDrivers
<1>6. \A n : CP!Cells(n) = Clean!Cells(n)
  BY DEF CP!Cells, Clean!Cells
<1>7. \A n : CP!Inputs(n) = Clean!Inputs(n)
  BY DEF CP!Cells, Clean!Cells, CP!Inputs, Clean!Inputs
<1>8. \A n, c : CP!CellReceivers(n, c) = Clean!CellReceivers(n, c)
  BY DEF CP!CellReceivers, Clean!CellReceivers, CP!OutReceivers, Clean!OutReceivers
<1>9. \A n, c : CP!CellDrivers(n, c) = Clean!CellDrivers(n, c)
  BY DEF CP!CellDrivers, Clean!CellDrivers, CP!CellIns, Clean!CellIns, CP!InBits, Clean!InBits
<1>10. \A n, c : CP!CellOuts(n, c) = Clean!CellOuts(n, c)
  BY DEF CP!CellOuts, Clean!CellOuts, CP!OutBits, Clean!OutBits
<1>11. \A S, along : CP!Reached(S, along) = Clean!Reached(S, along)
  BY DEF CP!Reached, Clean!Reached
<1>12. \A n : CP!NoReceivers(n) = Clean!NoReceivers(n)
  BY <1>6, <1>8, <1>10 DEF CP!NoReceivers, Clean!NoReceivers
<1>13. \A n : CP!Neighbours(n) = Clean!Neighbours(n)
  BY <1>6, <1>8, <1>9 DEF CP!Neighbours, Clean!Neighbours
<1>14. \A n : CP!Sources(n) = Clean!Sources(n)
  BY <1>6, <1>8 DEF CP!Sources, Clean!Sources
<1>15. \A n : CP!OutputPorts(n) = Clean!OutputPorts(n)
  BY <1>6, <1>7 DEF CP!OfType, Clean!OfType, CP!OutputPorts, Clean!OutputPorts
<1>16. \A n : CP!Isolated(n) = Clean!Isolated(n)
  BY <1>6, <1>11, <1>13 DEF CP!Isolated, Clean!Isolated
<1>17. \A n : CP!ReachingOutputs(n) = Clean!ReachingOutputs(n)
  BY <1>11, <1>14, <1>15 DEF CP!ReachingOutputs, Clean!ReachingOutputs
<1>18. Clean!DeDuplicate => CP!DeDuplicate
  BY <1>1, <1>2, <1>4, <1>5 DEF CP!DeDuplicate, Clean!DeDuplicate, CP!FirstPair, Clean!FirstPair
<1>19. Clean!End => CP!End
  BY DEF CP!End, Clean!End
<1>20. Clean!DeleteUnreceived => CP!DeleteUnreceived
  BY <1>3, <1>12 DEF CP!DeleteUnreceived, Clean!DeleteUnreceived
<1>21. Clean!DeleteIsolated => CP!DeleteIsolated
  BY <1>3, <1>12, <1>16 DEF CP!DeleteIsolated, Clean!DeleteIsolated
<1>22. Clean!DeleteUnreached => CP!DeleteUnreached
  BY <1>3, <1>6, <1>17 DEF CP!DeleteUnreached, Clean!DeleteUnreached
<1>23. Clean!Begin("duplicates") => CP!Begin("duplicates")
  BY <1>6 DEF CP!Begin, Clean!Begin, CP!OfType, Clean!OfType, CP!Work, Clean!Work, CP!Zeros,
         Clean!Zeros
<1>24. ~Clean!Elide /\ ~Clean!MergeZeros
  BY DEF Clean!Elide, Clean!MergeZeros
<1> QED BY <1>18, <1>19, <1>20, <1>21, <1>22, <1>23, <1>24 DEF CP!Turn, Clean!Turn

-----------------------------------------------------------------------------
(* The invariant of specialization, the types.                               *)

\* What is left of definition o, under its simulator, is n: input ports are kept, and no
\* name of a constant that is to replace a cell is taken.
Rewritten(n, o) ==
  /\ Remains(n, o) /\ n.portCells = o.portCells
  /\ \A c \in n.portCells : Tp(n, c) = "PORT"
  /\ \A c \in (Cells(n) \cap Cells(o)) \ n.portCells : \A p \in OutPort : ~NameTaken(n, c, p)

QueuedAreCells == \A s \in combChanges \cup seqChanges : s.cell \in Cells(def)

\* The definition is rewritten between two updates only, when nothing is queued.
RewritesBetweenUpdates ==
  /\ phase \in {"idle", "constructing"} => seqChanges = {}
  /\ stage \notin {"client", "no past value"} => phase = "idle"

Deleting == {"dead", "isolated", "unreached", "dead deleted", "duplicates"}

SpecializeTypeInv ==
  /\ StoreInv /\ orig \in Circuits /\ Rewritten(def, orig)
  /\ specialized \subseteq Inputs(orig)
  /\ QueuedAreCells /\ RewritesBetweenUpdates
  /\ stage \in {"client", "ports", "changed", "folding", "done", "unfolded", "none", "no past value"}
                 \cup Deleting
  /\ frozen \in [CellId -> Val \cup {Fold!NotConst}] /\ CP!Pairs
  /\ stage = "folding" => FP!IInv
  /\ stage \in Deleting => CP!Removing

LEMMA RewrittenFacts ==
  ASSUME Specializable, NEW o \in Circuits, NEW n, Rewritten(n, o)
  PROVE  /\ WellFormed(n) /\ FullyDriven(n) /\ Acyclic(n) /\ n \in Net
         /\ WellFormed(o) /\ FullyDriven(o) /\ Acyclic(o) /\ o \in Net
         /\ Inputs(n) = Inputs(o)
         /\ Registers(n) \subseteq Registers(o)
<1>1. /\ WellFormed(n) /\ FullyDriven(n) /\ Acyclic(n) /\ n \in Net
      /\ \A c \in Cells(n) : IF c \in Cells(o) THEN n.type[c] = o.type[c] ELSE Tp(n, c) = "CONST"
      /\ n.portCells = o.portCells /\ n.portCells \subseteq Cells(n)
  BY DEF Rewritten, Remains, WellFormed, CellsNumbered
<1>2. /\ WellFormed(o) /\ FullyDriven(o) /\ Acyclic(o) /\ o \in Net
      /\ \A c \in Cells(o) : Tp(o, c) = "PORT" => c \in o.portCells
  BY SimulatorAssumption DEF Specializable, WellFormed
<1>3. Registers(n) \subseteq Registers(o)
  BY <1>1 DEF Registers, Tp
<1>4. Inputs(n) \subseteq Inputs(o)
  BY <1>1 DEF Inputs, Tp
<1>5. Inputs(o) \subseteq Inputs(n)
  BY <1>1, <1>2 DEF Inputs, Tp
<1> QED BY <1>1, <1>2, <1>3, <1>4, <1>5

\* Whoever receives an output is a cell.
LEMMA ReceiversAreCells ==
  ASSUME Circuit, NEW c \in CellId
  PROVE  \A s \in SeqReceivers(def, c) \cup CombReceivers(def, c) : s.cell \in Cells(def)
<1>1. WellFormed(def) /\ def \in Net
  BY CircuitFacts
<1>2. ASSUME NEW p \in OutPort, NEW r \in def.receivers[PinOf(c, p)]
      PROVE  r.cell \in Cells(def)
  <2>1. PinOf(c, p) \in Bit
    BY <1>2, SemanticsAssumption DEF PinOf, Bit, OutPort, Offset
  <2>2. r \in InBits(def)
    BY <1>1, <2>1 DEF WellFormed, WiresExistIn
  <2> QED BY <1>1, <2>2, NoCellNoBits DEF Cells
<1> QED BY <1>2 DEF SeqReceivers, CombReceivers, OutReceivers, SigPort

LEMMA SignalQueuesCells ==
  ASSUME Circuit, QueuedAreCells, def' = def, NEW C \in SUBSET CellId, NEW mid, NEW new,
         NEW combs \in SUBSET combChanges, NEW seqs \in SUBSET seqChanges,
         Signal(C, mid, new, combs, seqs)
  PROVE  QueuedAreCells'
<1>1. Changed(mid, new, C) \subseteq CellId
  BY DEF Changed
<1> QED BY <1>1, ReceiversAreCells DEF Signal, QueuedAreCells

\* The steps of the simulator.
LEMMA SimulatorQueuesCells ==
  ASSUME StoreInv, QueuedAreCells, Running \/ Update
  PROVE  QueuedAreCells' /\ UNCHANGED def
<1>1. Circuit /\ {} \in SUBSET combChanges /\ {} \in SUBSET seqChanges
  BY DEF StoreInv
<1>2. CASE Update
  <2>1. Inputs(def) \in SUBSET CellId
    BY DEF Inputs, Cells
  <2> QED BY <1>1, <1>2, <2>1, SignalQueuesCells DEF Update
<1>3. ASSUME NEW e \in Evaluated(def), NEW combs \in SUBSET combChanges, UpdatePort(e, combs), def' = def
      PROVE  QueuedAreCells'
  <2>1. {e} \in SUBSET CellId
    BY <1>1, CircuitFacts
  <2> QED BY <1>1, <1>3, <2>1, SignalQueuesCells DEF UpdatePort
<1>4. CASE CombStep
  <2> DEFINE s == First(combChanges)
  <2>1. CASE s.cell \in Evaluated(def)
    <3>1. UpdatePort(s.cell, combChanges \ {s}) /\ def' = def
      BY <1>4, <2>1 DEF CombStep
    <3> HIDE DEF s
    <3> QED BY <1>3, <2>1, <3>1
  <2>2. CASE s.cell \notin Evaluated(def)
    BY <1>4, <2>2 DEF CombStep, QueuedAreCells
  <2> QED BY <1>4, <2>1, <2>2 DEF CombStep
<1>5. CASE SeqStep
  <2> DEFINE loading == {c \in Registers(def) \cap Clocked : NextReg(c) # reg[c]}
  <2>1. Signal(loading, value, reg', {}, {}) /\ def' = def
    BY <1>5 DEF SeqStep
  <2>2. loading \in SUBSET CellId
    BY DEF Registers, Cells
  <2> HIDE DEF loading
  <2> QED BY <1>1, <2>1, <2>2, SignalQueuesCells
<1>6. CASE RereadStep
  <2>1. PICK m \in reread : UpdatePort(m, combChanges) /\ def' = def
    BY <1>6 DEF RereadStep
  <2>2. m \in Evaluated(def)
    BY <2>1 DEF StoreInv, TypeOK, Memories, Evaluated, Inputs, Registers
  <2> QED BY <1>3, <2>1, <2>2
<1>7. CASE StoreAborts \/ LoopEnd
  BY <1>7 DEF StoreAborts, LoopEnd, QueuedAreCells
<1> QED BY <1>2, <1>4, <1>5, <1>6, <1>7 DEF Running

LEMMA RunningPhase ==
  ASSUME Running \/ Update
  PROVE  /\ phase' \notin {"constructing"}
         /\ phase' = "idle" => seqChanges' = {}
BY DEF Running, Update, CombStep, StoreAborts, SeqStep, RereadStep, LoopEnd

\* A new definition under an idle simulator.
LEMMA RewrittenUnder ==
  ASSUME Specializable, SpecializeTypeInv, phase = "idle", UNCHANGED <<running, orig>>,
         Rewritten(def', orig), Registers(def') \subseteq Registers(def)
  PROVE  StoreInv' /\ QueuedAreCells'
<1>1. WellFormed(def') /\ FullyDriven(def')
  BY DEF Rewritten, Remains
<1>2. combChanges = {} /\ seqChanges = {} /\ reread = {} /\ TypeOK /\ RegistersShown
  BY DEF SpecializeTypeInv, StoreInv, QueuesDrained, RewritesBetweenUpdates
<1> QED BY <1>1, <1>2 DEF StoreInv, Circuit, TypeOK, QueuesDrained, RegistersShown, QueuedAreCells,
             running, store

LEMMA SpecializeInitTyped ==
  ASSUME Specializable, SpecializeInit
  PROVE  SpecializeTypeInv
<1>1. StoreInv /\ def \in Circuits /\ orig = def
  BY InitIInv DEF SpecializeInit, Init, IInv
<1>2. Rewritten(def, orig)
  <2>1. WellFormed(def) /\ FullyDriven(def) /\ Acyclic(def)
    BY <1>1, SimulatorAssumption DEF Specializable
  <2>2. \A c \in Cells(def) : c < def.next
    BY <2>1, NetFields DEF WellFormed, CellsNumbered, Cells, CellId
  <2>3. Remains(def, orig)
    BY <1>1, <2>1, <2>2 DEF Remains
  <2>4. def.portCells \subseteq Cells(def)
    BY <2>1 DEF WellFormed, CellsNumbered
  <2> QED BY <1>1, <2>3, <2>4 DEF Specializable, Rewritten
<1>3. QueuedAreCells
  <2>1. \A c \in Cells(def) : c \in CellId
    BY DEF Cells
  <2> QED BY <1>1, <2>1, ReceiversAreCells DEF StoreInv, SpecializeInit, Init, QueuedAreCells
<1>4. frozen \in [CellId -> Val \cup {Fold!NotConst}] /\ CP!Pairs
  BY DEF SpecializeInit, CP!Pairs
<1> QED BY <1>1, <1>2, <1>3, <1>4 DEF SpecializeTypeInv, SpecializeInit, Init, RewritesBetweenUpdates,
             Deleting

\* A step that leaves the definition and all that rewrites it alone.
LEMMA SimulatorStepTyped ==
  ASSUME SpecializeTypeInv, StoreInv', QueuedAreCells', RewritesBetweenUpdates',
         UNCHANGED <<def, specialized, folding, todo, orig>>,
         stage \in {"client", "ports", "changed"}, stage' \in {stage, "no past value"}
  PROVE  SpecializeTypeInv'
<1>1. CP!Pairs'
  BY DEF SpecializeTypeInv, CP!Pairs
<1>2. stage' \notin Deleting \cup {"folding"}
  BY DEF Deleting
<1> QED BY <1>1, <1>2 DEF SpecializeTypeInv, folding

LEMMA SimulatorTyped ==
  ASSUME SpecializeTypeInv,
         \/ \E c \in CellId, v \in Fresh : CallSetFreshValue(c, v)
         \/ CallUpdate \/ UpdateTurn \/ PastIsMissing
  PROVE  SpecializeTypeInv'
<1>1. StoreInv /\ QueuedAreCells /\ RewritesBetweenUpdates
  BY DEF SpecializeTypeInv
<1>2. CASE \E c \in CellId, v \in Fresh : CallSetFreshValue(c, v)
  <2>1. PICK c \in CellId, v \in Fresh : CallSetFreshValue(c, v)
    BY <1>2
  <2>2. StoreInv'
    BY <1>1, <2>1, SetFreshValueStep DEF CallSetFreshValue, Keeps
  <2>3. UNCHANGED <<def, combChanges, seqChanges, phase, stage>>
    BY <2>1 DEF CallSetFreshValue, SetFreshValue
  <2> QED BY <1>1, <2>1, <2>2, <2>3, SimulatorStepTyped
          DEF CallSetFreshValue, QueuedAreCells, RewritesBetweenUpdates
<1>3. CASE CallUpdate \/ UpdateTurn
  <2>1. Update \/ Running
    BY <1>3 DEF CallUpdate, UpdateTurn
  <2>2. StoreInv' /\ QueuedAreCells' /\ def' = def
    BY <1>1, <2>1, UpdateStep, RunningStep, SimulatorQueuesCells DEF Keeps
  <2>3. stage = "client" /\ stage' = "client" /\ UNCHANGED <<specialized, folding, todo, orig>>
    BY <1>3 DEF CallUpdate, UpdateTurn
  <2>4. RewritesBetweenUpdates'
    BY <2>1, <2>3, RunningPhase DEF RewritesBetweenUpdates
  <2> QED BY <2>2, <2>3, <2>4, SimulatorStepTyped
<1>4. CASE PastIsMissing
  <2>1. /\ UNCHANGED <<def, running, specialized, folding, todo, orig>>
        /\ stage = "client" /\ stage' = "no past value"
    BY <1>4 DEF PastIsMissing
  <2>2. StoreInv'
    BY <1>1, <2>1 DEF StoreInv, Circuit, TypeOK, QueuesDrained, RegistersShown, running, store
  <2> QED BY <1>1, <2>1, <2>2, SimulatorStepTyped DEF QueuedAreCells, RewritesBetweenUpdates, running
<1> QED BY <1>2, <1>3, <1>4

\* An input port in the definition that is being specialized.
LEMMA InputToReplace ==
  ASSUME NEW n, WellFormed(n), NEW c \in Inputs(n)
  PROVE  /\ c \in Cells(n) /\ "OUT" \in OutPort /\ Width(n.type[c], "OUT") = 1
         /\ OnlyOutput(n, c, "OUT")
<1>1. c \in Cells(n) /\ n.type[c] \in Kind /\ n.type[c].tp = "PORT" /\ n.type[c].dir = "in"
  BY NetFields DEF Inputs, WellFormed, Cells, Tp
<1>2. DOMAIN PortWidths(n.type[c]) = {"OUT"}
  BY <1>1, SourcePort
<1>3. PortWidths(n.type[c])["OUT"] = 1 /\ "OUT" \in OutPort
  BY <1>1, <1>2, SemanticsAssumption DEF OutPort, Port
<1>4. Width(n.type[c], "OUT") = 1
  BY <1>1, <1>2, <1>3 DEF Width, Cells
<1>5. OnlyOutput(n, c, "OUT")
  BY <1>1, OneOutput DEF OnlyOutput, Tp
<1> QED BY <1>1, <1>3, <1>4, <1>5

\* A port is replaced by a constant: its receivers are, and no other wire moves.
LEMMA PortReplaced ==
  ASSUME Specializable, NEW o \in Circuits, NEW n, Rewritten(n, o), NEW c \in Inputs(n),
         n.next <= MaxId, NEW v \in Val
  PROVE  LET d == ReplaceWithConstant(n, c, "OUT", Fold!Const(v))
         IN  /\ Constantly(d, n, c, "OUT", Fold!Const(v))
             /\ Rewritten(d, o)
             /\ \A x \in Cells(d) \cap Cells(o) : x \in Cells(n) /\ d.type[x] = n.type[x]
<1> DEFINE d == ReplaceWithConstant(n, c, "OUT", Fold!Const(v))
<1>1. WellFormed(n) /\ FullyDriven(n) /\ Acyclic(n) /\ o \in Net /\ n \in Net /\ n.next \in Nat
  BY RewrittenFacts, NetFields
<1>2. Fold!Const(v) \in Kind /\ Fold!Const(v).tp = "CONST" /\ Fold!Const(v).width = 1
  BY DEF Specializable, Fold!Const
<1>3. Constantly(d, n, c, "OUT", Fold!Const(v))
  BY <1>1, <1>2, InputToReplace, ReplacingHandsOver
<1> HIDE DEF d
<1>4. /\ HandedTo(n, c, d, n.next) /\ Tp(d, n.next) = "CONST" /\ n.next < d.next
      /\ Replaced(d, n, c, "OUT") /\ d \in Net /\ d.next \in Nat
  BY <1>2, <1>3, NetFields DEF Constantly, HandedTo, WellFormed, Tp
<1>5. Acyclic(d)
  <2>1. n.next \notin Evaluated(d)
    BY <1>4 DEF Evaluated
  <2> QED BY <1>1, <1>4, <2>1, HandingStaysAcyclic
<1>6. c \in Cells(n) /\ Remains(n, o) /\ n.next <= d.next
  BY <1>1, <1>4, InputToReplace DEF Rewritten
<1>7. Remains(d, o) /\ \A x \in Cells(d) \cap Cells(o) : x \in Cells(n) /\ d.type[x] = n.type[x]
  BY <1>1, <1>4, <1>5, <1>6, HandingRemains
<1>8. d.portCells = n.portCells /\ c \in o.portCells
  <2>1. Tp(o, c) = "PORT" /\ c \in Cells(o)
    BY RewrittenFacts DEF Inputs
  <2> QED BY <1>4, <2>1 DEF HandedTo, Specializable
<1>9. \A x \in n.portCells : Tp(d, x) = "PORT"
  <2>1. \A x \in n.portCells : x \in Cells(n) /\ Tp(n, x) = "PORT"
    BY <1>1 DEF Rewritten, WellFormed, CellsNumbered
  <2>2. \A x \in Cells(n) : d.type[x] = n.type[x]
    BY <1>3, <1>4 DEF HandedTo, Constantly
  <2> QED BY <2>1, <2>2 DEF Tp
<1>10. \A x \in (Cells(d) \cap Cells(o)) \ d.portCells : \A p \in OutPort : ~NameTaken(d, x, p)
  BY <1>4, <1>7, <1>8 DEF Rewritten, NameTaken, Replaced
<1> QED BY <1>3, <1>7, <1>8, <1>9, <1>10 DEF Rewritten, d

LEMMA SpecializePortTyped ==
  ASSUME Specializable, SpecializeTypeInv, NEW c \in Inputs(def), NEW v \in Fresh \cup {value[c]},
         SpecializePort(c, v)
  PROVE  SpecializeTypeInv'
<1>1. /\ orig \in Circuits /\ Rewritten(def, orig) /\ phase = "idle" /\ def.next <= MaxId
      /\ def' = ReplaceWithConstant(def, c, "OUT", Fold!Const(v))
      /\ UNCHANGED <<running, folding, todo, orig>>
      /\ specialized' = specialized \cup {c} /\ stage' \in {"ports", "changed"}
  BY DEF SpecializePort, SpecializeTypeInv
<1>2. v \in Val /\ c \in Inputs(orig)
  <2>1. c \in CellId /\ value \in [CellId -> Val] /\ Fresh \subseteq Val
    BY SimulatorAssumption DEF Inputs, Cells, SpecializeTypeInv, StoreInv, TypeOK
  <2> QED BY <1>1, <2>1, RewrittenFacts
<1>3. /\ Rewritten(def', orig)
      /\ \A x \in Cells(def') \cap Cells(orig) : x \in Cells(def) /\ def'.type[x] = def.type[x]
  BY <1>1, <1>2, PortReplaced
<1>4. Registers(def') \subseteq Registers(def)
  BY <1>1, <1>3, RewrittenFacts DEF Registers, Tp
<1>5. StoreInv' /\ QueuedAreCells'
  BY <1>1, <1>3, <1>4, RewrittenUnder
<1>6. RewritesBetweenUpdates' /\ CP!Pairs'
  BY <1>1 DEF SpecializeTypeInv, RewritesBetweenUpdates, CP!Pairs, running
<1>7. stage' \notin Deleting \cup {"folding"}
  BY <1>1 DEF Deleting
<1> QED BY <1>1, <1>2, <1>3, <1>5, <1>6, <1>7 DEF SpecializeTypeInv, folding

-----------------------------------------------------------------------------
\* What foldConstants is called with.
LEMMA BeginFoldingTyped ==
  ASSUME Specializable, SpecializeTypeInv, BeginFolding
  PROVE  SpecializeTypeInv'
<1>1. /\ UNCHANGED <<def, running, specialized, frozen, todo, orig>>
      /\ stage' = "folding" /\ phase = "idle"
      /\ regs' = [c \in Registers(def) |-> reg[c]]
      /\ candidates' = {c \in Cells(def) : Fold!ReadsConstant(def, c)}
  BY DEF BeginFolding
<1>2. FP!IInv'
  <2>1. WellFormed(def) /\ frozen \in [CellId -> Val \cup {Fold!NotConst}] /\ reg \in [CellId -> Val]
    BY DEF SpecializeTypeInv, StoreInv, Circuit, TypeOK
  <2>2. \A c \in candidates' : c \in Cells(def) /\ CellIns(def, c) # {}
    <3>1. \A c : Fold!CellIns(def, c) = CellIns(def, c)
      BY DEF Fold!CellIns, CellIns, Fold!InBits, InBits, Fold!Bit, Bit, Fold!InPort, InPort, Fold!Port, Port,
             Fold!PortWidths, PortWidths, Fold!CellId, CellId, Fold!Offset, Offset, Fold!Width, Width,
             Fold!NoType, NoType, Fold!Comparator, Comparator, Fold!Binop, Binop, Fold!ReduceOp, ReduceOp,
             Fold!Unop, Unop
    <3> QED BY <1>1, <3>1 DEF Fold!ReadsConstant
  <2>3. \A c \in Registers(def) : regs'[c] \in Val
    BY <1>1, <2>1 DEF Registers, Cells
  <2> QED BY <1>1, <2>1, <2>2, <2>3, FoldingOperators
          DEF FP!IInv, FP!CellId, CellId, FP!Val, Val, FP!X, X, FP!NotConst, Fold!NotConst
<1>3. StoreInv' /\ QueuedAreCells'
  BY <1>1, RewrittenUnder DEF SpecializeTypeInv
<1>4. RewritesBetweenUpdates' /\ CP!Pairs'
  BY <1>1 DEF SpecializeTypeInv, RewritesBetweenUpdates, CP!Pairs, running
<1>5. stage' \notin Deleting
  BY <1>1 DEF Deleting
<1> QED BY <1>1, <1>2, <1>3, <1>4, <1>5 DEF SpecializeTypeInv

LEMMA FoldingPorts == FP!OutPort = OutPort
BY DEF FP!OutPort, OutPort, FP!Port, Port, FP!PortWidths, PortWidths, FP!Comparator, Comparator,
       FP!Binop, Binop, FP!ReduceOp, ReduceOp, FP!Unop, Unop

\* A turn of foldConstants.
LEMMA FoldTurnFacts ==
  ASSUME Specializable, SpecializeTypeInv, FoldTurn
  PROVE  /\ UNCHANGED <<running, specialized, todo, twin, orig>>
         /\ stage = "folding" /\ stage' \in {"folding", "done", "unfolded"} /\ phase = "idle"
         /\ FP!IInv /\ FP!IInv' /\ Rewritten(def', orig)
         /\ FP!FoldsOne \/ FP!FoldsMemory
<1> USE FoldingAssumptions
<1>1. Fold!Next /\ UNCHANGED <<running, specialized, todo, twin>>
  BY DEF FoldTurn
<1>2. FP!Next
  BY <1>1, FoldingTurns
<1>3. stage = "folding"
  BY <1>1 DEF Fold!Next, Fold!Turn, Fold!Finish
<1>4. /\ FP!IInv /\ orig \in Circuits /\ Rewritten(def, orig) /\ phase = "idle"
  BY <1>3 DEF SpecializeTypeInv, RewritesBetweenUpdates
<1>5. FP!TurnFacts
  <2>1. WellFormed(orig) /\ FullyDriven(orig)
    BY <1>4, SimulatorAssumption
  <2>2. FP!Structure(def, orig)
    BY <1>4, FoldingPorts, FoldingOperators DEF Rewritten, FP!Structure
  <2> QED BY <1>4, <2>1, <2>2, FoldingOperators DEF FP!TurnFacts
<1>6. /\ FP!Structure(def', orig) /\ UNCHANGED <<regs, orig>>
      /\ stage' \in {"folding", "done", "unfolded"} /\ (FP!FoldsOne \/ FP!FoldsMemory)
  BY <1>2, <1>5, Specializable, FP!TurnFolds
<1>7. FP!IInv'
  BY <1>2, <1>4, FP!NextIInv
<1>8. def'.portCells = def.portCells
  <2>1. \A c, e : FP!FoldedInto(def, c, def', e) => def'.portCells = def.portCells
    BY FoldingOperators DEF FoldedInto, HandedTo
  <2> QED BY <1>6, <2>1 DEF FP!FoldsOne, FP!FoldsMemory, FP!Folded
<1>9. Rewritten(def', orig)
  BY <1>4, <1>6, <1>8, FoldingPorts, FoldingOperators DEF Rewritten, FP!Structure
<1> QED BY <1>1, <1>3, <1>4, <1>6, <1>7, <1>9

LEMMA FoldTurnTyped ==
  ASSUME Specializable, SpecializeTypeInv, FoldTurn
  PROVE  SpecializeTypeInv'
<1>1. /\ UNCHANGED <<running, specialized, todo, orig>>
      /\ stage = "folding" /\ stage' \in {"folding", "done", "unfolded"} /\ phase = "idle"
      /\ FP!IInv' /\ Rewritten(def', orig) /\ (FP!FoldsOne \/ FP!FoldsMemory)
  BY FoldTurnFacts
<1>2. Registers(def') \subseteq Registers(def)
  <2>1. ASSUME NEW c, NEW e, FP!FoldedInto(def, c, def', e)
        PROVE  Registers(def') \subseteq Registers(def)
    BY <2>1, FoldingOperators DEF FoldedInto, HandedTo, Registers, Tp
  <2> QED BY <1>1, <2>1 DEF FP!FoldsOne, FP!FoldsMemory, FP!Folded
<1>3. StoreInv' /\ QueuedAreCells'
  BY <1>1, <1>2, RewrittenUnder
<1>4. RewritesBetweenUpdates' /\ CP!Pairs'
  BY <1>1 DEF SpecializeTypeInv, RewritesBetweenUpdates, CP!Pairs, running
<1>5. frozen' \in [CellId -> Val \cup {Fold!NotConst}]
  BY <1>1 DEF FP!IInv, FP!CellId, CellId, FP!Val, Val, FP!X, X, FP!NotConst, Fold!NotConst
<1>6. stage' \notin Deleting
  BY <1>1 DEF Deleting
<1> QED BY <1>1, <1>3, <1>4, <1>5, <1>6 DEF SpecializeTypeInv

\* deleteDeadInstances, and then deDuplicate.
LEMMA BeginDeletingTyped ==
  ASSUME Specializable, SpecializeTypeInv, BeginDeleting
  PROVE  SpecializeTypeInv'
<1>1. /\ UNCHANGED <<def, running, specialized, folding, todo, orig>>
      /\ stage = "done" /\ stage' = "dead" /\ phase = "idle"
  BY DEF BeginDeleting, SpecializeTypeInv, RewritesBetweenUpdates
<1>2. CP!Removing'
  <2>1. /\ WellFormed(def) /\ FullyDriven(def) /\ Acyclic(def)
        /\ \A c \in def.portCells : Tp(def, c) = "PORT"
    BY DEF SpecializeTypeInv, Rewritten, Remains
  <2>2. CP!Wired(def)
    BY <2>1, RemovalOperators DEF CP!Wired, CP!PortsAreMarked
  <2> QED BY <1>1, <2>2 DEF CP!Removing, SpecializeTypeInv, CP!Pairs
<1>3. StoreInv' /\ QueuedAreCells'
  BY <1>1, RewrittenUnder DEF SpecializeTypeInv
<1>4. RewritesBetweenUpdates' /\ CP!Pairs'
  BY <1>1 DEF SpecializeTypeInv, RewritesBetweenUpdates, CP!Pairs, running
<1> QED BY <1>1, <1>2, <1>3, <1>4 DEF SpecializeTypeInv, folding, Deleting

\* What is left after a turn of a removal.
Dropped(n, d) ==
  \E S \in SUBSET (Cells(n) \ n.portCells) :
    /\ d.type = [c \in CellId |-> IF c \in S THEN NoType ELSE n.type[c]]
    /\ d.portCells = n.portCells
    /\ \A b \in InBits(n) : b.cell \notin S => d.drivers[b] = n.drivers[b] /\ n.drivers[b].cell \notin S

Merged(n, d) ==
  \E a \in Evaluated(n), b \in Evaluated(n) :
    /\ a # b /\ FoldedInto(n, b, d, a) /\ Reads(Tp(n, a)) = Reads(Tp(n, b))
    /\ \A p \in Reads(Tp(n, a)) : Driver(n, a, p) = Driver(n, b, p)
    /\ \A v, m : Eval(n, v, m, a) = Eval(n, v, m, b)

\* A turn leaves a part of a definition, and what is left of the cells is as it was.
LEMMA RemovalLeaves ==
  ASSUME NEW n, NEW d, CP!Wired(n), CP!Removes(n, d)
  PROVE  /\ d = n \/ Dropped(n, d) \/ Merged(n, d)
         /\ Cells(d) \subseteq Cells(n) /\ \A c \in Cells(d) : d.type[c] = n.type[c]
         /\ d.portCells = n.portCells
<1> USE RemovalAssumptions
<1>1. CASE d = n
  BY <1>1
<1>2. CASE CP!Drops(n, d)
  <2>1. Dropped(n, d)
    BY <1>2, RemovalOperators DEF CP!Drops, CP!Without, Dropped, CP!CellId, CellId, CP!NoType, NoType
  <2> QED BY <2>1 DEF Dropped, Cells
<1>3. CASE CP!Merges(n, d)
  <2>1. PICK a, b : a # b /\ CP!Duplicates(n, a, b) /\ CP!FoldedInto(n, b, d, a)
    BY <1>3 DEF CP!Merges
  <2>2. /\ a \in Cells(n) /\ b \in Cells(n)
        /\ a \in Evaluated(n) /\ b \in Evaluated(n)
        /\ Reads(Tp(n, a)) = Reads(Tp(n, b))
        /\ \A p \in Reads(Tp(n, a)) : Driver(n, a, p) = Driver(n, b, p)
        /\ \A v, m : Eval(n, v, m, a) = Eval(n, v, m, b)
    BY <2>1, CP!DuplicatesCompute, RemovalOperators
  <2>3. FoldedInto(n, b, d, a)
    BY <2>1, RemovalOperators
  <2> QED BY <2>1, <2>2, <2>3 DEF Merged, FoldedInto, HandedTo
<1> QED BY <1>1, <1>2, <1>3 DEF CP!Removes

LEMMA RemovalRewrites ==
  ASSUME NEW o, NEW n, Rewritten(n, o), NEW d, CP!Wired(n), CP!Removes(n, d)
  PROVE  Rewritten(d, o) /\ Registers(d) \subseteq Registers(n)
<1>1. /\ Cells(d) \subseteq Cells(n) /\ \A c \in Cells(d) : d.type[c] = n.type[c]
      /\ d.portCells = n.portCells
  BY RemovalLeaves
<1>2. /\ WellFormed(d) /\ FullyDriven(d) /\ Acyclic(d) /\ d.next = n.next /\ d.constNames = n.constNames
      /\ \A c \in d.portCells : Tp(d, c) = "PORT"
  BY RemovalOperators DEF CP!Removes, CP!Wired, CP!PortsAreMarked
<1>3. Remains(d, o)
  BY <1>1, <1>2 DEF Rewritten, Remains, Tp
<1>4. Registers(d) \subseteq Registers(n)
  BY <1>1 DEF Registers, Tp
<1> QED BY <1>1, <1>2, <1>3, <1>4 DEF Rewritten, NameTaken

LEMMA CleanTurnFacts ==
  ASSUME Specializable, SpecializeTypeInv, CleanTurn
  PROVE  /\ UNCHANGED <<running, specialized, folding, twin, orig>>
         /\ stage \in Deleting /\ stage' \in Deleting \cup {"none"} /\ phase = "idle"
         /\ CP!Wired(def) /\ CP!Removes(def, def') /\ CP!Pairs'
         /\ stage' \in Deleting => CP!Removing'
<1> USE RemovalAssumptions
<1>1. /\ UNCHANGED <<running, specialized, folding, twin>>
      /\ Clean!Turn \/ (stage = "dead deleted" /\ Clean!Begin("duplicates"))
  BY DEF CleanTurn
<1>2. stage \in Deleting
  BY <1>1 DEF Clean!Turn, Clean!Elide, Clean!MergeZeros, Clean!DeDuplicate, Clean!End,
     Clean!DeleteUnreceived, Clean!DeleteIsolated, Clean!DeleteUnreached, SpecializeTypeInv, Deleting
<1>3. CP!Removing /\ phase = "idle"
  BY <1>2 DEF SpecializeTypeInv, RewritesBetweenUpdates, Deleting
<1>4. CP!Turn \/ (stage = "dead deleted" /\ CP!Begin("duplicates"))
  BY <1>1, <1>2, RemovalTurns DEF Deleting
<1>5. /\ CP!Removes(def, def') /\ UNCHANGED orig /\ CP!Pairs'
      /\ stage' # "none" => CP!Removing'
      /\ stage' \in {"dead", "isolated", "unreached", "dead deleted", "duplicates", "none"}
  BY <1>3, <1>4, CP!TurnRemoves
<1> QED BY <1>1, <1>2, <1>3, <1>5 DEF Deleting, CP!Removing

LEMMA CleanTurnTyped ==
  ASSUME Specializable, SpecializeTypeInv, CleanTurn
  PROVE  SpecializeTypeInv'
<1>1. /\ UNCHANGED <<running, specialized, folding, orig>> /\ CP!Wired(def) /\ CP!Removes(def, def')
      /\ stage' \in Deleting \cup {"none"} /\ phase = "idle" /\ CP!Pairs'
      /\ stage' \in Deleting => CP!Removing'
  BY CleanTurnFacts
<1>2. Rewritten(def', orig) /\ Registers(def') \subseteq Registers(def)
  BY <1>1, RemovalRewrites DEF SpecializeTypeInv
<1>3. StoreInv' /\ QueuedAreCells'
  BY <1>1, <1>2, RewrittenUnder
<1>4. RewritesBetweenUpdates'
  BY <1>1 DEF SpecializeTypeInv, RewritesBetweenUpdates, running
<1>5. stage' # "folding"
  BY <1>1 DEF Deleting
<1> QED BY <1>1, <1>2, <1>3, <1>4, <1>5 DEF SpecializeTypeInv, folding

\* refreshConstants: what it queues are receivers of constants.
LEMMA RefreshConstantsTyped ==
  ASSUME Specializable, SpecializeTypeInv, RefreshConstants
  PROVE  SpecializeTypeInv'
<1>1. /\ StoreInv /\ Circuit /\ TypeOK /\ phase = "idle" /\ reread = {} /\ seqChanges = {}
      /\ \A c \in CellId : InitialValue(def, c) \in Val
  <2>1. StoreInv /\ Circuit /\ TypeOK /\ phase = "idle" /\ reread = {} /\ seqChanges = {}
    BY DEF RefreshConstants, SpecializeTypeInv, StoreInv, QueuesDrained, RewritesBetweenUpdates
  <2> QED BY <2>1, CircuitFacts, InitialVal
<1>2. /\ UNCHANGED <<def, reg, mem, seqChanges, userInputs, reread, specialized, folding, todo, orig>>
      /\ stage' = "client" /\ phase' = "constructing"
      /\ value' = [c \in CellId |-> IF c \in Constants THEN InitialValue(def, c) ELSE value[c]]
      /\ past'  = [c \in CellId |-> IF c \in Constants /\ SeqReceivers(def, c) # {}
                                    THEN InitialValue(def, c) ELSE past[c]]
      /\ combChanges' = UNION {SeqReceivers(def, c) \cup CombReceivers(def, c) : c \in Constants}
  BY DEF RefreshConstants
<1>3. Constants \subseteq CellId
  BY DEF Constants, Cells
<1>4. TypeOK'
  <2>1. value' \in [CellId -> Val] /\ past' \in [CellId -> Past]
    BY <1>1, <1>2 DEF TypeOK, Past
  <2>2. combChanges' \subseteq [cell : CellId, port : InPort]
    BY <1>1, <1>2, <1>3, CircuitFacts, ReceiversAreInputs
  <2> QED BY <1>1, <1>2, <2>1, <2>2 DEF TypeOK, Phase
<1>5. RegistersShown'
  BY <1>1, <1>2 DEF StoreInv, RegistersShown, Registers, Constants, Cells
<1>6. QueuedAreCells'
  BY <1>1, <1>2, <1>3, ReceiversAreCells DEF QueuedAreCells
<1>7. StoreInv' /\ RewritesBetweenUpdates'
  BY <1>1, <1>2, <1>4, <1>5 DEF StoreInv, Circuit, QueuesDrained, RewritesBetweenUpdates
<1>8. CP!Pairs' /\ stage' \notin Deleting \cup {"folding"}
  BY <1>2 DEF SpecializeTypeInv, CP!Pairs, Deleting
<1> QED BY <1>2, <1>6, <1>7, <1>8 DEF SpecializeTypeInv, folding

LEMMA SpecializeNextTyped ==
  ASSUME Specializable, SpecializeTypeInv, [SpecializeNext]_allVars
  PROVE  SpecializeTypeInv'
<1>1. CASE UNCHANGED allVars
  <2>1. UNCHANGED <<def, running, specialized, stage, folding, todo, orig>>
    BY <1>1 DEF allVars
  <2>2. StoreInv' /\ QueuedAreCells' /\ RewritesBetweenUpdates' /\ CP!Pairs'
    BY <2>1 DEF SpecializeTypeInv, StoreInv, Circuit, TypeOK, QueuesDrained, RegistersShown,
       QueuedAreCells, RewritesBetweenUpdates, CP!Pairs, running, store
  <2>3. (stage = "folding" => FP!IInv') /\ (stage \in Deleting => CP!Removing')
    BY <2>1 DEF SpecializeTypeInv, FP!IInv, CP!Removing, CP!Pairs, folding
  <2> QED BY <2>1, <2>2, <2>3 DEF SpecializeTypeInv, folding
<1>2. CASE SpecializeNext
  BY <1>2, SimulatorTyped, SpecializePortTyped, BeginFoldingTyped, FoldTurnTyped, BeginDeletingTyped,
     CleanTurnTyped, RefreshConstantsTyped DEF SpecializeNext, Specializing
<1> QED BY <1>1, <1>2

THEOREM SpecializeTypesHold ==
  ASSUME Specializable
  PROVE  SpecializeSpec => []SpecializeTypeInv
BY SpecializeInitTyped, SpecializeNextTyped, PTL DEF SpecializeSpec

\* The store and the definition keep their types while the one is rewritten under the
\* other, and nothing in a queue of the simulator names a cell that is gone.
THEOREM SpecializeTypeCorrect ==
  ASSUME Specializable
  PROVE  SpecializeSpec => []SpecializeTypeOK
<1>1. SpecializeTypeInv => SpecializeTypeOK
  BY DEF SpecializeTypeInv, StoreInv, QueuedAreCells, SpecializeTypeOK
<1> QED BY <1>1, SpecializeTypesHold, PTL

-----------------------------------------------------------------------------
(* The assertions of foldConstants and of deleteDeadInstances.               *)

LEMMA SameCandidates == \A n, c : FP!ReadsConstant(n, c) = Fold!ReadsConstant(n, c)
BY DEF FP!ReadsConstant, Fold!ReadsConstant, FP!MaterializeConstPort, Fold!MaterializeConstPort,
       FP!NotConst, Fold!NotConst, FP!Driver, Fold!Driver, FP!PinOf, Fold!PinOf, FP!Tp, Fold!Tp,
       FP!CellIns, Fold!CellIns, FP!InBits, Fold!InBits, FP!Bit, Fold!Bit, FP!InPort, Fold!InPort,
       FP!Port, Fold!Port, FP!PortWidths, Fold!PortWidths, FP!CellId, Fold!CellId, FP!Offset, Fold!Offset,
       FP!Width, Fold!Width, FP!NoType, Fold!NoType, FP!Comparator, Fold!Comparator,
       FP!Binop, Fold!Binop, FP!ReduceOp, Fold!ReduceOp, FP!Unop, Fold!Unop

FoldingLosesNone == stage # "unfolded" /\ (stage = "folding" => FP!FullInv)

LEMMA NextLosesNone ==
  ASSUME Specializable, Memoryless, SpecializeTypeInv, FoldingLosesNone,
         [SpecializeNext]_allVars
  PROVE  FoldingLosesNone'
<1> USE FoldingAssumptions
<1>1. CASE UNCHANGED allVars
  <2>1. UNCHANGED <<def, stage, regs, candidates, frozen>>
    BY <1>1 DEF allVars, folding
  <2> QED BY <2>1 DEF FoldingLosesNone, FP!FullInv, FP!IInv, FP!PortsArePortCells, FP!NoLostCandidate,
             FP!ClosingCheckPasses
<1>2. CASE FoldTurn
  <2>1. stage = "folding" /\ stage' \in {"folding", "done", "unfolded"} /\ FP!FullInv /\ FP!Next
    BY <1>2, FoldTurnFacts, FoldingTurns DEF FoldTurn, FoldingLosesNone
  <2>2. FP!Memoryless
    BY DEF Memoryless, FP!Memoryless
  <2>3. FP!FullInv'
    BY <2>1, <2>2, FP!NextFullInv
  <2> QED BY <2>3 DEF FoldingLosesNone, FP!FullInv, FP!ClosingCheckPasses
<1>3. CASE BeginFolding
  <2>1. /\ FP!IInv' /\ stage' = "folding" /\ def' = def
        /\ candidates' = {c \in Cells(def) : Fold!ReadsConstant(def, c)}
    BY <1>3, BeginFoldingTyped DEF BeginFolding, SpecializeTypeInv
  <2>2. FP!PortsArePortCells'
    <3>1. \A c \in Cells(def) : Tp(def, c) = "PORT" => c \in def.portCells
      BY RewrittenFacts DEF SpecializeTypeInv, Rewritten, Remains, Tp, Specializable
    <3> QED BY <2>1, <3>1, FoldingOperators DEF FP!PortsArePortCells
  <2>3. FP!NoLostCandidate'
    BY <2>1, SameCandidates, FoldingOperators DEF FP!NoLostCandidate
  <2> QED BY <2>1, <2>2, <2>3 DEF FoldingLosesNone, FP!FullInv, FP!ClosingCheckPasses
<1>4. CASE CleanTurn
  BY <1>4, CleanTurnFacts DEF FoldingLosesNone, Deleting
<1>5. CASE BeginDeleting \/ RefreshConstants \/ PastIsMissing
            \/ \E c \in Inputs(def) : \E v \in Fresh \cup {value[c]} : SpecializePort(c, v)
  BY <1>5 DEF BeginDeleting, RefreshConstants, PastIsMissing, SpecializePort, FoldingLosesNone
<1>6. CASE CallUpdate \/ UpdateTurn \/ \E c \in CellId, v \in Fresh : CallSetFreshValue(c, v)
  BY <1>6 DEF CallUpdate, UpdateTurn, CallSetFreshValue, FoldingLosesNone
<1> QED BY <1>1, <1>2, <1>3, <1>4, <1>5, <1>6 DEF SpecializeNext, Specializing

-----------------------------------------------------------------------------
(* The clocks and resets of what is left of a definition whose clocks and    *)
(* resets are ports: its ports that are not specialized, and constants.      *)

\* Whatever clocks a cell of n clocked it in o, or is the constant that o's clock, a port
\* that is held at its value in held, was replaced by.
ClockedAlike(n, o, held, is) ==
  \A b \in ClockBits(n) :
    LET c == o.drivers[b].cell
        d == n.drivers[b].cell
    IN  /\ c \in Inputs(o)
        /\ IF c \in held THEN d \in Cells(n) \ Cells(o) /\ InitialValue(n, d) = is[c] ELSE d = c

PastsKept == \A c \in CellId : SeqReceivers(orig, c) # {} => past[c] \in Val
ConstantsPast ==
  stage = "client" => \A c \in Constants : SeqReceivers(def, c) # {} => past[c] = InitialValue(def, c)

ClocksInv ==
  /\ ins \in [Inputs(orig) -> Val]
  /\ ClockedAlike(def, orig, specialized, ins)
  /\ PastsKept /\ ConstantsPast /\ EventsAreTransient
  /\ stage # "no past value" /\ phase # "lost event"

\* What is received at a clock or reset is a clock bit.
LEMMA ClocksDrive ==
  ASSUME NEW n, WellFormed(n), NEW c \in CellId, SeqReceivers(n, c) # {}
  PROVE  \E b \in ClockBits(n) : n.drivers[b].cell = c
<1>0. PICK p \in OutPort : \E r \in n.receivers[PinOf(c, p)] : r.port \in {"CLK", "ARST"}
  BY DEF SeqReceivers, OutReceivers
<1>1. PICK b \in n.receivers[PinOf(c, p)] : b.port \in {"CLK", "ARST"}
  BY <1>0
<1>2. PinOf(c, p) \in Bit
  BY SemanticsAssumption DEF PinOf, Bit, OutPort, Offset
<1>3. b \in InBits(n) /\ b \in Bit
  BY <1>1, <1>2 DEF WellFormed, WiresExistIn, InBits
<1>4. n.drivers[b] = PinOf(c, p)
  BY <1>1, <1>2, <1>3 DEF WellFormed, EndsAgreeIn
<1> QED BY <1>1, <1>3, <1>4 DEF ClockBits, PinOf

LEMMA ClockIsDriven ==
  ASSUME NEW n, WellFormed(n), FullyDriven(n), NEW b \in ClockBits(n)
  PROVE  LET d == n.drivers[b].cell
         IN  d \in Cells(n) /\ SeqReceivers(n, d) # {} /\ SigPort(b) \in SeqReceivers(n, d)
<1>1. b \in InBits(n) /\ b.port \in {"CLK", "ARST"}
  BY DEF ClockBits
<1>2. n.drivers[b].cell \in Cells(n) /\ b \in OutReceivers(n, n.drivers[b].cell)
  BY <1>1, InputIsReceived
<1> QED BY <1>1, <1>2 DEF SeqReceivers

\* In the original only ports clock; a bit that is left is one of the original.
LEMMA KeptBits ==
  ASSUME Specializable, NEW o \in Circuits, NEW n, Rewritten(n, o), NEW b \in InBits(n)
  PROVE  b \in InBits(o) /\ b.cell \in Cells(n) \cap Cells(o) /\ n.type[b.cell] = o.type[b.cell]
<1>1. WellFormed(n) /\ n \in Net /\ b \in Bit /\ b.cell \in Cells(n)
  BY RewrittenFacts, NoCellNoBits DEF Cells, InBits
<1>2. b \in CellIns(n, b.cell) /\ b.cell \in CellId
  BY <1>1 DEF CellIns, Cells
<1>3. Tp(n, b.cell) # "CONST"
  BY <1>1, <1>2, ReadingCell
<1>4. b.cell \in Cells(o) /\ n.type[b.cell] = o.type[b.cell]
  BY <1>1, <1>3 DEF Rewritten, Remains
<1> QED BY <1>1, <1>4 DEF InBits

LEMMA OriginalClocks ==
  ASSUME NEW o \in Circuits, ClocksArePorts(o), NEW b \in ClockBits(o)
  PROVE  o.drivers[b].cell \in Inputs(o)
BY SimulatorAssumption, ClockIsDriven DEF ClocksArePorts

\* Neither a combinational cell nor a register of what is left clocks another.
LEMMA ClockedAlikeIsQuiet ==
  ASSUME Specializable, SpecializeTypeInv, ClockedAlike(def, orig, specialized, ins)
  PROVE  /\ Quiet
         /\ \A c \in CellId : SeqReceivers(def, c) # {} =>
              \/ c \in Inputs(def) /\ SeqReceivers(orig, c) # {}
              \/ c \in Constants /\ c \notin Cells(orig)
<1>1. /\ Rewritten(def, orig) /\ orig \in Circuits /\ WellFormed(def) /\ FullyDriven(def)
      /\ WellFormed(orig) /\ FullyDriven(orig) /\ Inputs(def) = Inputs(orig)
  BY RewrittenFacts DEF SpecializeTypeInv
<1>2. ASSUME NEW c \in CellId, SeqReceivers(def, c) # {}
      PROVE  \/ c \in Inputs(def) /\ SeqReceivers(orig, c) # {}
             \/ c \in Constants /\ c \notin Cells(orig)
  <2>1. PICK b \in ClockBits(def) : def.drivers[b].cell = c
    BY <1>1, <1>2, ClocksDrive
  <2>2. b \in ClockBits(orig) /\ c \in Cells(def)
    BY <1>1, <2>1, KeptBits, ClockIsDriven DEF ClockBits
  <2>3. CASE orig.drivers[b].cell \in specialized
    <3>1. c \in Cells(def) \ Cells(orig)
      BY <2>1, <2>3 DEF ClockedAlike
    <3> QED BY <1>1, <3>1 DEF Rewritten, Remains, Constants
  <2>4. CASE orig.drivers[b].cell \notin specialized
    <3>1. c = orig.drivers[b].cell /\ c \in Inputs(orig)
      BY <2>1, <2>4 DEF ClockedAlike
    <3> QED BY <1>1, <2>2, <3>1, ClockIsDriven
  <2> QED BY <2>3, <2>4
<1>3. Quiet
  BY <1>2 DEF Quiet, Evaluated, Registers, Inputs, Constants, Tp, Cells
<1> QED BY <1>2, <1>3

\* So whatever clocks something has a past value.
LEMMA PastFound ==
  ASSUME Specializable, SpecializeTypeInv, ClocksInv, stage = "client"
  PROVE  PastIsFound
<1>1. \A c \in CellId : SeqReceivers(def, c) # {} => past[c] \in Val
  <2>1. \A c \in Constants : c \in CellId /\ InitialValue(def, c) \in Val
    BY RewrittenFacts, InitialVal DEF Constants, Cells, SpecializeTypeInv
  <2> QED BY <2>1, ClockedAlikeIsQuiet DEF ClocksInv, PastsKept, ConstantsPast
<1>2. \A c \in PastLookedUp : c \in CellId /\ SeqReceivers(def, c) # {}
  <2>1. Signalled \subseteq CellId
    <3>1. Cells(def) \subseteq CellId /\ reread \subseteq Memories(def)
      BY DEF Cells, SpecializeTypeInv, StoreInv, TypeOK
    <3> QED BY <3>1 DEF Signalled, Inputs, Evaluated, Registers, Memories
  <2>2. \A b \in ClockBits(def) : LET d == def.drivers[b].cell IN d \in CellId /\ SeqReceivers(def, d) # {}
    <3>1. WellFormed(def) /\ FullyDriven(def) /\ Cells(def) \subseteq CellId
      BY DEF Cells, SpecializeTypeInv, StoreInv, Circuit
    <3> QED BY <3>1, ClockIsDriven
  <2> QED BY <2>1, <2>2 DEF PastLookedUp
<1>3. NoPast \notin Val
  BY DEF NoPast, Val
<1> QED BY <1>1, <1>2, <1>3 DEF PastIsFound

-----------------------------------------------------------------------------
\* The receivers of a cell that clocks nothing are given to another.
LEMMA ClocksHanded ==
  ASSUME NEW n, NEW o, Remains(n, o), NEW held, NEW is, ClockedAlike(n, o, held, is),
         NEW c \in Cells(n) \cap Cells(o), c \notin Inputs(o), NEW d, NEW e, HandedTo(n, c, d, e)
  PROVE  ClockedAlike(d, o, held, is)
<1> SUFFICES ASSUME NEW b \in ClockBits(d)
             PROVE  LET k == o.drivers[b].cell
                        x == d.drivers[b].cell
                    IN  /\ k \in Inputs(o)
                        /\ IF k \in held THEN x \in Cells(d) \ Cells(o) /\ InitialValue(d, x) = is[k] ELSE x = k
  BY DEF ClockedAlike
<1> DEFINE k == o.drivers[b].cell
           x == n.drivers[b].cell
<1>1. b \in ClockBits(n) /\ d.drivers[b].cell = IF x = c THEN e ELSE x
  BY DEF HandedTo, ClockBits
<1>2. /\ k \in Inputs(o)
      /\ IF k \in held THEN x \in Cells(n) \ Cells(o) /\ InitialValue(n, x) = is[k] ELSE x = k
  BY <1>1 DEF ClockedAlike
<1>3. x # c
  BY <1>2
<1>4. CASE k \in held
  <2>1. x \in Cells(n) \ {c} /\ x \in Cells(d) /\ d.type[x] = n.type[x]
    BY <1>2, <1>3, <1>4 DEF HandedTo
  <2>2. InitialValue(d, x) = InitialValue(n, x)
    BY <2>1 DEF InitialValue, Memories, Tp
  <2> QED BY <1>1, <1>2, <1>3, <1>4, <2>1, <2>2
<1>5. CASE k \notin held
  BY <1>1, <1>2, <1>3, <1>5
<1> QED BY <1>4, <1>5

\* What clocks nothing is dropped.
LEMMA ClocksDropped ==
  ASSUME NEW n, NEW o, NEW held, NEW is, ClockedAlike(n, o, held, is), NEW d, Dropped(n, d)
  PROVE  ClockedAlike(d, o, held, is)
<1>1. PICK S \in SUBSET (Cells(n) \ n.portCells) :
        /\ d.type = [c \in CellId |-> IF c \in S THEN NoType ELSE n.type[c]]
        /\ \A b \in InBits(n) : b.cell \notin S => d.drivers[b] = n.drivers[b] /\ n.drivers[b].cell \notin S
  BY DEF Dropped
<1> SUFFICES ASSUME NEW b \in ClockBits(d)
             PROVE  LET k == o.drivers[b].cell
                        x == d.drivers[b].cell
                    IN  /\ k \in Inputs(o)
                        /\ IF k \in held THEN x \in Cells(d) \ Cells(o) /\ InitialValue(d, x) = is[k] ELSE x = k
  BY DEF ClockedAlike
<1> DEFINE k == o.drivers[b].cell
           x == n.drivers[b].cell
<1>2. b \in InBits(n) /\ b.cell \notin S /\ b \in ClockBits(n)
  <2>1. b \in Bit /\ b.cell \in CellId /\ d.type[b.cell] # NoType
    <3>1. b \in Bit /\ b.offset < Width(d.type[b.cell], b.port)
      BY DEF ClockBits, InBits
    <3>2. b.offset \in Nat /\ b.cell \in CellId
      BY <3>1, SemanticsAssumption DEF Bit, Offset
    <3> QED BY <3>1, <3>2 DEF Width
  <2>2. b.cell \notin S
    BY <1>1, <2>1
  <2> QED BY <1>1, <2>1, <2>2 DEF ClockBits, InBits, Width
<1>3. d.drivers[b] = n.drivers[b] /\ x \notin S
  BY <1>1, <1>2
<1>4. /\ k \in Inputs(o)
      /\ IF k \in held THEN x \in Cells(n) \ Cells(o) /\ InitialValue(n, x) = is[k] ELSE x = k
  BY <1>2 DEF ClockedAlike
<1>5. CASE k \in held
  <2>1. x \in CellId /\ d.type[x] = n.type[x]
    BY <1>1, <1>3, <1>4, <1>5 DEF Cells
  <2>2. InitialValue(d, x) = InitialValue(n, x) /\ (x \in Cells(n) => x \in Cells(d))
    BY <2>1 DEF InitialValue, Memories, Tp, Cells
  <2> QED BY <1>3, <1>4, <1>5, <2>2
<1>6. CASE k \notin held
  BY <1>3, <1>4, <1>6
<1> QED BY <1>5, <1>6

\* A port gives what it clocks to a constant, which it is held at.
LEMMA ClocksSpecialized ==
  ASSUME NEW n, NEW o, Remains(n, o), NEW held, NEW is \in [Inputs(o) -> Val],
         ClockedAlike(n, o, held, is), NEW c \in Inputs(o), c \notin held, NEW v \in Val, NEW d,
         Constantly(d, n, c, "OUT", Fold!Const(v))
  PROVE  ClockedAlike(d, o, held \cup {c}, [is EXCEPT ![c] = v])
<1> SUFFICES ASSUME NEW b \in ClockBits(d)
             PROVE  LET k == o.drivers[b].cell
                        x == d.drivers[b].cell
                    IN  /\ k \in Inputs(o)
                        /\ IF k \in held \cup {c}
                           THEN x \in Cells(d) \ Cells(o) /\ InitialValue(d, x) = [is EXCEPT ![c] = v][k]
                           ELSE x = k
  BY DEF ClockedAlike
<1> DEFINE k == o.drivers[b].cell
           x == n.drivers[b].cell
<1>1. /\ b \in ClockBits(n) /\ d.drivers[b].cell = IF x = c THEN n.next ELSE x
      /\ HandedTo(n, c, d, n.next)
  BY DEF Constantly, HandedTo, ClockBits
<1>2. /\ k \in Inputs(o)
      /\ IF k \in held THEN x \in Cells(n) \ Cells(o) /\ InitialValue(n, x) = is[k] ELSE x = k
  BY <1>1 DEF ClockedAlike
<1>3. c \in Cells(o)
  BY DEF Inputs
<1>4. CASE k \in held
  <2>1. x \in Cells(n) \ {c} /\ x \in Cells(d) /\ d.type[x] = n.type[x]
    BY <1>1, <1>2, <1>3, <1>4 DEF HandedTo
  <2>2. InitialValue(d, x) = InitialValue(n, x) /\ [is EXCEPT ![c] = v][k] = is[k]
    BY <1>2, <1>4, <2>1 DEF InitialValue, Memories, Tp
  <2> QED BY <1>1, <1>2, <1>4, <2>1, <2>2
<1>5. CASE k = c
  <2>1. x = c /\ d.drivers[b].cell = n.next
    BY <1>1, <1>2, <1>5
  <2>2. n.next \in Cells(d) /\ n.next \notin Cells(o)
    <3>1. n.next \in Nat
      BY NetFields DEF Remains, WellFormed
    <3> QED BY <1>1, <3>1 DEF HandedTo, Remains
  <2>3. d.type[n.next] = Fold!Const(v) /\ Fold!Const(v).tp = "CONST" /\ Fold!Const(v).init[1] = v
    BY DEF Constantly, Fold!Const
  <2>4. InitialValue(d, n.next) = v
    BY <2>2, <2>3 DEF InitialValue, Memories, Tp
  <2> QED BY <1>2, <1>5, <2>1, <2>2, <2>4
<1>6. CASE k \notin held \cup {c}
  BY <1>1, <1>2, <1>6
<1> QED BY <1>4, <1>5, <1>6

\* The original circuit is one of the interpreter's cells.
LEMMA OriginalOperators ==
  /\ Orig!CellId = CellId /\ Orig!Val = Val /\ Orig!X = X
  /\ \A n : Orig!Inputs(n) = Inputs(n)
  /\ \A n, c : Orig!SeqReceivers(n, c) = SeqReceivers(n, c)
BY DEF Orig!CellId, CellId, Orig!Val, Val, Orig!X, X, Orig!Inputs, Inputs,
       Orig!Cells, Cells, Orig!NoType, NoType, Orig!Tp, Tp, Orig!SeqReceivers, SeqReceivers,
       Orig!OutReceivers, OutReceivers, Orig!OutPort, OutPort, Orig!Port, Port,
       Orig!PortWidths, PortWidths, Orig!PinOf, PinOf, Orig!SigPort, SigPort, Orig!Comparator, Comparator,
       Orig!Binop, Binop, Orig!ReduceOp, ReduceOp, Orig!Unop, Unop

LEMMA ClocksInit ==
  ASSUME Specializable, SpecializeInit, ClocksArePorts(orig)
  PROVE  ClocksInv
<1>1. def = orig /\ def \in Circuits /\ WellFormed(def) /\ FullyDriven(def) /\ specialized = {}
  BY SimulatorAssumption DEF SpecializeInit, Init
<1>2. ins \in [Inputs(orig) -> Val]
  <2>1. X \in Val
    BY DEF X, Val
  <2> QED BY <2>1, OriginalOperators DEF SpecializeInit, Orig!Init
<1>3. ClockedAlike(def, orig, specialized, ins)
  BY <1>1, OriginalClocks DEF ClockedAlike
<1>4. PastsKept
  <2>1. 0 \in Val
    BY DEF Val
  <2> QED BY <1>1, <2>1 DEF PastsKept, SpecializeInit, Init
<1>5. ConstantsPast
  BY <1>1 DEF ConstantsPast, ClocksArePorts, Constants, Inputs, Tp, Cells
<1> QED BY <1>2, <1>3, <1>4, <1>5 DEF ClocksInv, SpecializeInit, Init, EventsAreTransient

\* The steps of the simulator leave the past values of all but ports.
LEMMA StepsKeepPasts ==
  ASSUME Quiet, StoreInv, EventsAreTransient, RewritesBetweenUpdates, Update \/ Running
  PROVE  /\ def' = def /\ EventsAreTransient' /\ phase' # "lost event"
         /\ \A c \in CellId : past'[c] = past[c] \/ (c \in Inputs(def) /\ past'[c] \in Val)
<1>1. CASE Update
  <2>1. TypeOK /\ seqChanges = {} /\ \A c \in CellId : PortMid(c) \in Val
    BY <1>1, PortValues DEF StoreInv, RewritesBetweenUpdates, Update
  <2> QED BY <1>1, <2>1, PortsSignalled DEF EventsAreTransient
<1>2. CASE CombStep
  BY <1>2, CombStepOutside DEF Outside, EventsAreTransient
<1>3. CASE StoreAborts
  BY <1>3 DEF StoreAborts, store, EventsAreTransient
<1>4. CASE SeqStep
  BY <1>4, SeqStepSignal DEF EventsAreTransient
<1>5. CASE RereadStep
  BY <1>5, RereadStepOutside DEF Outside, EventsAreTransient
<1>6. CASE LoopEnd
  BY <1>6 DEF LoopEnd, store, EventsAreTransient
<1> QED BY <1>1, <1>2, <1>3, <1>4, <1>5, <1>6 DEF Running

\* A step that leaves the definition, and what its ports are held at.
LEMMA ClocksStay ==
  ASSUME ClocksInv, UNCHANGED <<def, orig, specialized>>, ins' \in [Inputs(orig) -> Val],
         \A c \in specialized : ins'[c] = ins[c], specialized \subseteq Inputs(orig),
         stage' = "client" => stage = "client",
         \A c \in CellId : past'[c] = past[c] \/ (c \in Inputs(def) /\ past'[c] \in Val),
         EventsAreTransient', phase' # "lost event", stage' # "no past value"
  PROVE  ClocksInv'
<1>1. ClockedAlike(def, orig, specialized, ins')
  BY DEF ClocksInv, ClockedAlike
<1>2. PastsKept'
  BY DEF ClocksInv, PastsKept
<1>3. ConstantsPast'
  <2>1. \A c \in Constants : c \in CellId /\ c \notin Inputs(def)
    BY DEF Constants, Inputs, Cells
  <2>2. Constants' = Constants /\ \A c : InitialValue(def', c) = InitialValue(def, c)
    BY DEF Constants
  <2> QED BY <2>1, <2>2 DEF ClocksInv, ConstantsPast
<1> QED BY <1>1, <1>2, <1>3 DEF ClocksInv

LEMMA SimulatorKeepsClocks ==
  ASSUME Specializable, SpecializeTypeInv, ClocksInv,
         \/ \E c \in CellId, v \in Fresh : CallSetFreshValue(c, v)
         \/ CallUpdate \/ UpdateTurn
  PROVE  ClocksInv'
<1>1. /\ Quiet /\ StoreInv /\ EventsAreTransient /\ RewritesBetweenUpdates
      /\ specialized \subseteq Inputs(orig) /\ ins \in [Inputs(orig) -> Val]
  BY ClockedAlikeIsQuiet DEF ClocksInv, SpecializeTypeInv
<1>2. CASE \E c \in CellId, v \in Fresh : CallSetFreshValue(c, v)
  <2>1. /\ UNCHANGED <<def, past, seqChanges, phase, orig, specialized, ins, stage>>
    BY <1>2 DEF CallSetFreshValue, SetFreshValue, store, twin
  <2>2. EventsAreTransient' /\ phase' # "lost event" /\ stage' # "no past value"
    BY <1>1, <2>1 DEF EventsAreTransient, ClocksInv
  <2> QED BY <1>1, <2>1, <2>2, ClocksStay
<1>3. CASE CallUpdate \/ UpdateTurn
  <2>1. /\ Update \/ Running
        /\ UNCHANGED <<specialized, orig>> /\ stage = "client" /\ stage' = "client"
    BY <1>3 DEF CallUpdate, UpdateTurn
  <2>2. /\ def' = def /\ EventsAreTransient' /\ phase' # "lost event"
        /\ \A c \in CellId : past'[c] = past[c] \/ (c \in Inputs(def) /\ past'[c] \in Val)
    BY <1>1, <2>1, StepsKeepPasts
  <2>3. ins' = ins \/ TwinChanges
    BY <1>3 DEF CallUpdate, UpdateTurn, twin, Orig!Clock
  <2>4. ins' \in [Inputs(orig) -> Val]
    <3>1. CASE TwinChanges
      <4>1. Orig!X \in Val /\ Fresh \subseteq Val
        BY OriginalOperators, SimulatorAssumption DEF X, Val
      <4> QED BY <3>1, <4>1, OriginalOperators DEF TwinChanges, Orig!Change
    <3> QED BY <1>1, <2>3, <3>1
  <2>5. \A c \in specialized : ins'[c] = ins[c]
    BY <1>1, <2>3 DEF TwinChanges, HeldOr
  <2> QED BY <1>1, <2>1, <2>2, <2>4, <2>5, ClocksStay
<1> QED BY <1>2, <1>3

LEMMA RewritingKeepsClocks ==
  ASSUME Specializable, SpecializeTypeInv, ClocksInv, UNCHANGED <<past, seqChanges, phase, orig>>,
         phase = "idle", stage' \notin {"client", "no past value"},
         ins' \in [Inputs(orig) -> Val], ClockedAlike(def', orig, specialized', ins')
  PROVE  ClocksInv'
BY DEF ClocksInv, PastsKept, ConstantsPast, EventsAreTransient

LEMMA SpecializingKeepsClocks ==
  ASSUME Specializable, SpecializeTypeInv, ClocksInv,
         Specializing \/ \E c \in Inputs(def) : \E v \in Fresh \cup {value[c]} : SpecializePort(c, v)
  PROVE  ClocksInv'
<1>1. /\ orig \in Circuits /\ Rewritten(def, orig) /\ Remains(def, orig) /\ Inputs(def) = Inputs(orig)
      /\ ClockedAlike(def, orig, specialized, ins) /\ ins \in [Inputs(orig) -> Val]
      /\ def.portCells = orig.portCells /\ def \in Net
  BY RewrittenFacts DEF SpecializeTypeInv, Rewritten, ClocksInv
<1>2. CASE BeginFolding \/ BeginDeleting
  <2>1. /\ UNCHANGED <<def, orig, specialized, ins, past, seqChanges, phase>> /\ phase = "idle"
        /\ stage' \in {"folding", "dead"}
    BY <1>2 DEF BeginFolding, BeginDeleting, running, store, twin, SpecializeTypeInv, RewritesBetweenUpdates
  <2> QED BY <1>1, <2>1, RewritingKeepsClocks
<1>3. CASE FoldTurn
  <2>1. /\ UNCHANGED <<running, specialized, twin, orig>> /\ stage' \notin {"client", "no past value"}
        /\ phase = "idle" /\ FP!IInv /\ (FP!FoldsOne \/ FP!FoldsMemory)
    BY <1>3, FoldTurnFacts
  <2>3. CASE def' = def
    BY <1>1, <2>1, <2>3, RewritingKeepsClocks DEF running, store, twin
  <2>4. ASSUME NEW c \in Cells(def), NEW e, HandedTo(def, c, def', e), CellIns(def, c) # {},
               Tp(def, c) # "PORT"
        PROVE  ClocksInv'
    <3>1. c \in Cells(orig) /\ c \notin Inputs(orig)
      <4>1. Tp(def, c) # "CONST"
        BY <1>1, <2>4, ReadingCell DEF Remains, Cells
      <4> QED BY <1>1, <2>4, <4>1 DEF Remains, Inputs
    <3>2. ClockedAlike(def', orig, specialized, ins)
      BY <1>1, <2>4, <3>1, ClocksHanded
    <3> QED BY <1>1, <2>1, <3>2, RewritingKeepsClocks DEF running, store, twin
  <2>5. CASE def' # def
    <3>1. /\ \A c, d, e : FP!FoldedInto(def, c, d, e) = FoldedInto(def, c, d, e)
          /\ \A c : FP!Tp(def, c) = Tp(def, c) /\ FP!CellIns(def, c) = CellIns(def, c)
          /\ FP!Cells(def) = Cells(def)
      BY FoldingOperators
    <3>2. \E c \in candidates : \E e : FoldedInto(def, c, def', e) /\ Tp(def, c) # "PORT"
      BY <2>1, <2>5, <3>1 DEF FP!FoldsOne, FP!FoldsMemory, FP!Folded
    <3>3. \A c \in candidates : c \in Cells(def) /\ CellIns(def, c) # {}
      BY <2>1, <3>1 DEF FP!IInv
    <3> QED BY <2>4, <3>2, <3>3 DEF FoldedInto
  <2> QED BY <2>3, <2>5
<1>4. CASE CleanTurn
  <2>1. /\ UNCHANGED <<running, specialized, twin, orig>> /\ stage' \notin {"client", "no past value"}
        /\ phase = "idle" /\ CP!Wired(def) /\ CP!Removes(def, def')
    BY <1>4, CleanTurnFacts DEF Deleting
  <2>2. def' = def \/ Dropped(def, def') \/ Merged(def, def')
    BY <2>1, RemovalLeaves
  <2>3. ClockedAlike(def', orig, specialized, ins)
    <3>1. CASE Dropped(def, def')
      BY <1>1, <3>1, ClocksDropped
    <3>2. CASE Merged(def, def')
      <4>1. PICK a \in Evaluated(def), b \in Evaluated(def) : FoldedInto(def, b, def', a)
        BY <3>2 DEF Merged
      <4>2. b \in Cells(def) \cap Cells(orig) /\ b \notin Inputs(orig)
        BY <1>1, <4>1 DEF Evaluated, Remains
      <4>3. HandedTo(def, b, def', a)
        BY <4>1 DEF FoldedInto
      <4> QED BY <1>1, <4>2, <4>3, ClocksHanded
    <3> QED BY <1>1, <2>2, <3>1, <3>2
  <2> QED BY <1>1, <2>1, <2>3, RewritingKeepsClocks DEF running, store, twin
<1>5. CASE RefreshConstants
  <2>1. /\ UNCHANGED <<def, seqChanges, specialized, orig, ins>> /\ stage' = "client" /\ phase' = "constructing"
        /\ phase = "idle" /\ seqChanges = {}
        /\ past'  = [c \in CellId |-> IF c \in Constants /\ SeqReceivers(def, c) # {}
                                      THEN InitialValue(def, c) ELSE past[c]]
    BY <1>5 DEF RefreshConstants, twin, SpecializeTypeInv, RewritesBetweenUpdates
  <2>2. \A c \in CellId : InitialValue(def, c) \in Val
    BY <1>1, InitialVal
  <2>3. PastsKept' /\ EventsAreTransient'
    BY <2>1, <2>2 DEF ClocksInv, PastsKept, EventsAreTransient
  <2>4. ConstantsPast'
    <3>1. Constants' = Constants /\ Constants \subseteq CellId
      BY <2>1 DEF Constants, Cells
    <3> QED BY <2>1, <3>1 DEF ConstantsPast
  <2> QED BY <1>1, <2>1, <2>3, <2>4 DEF ClocksInv
<1>6. CASE \E c \in Inputs(def) : \E v \in Fresh \cup {value[c]} : SpecializePort(c, v)
  <2>1. PICK c \in Inputs(def) : \E v \in Fresh \cup {value[c]} : SpecializePort(c, v)
    BY <1>6
  <2>2. PICK v \in Fresh \cup {value[c]} : SpecializePort(c, v)
    BY <2>1
  <2>3. /\ UNCHANGED <<past, seqChanges, phase, orig>> /\ phase = "idle" /\ stage' \in {"ports", "changed"}
        /\ \A d \in specialized : d < c /\ def.next <= MaxId
        /\ def' = ReplaceWithConstant(def, c, "OUT", Fold!Const(v))
        /\ specialized' = specialized \cup {c} /\ ins' = [ins EXCEPT ![c] = v]
    BY <2>2 DEF SpecializePort, running, store
  <2>4. v \in Val
    <3>1. c \in CellId /\ value \in [CellId -> Val] /\ Fresh \subseteq Val
      BY SimulatorAssumption DEF Inputs, Cells, SpecializeTypeInv, StoreInv, TypeOK
    <3> QED BY <3>1
  <2>5. c \notin specialized
    <3>1. c \in Nat
      BY NetlistAssumption DEF Inputs, Cells, CellId
    <3> QED BY <2>3, <3>1
  <2>6. Constantly(def', def, c, "OUT", Fold!Const(v))
    <3>1. def.next <= MaxId
      BY <2>2 DEF SpecializePort
    <3> QED BY <1>1, <2>3, <2>4, <3>1, PortReplaced
  <2>7. ClockedAlike(def', orig, specialized', ins')
    BY <1>1, <2>3, <2>4, <2>5, <2>6, ClocksSpecialized
  <2>8. ins' \in [Inputs(orig) -> Val]
    BY <1>1, <2>3, <2>4
  <2> QED BY <2>3, <2>7, <2>8, RewritingKeepsClocks
<1> QED BY <1>2, <1>3, <1>4, <1>5, <1>6 DEF Specializing

LEMMA NextKeepsClocks ==
  ASSUME Specializable, SpecializeTypeInv, ClocksInv, [SpecializeNext]_allVars
  PROVE  ClocksInv'
<1>1. CASE UNCHANGED allVars
  <2>1. UNCHANGED <<def, orig, specialized, ins, past, seqChanges, phase, stage>>
    BY <1>1 DEF allVars, running, store, twin
  <2>2. EventsAreTransient'
    BY <2>1 DEF ClocksInv, EventsAreTransient
  <2> QED BY <2>1, <2>2, ClocksStay DEF ClocksInv, SpecializeTypeInv
<1>2. ~PastIsMissing
  BY PastFound DEF PastIsMissing
<1> QED BY <1>1, <1>2, SimulatorKeepsClocks, SpecializingKeepsClocks DEF SpecializeNext

-----------------------------------------------------------------------------
\* The original, and so whether its clocks are ports, does not change.
NothingStops == FoldingLosesNone /\ (ClocksArePorts(orig) => ClocksInv)

LEMMA InitNothingStops ==
  ASSUME Specializable, SpecializeInit
  PROVE  NothingStops
BY ClocksInit DEF SpecializeInit, FoldingLosesNone, NothingStops

LEMMA NextKeepsOriginal ==
  ASSUME Specializable, SpecializeTypeInv, [SpecializeNext]_allVars
  PROVE  orig' = orig
<1>1. CASE FoldTurn \/ CleanTurn
  BY <1>1, FoldTurnFacts, CleanTurnFacts
<1>2. CASE ~(FoldTurn \/ CleanTurn)
  BY <1>2 DEF SpecializeNext, Specializing, allVars, CallSetFreshValue, CallUpdate, UpdateTurn, PastIsMissing,
     SpecializePort, BeginFolding, BeginDeleting, RefreshConstants
<1> QED BY <1>1, <1>2

LEMMA NextNothingStops ==
  ASSUME Specializable, Memoryless, SpecializeTypeInv, NothingStops, [SpecializeNext]_allVars
  PROVE  NothingStops'
<1>1. orig' = orig
  BY NextKeepsOriginal
<1> QED BY <1>1, NextLosesNone, NextKeepsClocks DEF NothingStops

\* No assertion stops a specialization, or an update after it, of a definition whose clocks
\* and resets are ports: foldConstants leaves no cell that reads constants alone, the removals
\* none they have to delete, whatever clocks a register always has a past value, and no clock
\* event is left at the end of an update.
THEOREM SpecializingSucceeds ==
  ASSUME Specializable, Memoryless
  PROVE  SpecializeSpec => [](ClocksArePorts(orig) => SpecializationSucceeds)
<1>1. SpecializeInit => NothingStops
  BY InitNothingStops
<1>2. SpecializeTypeInv /\ NothingStops /\ [SpecializeNext]_allVars => NothingStops'
  BY NextNothingStops
<1>3. SpecializeTypeInv /\ NothingStops => (ClocksArePorts(orig) => SpecializationSucceeds)
  <2>1. SpecializeTypeInv => stage \notin {"no cell", "left over"}
    BY DEF SpecializeTypeInv, Deleting
  <2> QED BY <2>1 DEF SpecializeTypeInv, NothingStops, FoldingLosesNone, ClocksInv, SpecializationSucceeds
<1> QED BY <1>1, <1>2, <1>3, SpecializeTypesHold, PTL DEF SpecializeSpec

\* And whatever clocks its registers, foldConstants and the removals leave and miss no cell.
THEOREM NoCellIsLeftOver ==
  ASSUME Specializable, Memoryless
  PROVE  SpecializeSpec => [](stage \notin {"no cell", "unfolded", "left over"})
<1>1. SpecializeInit => NothingStops
  BY InitNothingStops
<1>2. SpecializeTypeInv /\ NothingStops /\ [SpecializeNext]_allVars => NothingStops'
  BY NextNothingStops
<1>3. SpecializeTypeInv /\ NothingStops => stage \notin {"no cell", "unfolded", "left over"}
  BY DEF SpecializeTypeInv, NothingStops, FoldingLosesNone, Deleting
<1> QED BY <1>1, <1>2, <1>3, SpecializeTypesHold, PTL DEF SpecializeSpec

-----------------------------------------------------------------------------
(* What is left shows what the original shows.  First of the wires: values of *)
(* the original that hold the specialized ports at their values, and the      *)
(* folded registers at what they were replaced by, are what n reads.          *)
Zeros == [c \in CellId |-> [a \in Addr |-> 0]]

Possible(o, held, is, fr, w) ==
  /\ Solution(o, w, Zeros)
  /\ \A c \in held : w[c] = is[c]
  /\ \A c \in Registers(o) : fr[c] \in {Fold!NotConst, w[c]}

FrozenLoads(o, fr, w) == \A c \in Registers(o) : fr[c] # Fold!NotConst => In(o, w, c, "IN") = fr[c]

ReadsInv ==
  \A w : Possible(orig, specialized, ins, frozen, w) =>
           ReadsAs(def, orig, w) /\ FrozenLoads(orig, frozen, w)

\* No input is driven by a port that was specialized.
Unread(n, held) == \A b \in InBits(n) : n.drivers[b].cell \notin held

FrozenAreGone == \A c \in Registers(orig) : frozen[c] # Fold!NotConst => c \notin Cells(def)

ResetsAreHeld ==
  \A c \in Registers(orig) :
    frozen[c] # Fold!NotConst /\ Tp(orig, c) = "REG_ARST" => Driver(orig, c, "ARST") \in specialized

RewriteInv ==
  /\ ins \in [Inputs(orig) -> Val] /\ Unread(def, specialized) /\ FrozenAreGone /\ ReadsInv
  /\ ClocksArePorts(orig) => ResetsAreHeld

LEMMA SameZeros == FP!Zeros = Zeros
BY DEF FP!Zeros, Zeros, FP!CellId, CellId, FP!Addr, Addr, FP!Val, Val

LEMMA NoMemories ==
  ASSUME Memoryless, NEW n, n \in Net
  PROVE  Memories(n) = {} /\ \A c \in Cells(n) : Tp(n, c) # "MEM"
BY NetFields DEF Memoryless, Memories, Cells, Tp

\* What a gate computes depends on the ports it reads only, whatever memories there are.
LEMMA SameGate ==
  ASSUME NEW n, NEW k, NEW v, NEW w, NEW m, NEW l, NEW c, Tp(n, c) \in CombTypes \ {"MEM"},
         Tp(k, c) = Tp(n, c), \A p \in Reads(Tp(n, c)) : In(n, v, c, p) = In(k, w, c, p)
  PROVE  Eval(n, v, m, c) = Eval(k, w, l, c)
<1>1. Eval(n, v, m, c) = Eval(k, w, m, c)
  BY SameEval
<1>2. Eval(k, w, m, c) = Eval(k, w, l, c)
  BY DEF Eval, CombTypes, Unary, Binary, Comparator
<1> QED BY <1>1, <1>2

\* A gate of n is one of o.
LEMMA KeptGate ==
  ASSUME Specializable, Memoryless, NEW o \in Circuits, NEW n, Rewritten(n, o), NEW c \in Evaluated(n)
  PROVE  /\ c \in Evaluated(o) /\ Tp(n, c) \in CombTypes \ {"MEM"} /\ Tp(o, c) = Tp(n, c)
         /\ \A p \in Reads(Tp(n, c)) :
              /\ PinOf(c, p) \in InBits(n) /\ Driver(n, c, p) \in Cells(n)
              /\ Driver(n, c, p) = n.drivers[PinOf(c, p)].cell
              /\ Driver(o, c, p) = o.drivers[PinOf(c, p)].cell
<1>1. /\ WellFormed(n) /\ FullyDriven(n) /\ n \in Net /\ Inputs(n) = Inputs(o) /\ o \in Net
      /\ \A x \in Cells(n) : IF x \in Cells(o) THEN n.type[x] = o.type[x] ELSE Tp(n, x) = "CONST"
  BY RewrittenFacts DEF Rewritten, Remains
<1>2. c \in Cells(n) /\ Tp(n, c) \in CombTypes /\ Tp(n, c) # "MEM"
  BY <1>1, EvaluatedTypes, NoMemories
<1>3. c \in Evaluated(o) /\ Tp(o, c) = Tp(n, c)
  BY <1>1, <1>2 DEF Evaluated, Registers, Tp, CombTypes, Unary, Binary, Comparator
<1> QED BY <1>1, <1>2, <1>3, ReadsCells DEF Driver

\* A step that leaves the definition and what is held.
LEMMA RewriteStays ==
  ASSUME RewriteInv, UNCHANGED <<def, orig, specialized, frozen>>, ins' \in [Inputs(orig) -> Val],
         \A c \in specialized : ins'[c] = ins[c]
  PROVE  RewriteInv'
<1>1. \A w : Possible(orig, specialized, ins', frozen, w) => Possible(orig, specialized, ins, frozen, w)
  BY DEF Possible
<1>2. ReadsInv'
  BY <1>1 DEF RewriteInv, ReadsInv
<1>3. FrozenAreGone' /\ Unread(def, specialized)' /\ (ClocksArePorts(orig) => ResetsAreHeld)'
  BY DEF RewriteInv, FrozenAreGone, ResetsAreHeld
<1> QED BY <1>2, <1>3 DEF RewriteInv

\* What a port is replaced by.
LEMMA SpecializePortFacts ==
  ASSUME Specializable, SpecializeTypeInv, NEW c \in Inputs(def), NEW v \in Fresh \cup {value[c]},
         SpecializePort(c, v)
  PROVE  /\ v \in Val /\ c \in Inputs(orig) /\ c \in Cells(def) /\ c \notin specialized
         /\ phase = "idle" /\ UNCHANGED <<running, folding, orig, old, origReg, origMem, pc>>
         /\ stage \in {"client", "ports", "changed"}
         /\ stage' = IF stage # "changed" /\ v = value[c] THEN "ports" ELSE "changed"
         /\ specialized' = specialized \cup {c} /\ ins' = [ins EXCEPT ![c] = v]
         /\ Constantly(def', def, c, "OUT", Fold!Const(v)) /\ HandedTo(def, c, def', def.next)
         /\ Rewritten(def', orig) /\ def.next \notin Cells(orig) /\ def.next \notin Cells(def)
         /\ \A x \in Cells(def') \cap Cells(orig) : x \in Cells(def) /\ def'.type[x] = def.type[x]
         /\ InitialValue(def', def.next) = v
<1>1. /\ stage \in {"client", "ports", "changed"} /\ phase = "idle" /\ def.next <= MaxId
      /\ \A d \in specialized : d < c
      /\ stage' = IF stage # "changed" /\ v = value[c] THEN "ports" ELSE "changed"
      /\ UNCHANGED <<running, folding, orig, old, origReg, origMem, pc>>
      /\ specialized' = specialized \cup {c} /\ ins' = [ins EXCEPT ![c] = v]
      /\ def' = ReplaceWithConstant(def, c, "OUT", Fold!Const(v))
  BY DEF SpecializePort
<1>2. /\ orig \in Circuits /\ Rewritten(def, orig) /\ Inputs(def) = Inputs(orig) /\ def \in Net
      /\ value \in [CellId -> Val]
  BY RewrittenFacts DEF SpecializeTypeInv, StoreInv, TypeOK
<1>3. c \in CellId /\ c \in Cells(def) /\ c \in Nat
  BY NetlistAssumption DEF Inputs, Cells, CellId
<1>4. v \in Val /\ c \notin specialized
  <2>1. Fresh \subseteq Val
    BY SimulatorAssumption
  <2> QED BY <1>1, <1>2, <1>3, <2>1
<1>5. /\ Constantly(def', def, c, "OUT", Fold!Const(v)) /\ Rewritten(def', orig)
      /\ \A x \in Cells(def') \cap Cells(orig) : x \in Cells(def) /\ def'.type[x] = def.type[x]
  BY <1>1, <1>2, <1>4, PortReplaced
<1>6. /\ HandedTo(def, c, def', def.next) /\ def.next \in Cells(def') /\ def.next \notin Cells(def)
      /\ def'.type[def.next] = Fold!Const(v)
  BY <1>5 DEF Constantly, HandedTo
<1>7. def.next \notin Cells(orig)
  <2>1. def.next \in Nat
    BY <1>2, NetFields
  <2> QED BY <1>2, <2>1 DEF Rewritten, Remains
<1>8. InitialValue(def', def.next) = v
  BY <1>6 DEF InitialValue, Memories, Tp, Fold!Const
<1> QED BY <1>1, <1>2, <1>3, <1>4, <1>5, <1>6, <1>7, <1>8

LEMMA SpecializePortReads ==
  ASSUME Specializable, SpecializeTypeInv, RewriteInv, NEW c \in Inputs(def),
         NEW v \in Fresh \cup {value[c]}, SpecializePort(c, v)
  PROVE  RewriteInv'
<1>1. /\ v \in Val /\ c \in Inputs(orig) /\ c \in Cells(def) /\ c \notin specialized
      /\ frozen' = frozen /\ orig' = orig
      /\ specialized' = specialized \cup {c} /\ ins' = [ins EXCEPT ![c] = v]
      /\ HandedTo(def, c, def', def.next)
      /\ def.next \notin Cells(orig) /\ def.next \notin Cells(def)
      /\ \A x \in Cells(def') \cap Cells(orig) : x \in Cells(def)
      /\ InitialValue(def', def.next) = v
  BY SpecializePortFacts DEF folding
<1>2. /\ Remains(def, orig) /\ Inputs(def) = Inputs(orig) /\ specialized \subseteq Inputs(orig)
      /\ c \in Cells(orig) /\ ins \in [Inputs(orig) -> Val]
  BY <1>1, RewrittenFacts DEF SpecializeTypeInv, Rewritten, Inputs, RewriteInv
<1>3. Unread(def', specialized')
  <2>1. specialized \cup {c} \subseteq Cells(def)
    BY <1>1, <1>2 DEF Inputs
  <2> QED BY <1>1, <2>1 DEF RewriteInv, Unread, HandedTo
<1>4. FrozenAreGone'
  BY <1>1 DEF RewriteInv, FrozenAreGone, Registers
<1>5. ASSUME NEW w, Possible(orig, specialized', ins', frozen, w)
      PROVE  ReadsAs(def', orig, w) /\ FrozenLoads(orig, frozen, w)
  <2>1. w[c] = v
    BY <1>1, <1>2, <1>5 DEF Possible
  <2>2. Possible(orig, specialized, ins, frozen, w)
    BY <1>1, <1>2, <1>5 DEF Possible
  <2>3. ReadsAs(def, orig, w) /\ FrozenLoads(orig, frozen, w)
    BY <2>2 DEF RewriteInv, ReadsInv
  <2>4. Value(def', orig, w, def.next) = w[c]
    BY <1>1, <2>1 DEF Value
  <2> QED BY <1>1, <1>2, <2>3, <2>4, HandingKeepsReads
<1>6. ReadsInv'
  BY <1>1, <1>5 DEF ReadsInv
<1>7. (ClocksArePorts(orig) => ResetsAreHeld)'
  BY <1>1 DEF RewriteInv, ResetsAreHeld
<1>8. ins' \in [Inputs(orig) -> Val]
  BY <1>1, <1>2
<1> QED BY <1>1, <1>3, <1>4, <1>6, <1>7, <1>8 DEF RewriteInv

\* What foldConstants does to a cell, in the terms of these lemmas.
FoldedCell(n, o, fr, c, e, d, gr) ==
  /\ c \in (Cells(n) \cap Cells(o)) \ n.portCells /\ Tp(n, c) \notin {"PORT", "CONST", "MEM"}
  /\ FoldedInto(n, c, d, e)
  /\ IF e \in Cells(n) THEN \E b \in InBits(n) : n.drivers[b].cell = e ELSE e \notin Cells(o)
  /\ IF c \in Registers(n) THEN \E v \in Val : gr = [fr EXCEPT ![c] = v] ELSE gr = fr
  /\ Tp(n, c) = "REG_ARST" => Tp(n, Driver(n, c, "ARST")) = "CONST"
  /\ \A w : Solution(o, w, Zeros) /\ ReadsAs(n, o, w) /\ (c \in Registers(n) => w[c] = gr[c]) =>
       ReadsAs(d, o, w) /\ (c \in Registers(n) => In(o, w, c, "IN") = gr[c])

LEMMA FoldedIsFoldedCell ==
  ASSUME NEW n, NEW o, NEW fr, NEW c, NEW e, NEW d, NEW gr, FP!Folded(n, o, fr, c, e, d, gr)
  PROVE  FoldedCell(n, o, fr, c, e, d, gr)
<1>1. FP!Val = Val
  BY DEF FP!Val, Val, FP!X, X
<1>2. FP!MaterializeConstPort(n, c, "ARST") # FP!NotConst => FP!Tp(n, FP!Driver(n, c, "ARST")) = "CONST"
  BY DEF FP!MaterializeConstPort
<1> QED BY <1>1, <1>2, FoldingOperators, SameZeros DEF FP!Folded, FoldedCell

\* A turn folds a gate or a register, or nothing.
LEMMA FoldTurnFolds ==
  ASSUME Specializable, Memoryless, SpecializeTypeInv, FoldTurn
  PROVE  \/ UNCHANGED <<def, frozen>>
         \/ \E c \in Cells(def) : \E e : FoldedCell(def, orig, frozen, c, e, def', frozen')
<1>1. FP!IInv /\ (FP!FoldsOne \/ FP!FoldsMemory) /\ def \in Net
  BY FoldTurnFacts DEF SpecializeTypeInv, Rewritten, Remains, WellFormed
<1>2. candidates \subseteq Cells(def)
  BY <1>1, FoldingOperators DEF FP!IInv
<1>3. ~FP!FoldsMemory
  BY <1>1, <1>2, NoMemories, FoldingOperators DEF FP!FoldsMemory
<1> QED BY <1>1, <1>2, <1>3, FoldedIsFoldedCell DEF FP!FoldsOne

LEMMA FoldTurnReads ==
  ASSUME Specializable, Memoryless, SpecializeTypeInv, RewriteInv, FoldTurn,
         ClocksArePorts(orig) => ClockedAlike(def, orig, specialized, ins)
  PROVE  RewriteInv'
<1>1. /\ UNCHANGED <<running, specialized, todo, twin, orig>> /\ Rewritten(def', orig)
      /\ ins' = ins
  BY FoldTurnFacts DEF twin
<1>2. /\ Remains(def, orig) /\ Inputs(def) = Inputs(orig) /\ specialized \subseteq Inputs(orig)
      /\ WellFormed(def) /\ FullyDriven(def) /\ def \in Net /\ orig \in Circuits /\ Rewritten(def, orig)
      /\ frozen \in [CellId -> Val \cup {Fold!NotConst}]
      /\ ins \in [Inputs(orig) -> Val] /\ Registers(def) \subseteq Registers(orig)
  BY RewrittenFacts DEF SpecializeTypeInv, Rewritten, RewriteInv
<1>3. CASE UNCHANGED <<def, frozen>>
  BY <1>1, <1>2, <1>3, RewriteStays
<1>4. ASSUME NEW c \in Cells(def), NEW e, FoldedCell(def, orig, frozen, c, e, def', frozen')
      PROVE  RewriteInv'
  <2>1. /\ c \in CellId /\ c \in Cells(def) \cap Cells(orig) /\ HandedTo(def, c, def', e)
        /\ c \notin Cells(def') /\ Tp(def, c) = Tp(orig, c)
        /\ \A d \in CellId : d # c => frozen'[d] = frozen[d]
        /\ c \in Registers(def) => frozen'[c] \in Val
        /\ c \notin Registers(def) => frozen' = frozen
    BY <1>2, <1>4 DEF FoldedCell, FoldedInto, Cells, Remains, Tp
  <2>2. Unread(def', specialized)
    <3>1. e \notin specialized
      BY <1>2, <1>4 DEF FoldedCell, RewriteInv, Unread, Inputs
    <3> QED BY <2>1, <3>1 DEF RewriteInv, Unread, HandedTo
  <2>3. FrozenAreGone'
    <3> SUFFICES ASSUME NEW d \in Registers(orig), frozen'[d] # Fold!NotConst, d \in Cells(def')
                 PROVE  FALSE
      BY <1>1 DEF FrozenAreGone
    <3>1. d # c /\ d \in CellId /\ frozen[d] # Fold!NotConst
      BY <2>1 DEF Registers, Cells
    <3>2. d \notin Cells(def)
      BY <3>1 DEF RewriteInv, FrozenAreGone
    <3>3. Tp(def', d) = "CONST" /\ Tp(def', d) = Tp(orig, d)
      BY <1>1, <2>1, <3>2 DEF HandedTo, Rewritten, Remains, Registers, Tp
    <3> QED BY <3>3 DEF Registers
  <2>4. ASSUME NEW w, Possible(orig, specialized, ins, frozen', w)
        PROVE  ReadsAs(def', orig, w) /\ FrozenLoads(orig, frozen', w)
    <3>1. \A d \in Registers(orig) : d \in CellId
      BY DEF Registers, Cells
    <3>2. c \in Registers(def) => c \in Registers(orig) /\ frozen[c] = Fold!NotConst /\ w[c] = frozen'[c]
      <4>1. Fold!NotConst \notin Val
        BY DEF Fold!NotConst, Val, X
      <4>2. c \in Registers(def) => c \in Registers(orig)
        BY <1>2
      <4> QED BY <2>1, <2>4, <4>1, <4>2 DEF RewriteInv, FrozenAreGone, Possible
    <3>3. Possible(orig, specialized, ins, frozen, w)
      BY <2>1, <2>4, <3>1, <3>2 DEF Possible
    <3>4. ReadsAs(def, orig, w) /\ FrozenLoads(orig, frozen, w) /\ Solution(orig, w, Zeros)
      BY <3>3 DEF RewriteInv, ReadsInv, Possible
    <3>5. ReadsAs(def', orig, w) /\ (c \in Registers(def) => In(orig, w, c, "IN") = frozen'[c])
      BY <1>4, <3>2, <3>4 DEF FoldedCell
    <3>6. FrozenLoads(orig, frozen', w)
      BY <1>2, <2>1, <3>1, <3>2, <3>4, <3>5 DEF FrozenLoads
    <3> QED BY <3>5, <3>6
  <2>5. ReadsInv'
    BY <1>1, <2>4 DEF ReadsInv
  <2>6. ASSUME ClocksArePorts(orig), c \in Registers(def), Tp(orig, c) = "REG_ARST"
        PROVE  Driver(orig, c, "ARST") \in specialized
    <3>1. Tp(def, Driver(def, c, "ARST")) = "CONST"
      BY <1>4, <2>1, <2>6 DEF FoldedCell
    <3>2. PinOf(c, "ARST") \in InBits(def)
      <4>1. "ARST" \in DOMAIN PortWidths(def.type[c])
        BY <2>1, <2>6 DEF PortWidths, Tp, Comparator, Binop, ReduceOp, Unop
      <4> QED BY <1>2, <4>1, PortIsDriven
    <3>3. PinOf(c, "ARST") \in ClockBits(def)
      BY <3>2 DEF ClockBits, PinOf
    <3>4. Tp(def, Driver(orig, c, "ARST")) = "PORT"
      BY <1>2, <2>6, <3>3 DEF ClockedAlike, Driver, Inputs
    <3>5. \/ Driver(orig, c, "ARST") \in specialized
          \/ Driver(def, c, "ARST") = Driver(orig, c, "ARST")
      BY <2>6, <3>3 DEF ClockedAlike, Driver
    <3> QED BY <3>1, <3>4, <3>5
  <2>7. (ClocksArePorts(orig) => ResetsAreHeld)'
    <3> SUFFICES ASSUME ClocksArePorts(orig), NEW d \in Registers(orig), frozen'[d] # Fold!NotConst,
                        Tp(orig, d) = "REG_ARST"
                 PROVE  Driver(orig, d, "ARST") \in specialized
      BY <1>1 DEF ResetsAreHeld
    <3>1. CASE d = c
      <4>1. c \in Registers(def)
        BY <2>1, <3>1 DEF Registers
      <4> QED BY <2>6, <3>1, <4>1
    <3>2. CASE d # c
      <4>1. d \in CellId
        BY DEF Registers, Cells
      <4> QED BY <2>1, <3>2, <4>1 DEF RewriteInv, ResetsAreHeld
    <3> QED BY <3>1, <3>2
  <2> QED BY <1>1, <1>2, <2>2, <2>3, <2>5, <2>7 DEF RewriteInv
<1> QED BY <1>3, <1>4, FoldTurnFolds

LEMMA DroppedBits ==
  ASSUME NEW n, NEW d, Dropped(n, d), NEW b \in InBits(d)
  PROVE  /\ b \in InBits(n) /\ d.drivers[b] = n.drivers[b]
         /\ InitialValue(d, n.drivers[b].cell) = InitialValue(n, n.drivers[b].cell)
<1>1. PICK S \in SUBSET (Cells(n) \ n.portCells) :
        /\ d.type = [c \in CellId |-> IF c \in S THEN NoType ELSE n.type[c]]
        /\ \A r \in InBits(n) : r.cell \notin S => d.drivers[r] = n.drivers[r] /\ n.drivers[r].cell \notin S
  BY DEF Dropped
<1>2. b \in Bit /\ b.cell \in CellId /\ d.type[b.cell] # NoType
  <2>1. b \in Bit /\ b.offset < Width(d.type[b.cell], b.port)
    BY DEF InBits
  <2>2. b.offset \in Nat /\ b.cell \in CellId
    BY <2>1, SemanticsAssumption DEF Bit, Offset
  <2> QED BY <2>1, <2>2 DEF Width
<1>3. b.cell \notin S
  BY <1>1, <1>2
<1>4. b \in InBits(n)
  BY <1>1, <1>2, <1>3 DEF InBits, Width
<1> DEFINE x == n.drivers[b].cell
<1>5. d.drivers[b] = n.drivers[b] /\ x \notin S
  BY <1>1, <1>3, <1>4
<1>6. x \in CellId => d.type[x] = n.type[x]
  BY <1>1, <1>5
<1>7. InitialValue(d, x) = InitialValue(n, x)
  BY <1>6 DEF InitialValue, Memories, Tp, Cells
<1> QED BY <1>4, <1>5, <1>7

LEMMA DroppedReads ==
  ASSUME NEW n, NEW o, NEW w, ReadsAs(n, o, w), NEW d, Dropped(n, d)
  PROVE  ReadsAs(d, o, w)
BY DroppedBits DEF ReadsAs, Value

\* Gates that n shows to be duplicates show the same in o.
LEMMA MergedReads ==
  ASSUME Specializable, Memoryless, NEW o \in Circuits, NEW n, Rewritten(n, o),
         NEW w, Solution(o, w, Zeros), ReadsAs(n, o, w), NEW d, NEW a, NEW b,
         a \in Evaluated(n), b \in Evaluated(n), FoldedInto(n, b, d, a),
         Reads(Tp(n, a)) = Reads(Tp(n, b)),
         \A p \in Reads(Tp(n, a)) : Driver(n, a, p) = Driver(n, b, p),
         \A v, m : Eval(n, v, m, a) = Eval(n, v, m, b)
  PROVE  ReadsAs(d, o, w)
<1> DEFINE V == [x \in CellId |-> Value(n, o, w, x)]
<1>1. \A x \in Cells(n) : V[x] = Value(n, o, w, x)
  BY DEF Cells
<1> HIDE DEF V
<1>2. ASSUME NEW c \in Evaluated(n)
      PROVE  c \in Evaluated(o) /\ w[c] = Eval(n, V, Zeros, c)
  <2>1. /\ c \in Evaluated(o) /\ Tp(n, c) \in CombTypes \ {"MEM"} /\ Tp(o, c) = Tp(n, c)
        /\ \A p \in Reads(Tp(n, c)) :
             /\ PinOf(c, p) \in InBits(n) /\ Driver(n, c, p) \in Cells(n)
             /\ Driver(n, c, p) = n.drivers[PinOf(c, p)].cell
             /\ Driver(o, c, p) = o.drivers[PinOf(c, p)].cell
    BY KeptGate
  <2>2. \A p \in Reads(Tp(n, c)) : In(n, V, c, p) = In(o, w, c, p)
    BY <1>1, <2>1 DEF ReadsAs, In
  <2>3. Eval(n, V, Zeros, c) = Eval(o, w, Zeros, c)
    BY <2>1, <2>2, SameGate
  <2> QED BY <2>1, <2>3 DEF Solution
<1>3. w[a] = w[b] /\ a \in Cells(o) /\ b \in Cells(o) /\ b \in Cells(n)
  BY <1>2 DEF Evaluated
<1>4. Value(d, o, w, a) = w[b] /\ Remains(n, o) /\ HandedTo(n, b, d, a)
  BY <1>3 DEF Value, Rewritten, FoldedInto
<1> QED BY <1>3, <1>4, HandingKeepsReads

LEMMA CleanTurnReads ==
  ASSUME Specializable, Memoryless, SpecializeTypeInv, RewriteInv, CleanTurn
  PROVE  RewriteInv'
<1>1. /\ UNCHANGED <<running, specialized, folding, twin, orig>> /\ frozen' = frozen /\ ins' = ins
      /\ CP!Wired(def) /\ CP!Removes(def, def')
  BY CleanTurnFacts DEF folding, twin
<1>2. /\ def' = def \/ Dropped(def, def') \/ Merged(def, def')
      /\ Cells(def') \subseteq Cells(def)
  BY <1>1, RemovalLeaves
<1>3. /\ Inputs(def) = Inputs(orig) /\ specialized \subseteq Inputs(orig)
      /\ orig \in Circuits /\ Rewritten(def, orig)
  BY RewrittenFacts DEF SpecializeTypeInv
<1>4. Unread(def', specialized)
  <2>1. CASE Dropped(def, def')
    <3>1. \A b \in InBits(def') : b \in InBits(def) /\ def'.drivers[b] = def.drivers[b]
      BY <2>1, DroppedBits
    <3> QED BY <3>1 DEF RewriteInv, Unread
  <2>2. CASE Merged(def, def')
    <3>1. PICK a \in Evaluated(def), b \in Evaluated(def) : FoldedInto(def, b, def', a)
      BY <2>2 DEF Merged
    <3>2. a \notin specialized
      BY <1>3, <3>1 DEF Evaluated
    <3> QED BY <3>1, <3>2 DEF RewriteInv, Unread, FoldedInto, HandedTo
  <2> QED BY <1>2, <2>1, <2>2 DEF RewriteInv
<1>5. FrozenAreGone'
  BY <1>1, <1>2 DEF RewriteInv, FrozenAreGone
<1>6. ASSUME NEW w, Possible(orig, specialized, ins, frozen, w)
      PROVE  ReadsAs(def', orig, w) /\ FrozenLoads(orig, frozen, w)
  <2>1. ReadsAs(def, orig, w) /\ FrozenLoads(orig, frozen, w) /\ Solution(orig, w, Zeros)
    BY <1>6 DEF RewriteInv, ReadsInv, Possible
  <2>2. CASE Dropped(def, def')
    BY <2>1, <2>2, DroppedReads
  <2>3. CASE Merged(def, def')
    <3>1. PICK a \in Evaluated(def), b \in Evaluated(def) :
            /\ FoldedInto(def, b, def', a) /\ Reads(Tp(def, a)) = Reads(Tp(def, b))
            /\ \A p \in Reads(Tp(def, a)) : Driver(def, a, p) = Driver(def, b, p)
            /\ \A v, m : Eval(def, v, m, a) = Eval(def, v, m, b)
      BY <2>3 DEF Merged
    <3> QED BY <1>3, <2>1, <3>1, MergedReads
  <2> QED BY <1>2, <2>1, <2>2, <2>3
<1>7. ReadsInv'
  BY <1>1, <1>6 DEF ReadsInv
<1>8. (ClocksArePorts(orig) => ResetsAreHeld)' /\ (ins \in [Inputs(orig) -> Val])'
  BY <1>1 DEF RewriteInv, ResetsAreHeld
<1> QED BY <1>1, <1>4, <1>5, <1>7, <1>8 DEF RewriteInv

LEMMA TwinKeepsInputs ==
  ASSUME SpecializeTypeInv, RewriteInv, CallUpdate \/ UpdateTurn
  PROVE  ins' \in [Inputs(orig) -> Val] /\ \A c \in specialized : ins'[c] = ins[c]
<1>1. ins' = ins \/ TwinChanges
  BY DEF CallUpdate, UpdateTurn, twin, Orig!Clock
<1>2. ins \in [Inputs(orig) -> Val] /\ specialized \subseteq Inputs(orig)
  BY DEF RewriteInv, SpecializeTypeInv
<1>3. CASE TwinChanges
  <2>1. Orig!X \in Val /\ Fresh \subseteq Val
    BY OriginalOperators, SimulatorAssumption DEF X, Val
  <2>2. ins' \in [Inputs(orig) -> Val]
    BY <1>3, <2>1, OriginalOperators DEF TwinChanges, Orig!Change
  <2> QED BY <1>2, <1>3, <2>2 DEF TwinChanges, HeldOr
<1> QED BY <1>1, <1>2, <1>3

LEMMA NextKeepsReads ==
  ASSUME Specializable, Memoryless, SpecializeTypeInv, NothingStops, RewriteInv,
         [SpecializeNext]_allVars
  PROVE  RewriteInv'
<1>1. CASE CallUpdate \/ UpdateTurn
  <2>1. UNCHANGED <<def, orig, specialized, frozen>>
    <3>1. UNCHANGED <<orig, specialized, frozen>> /\ (Update \/ Running)
      BY <1>1 DEF CallUpdate, UpdateTurn, folding
    <3> QED BY <3>1, SimulatorQueuesCells DEF SpecializeTypeInv
  <2> QED BY <1>1, <2>1, TwinKeepsInputs, RewriteStays
<1>2. CASE \E c \in Inputs(def) : \E v \in Fresh \cup {value[c]} : SpecializePort(c, v)
  BY <1>2, SpecializePortReads
<1>3. CASE FoldTurn
  BY <1>3, FoldTurnReads DEF NothingStops, ClocksInv
<1>4. CASE CleanTurn
  BY <1>4, CleanTurnReads
<1>5. CASE \/ UNCHANGED allVars \/ PastIsMissing \/ BeginFolding \/ BeginDeleting \/ RefreshConstants
           \/ \E c \in CellId, v \in Fresh : CallSetFreshValue(c, v)
  <2>1. UNCHANGED <<def, orig, specialized, frozen, ins>>
    BY <1>5 DEF allVars, PastIsMissing, BeginFolding, BeginDeleting, RefreshConstants, CallSetFreshValue,
       SetFreshValue, folding, twin
  <2> QED BY <2>1, RewriteStays DEF RewriteInv
<1> QED BY <1>1, <1>2, <1>3, <1>4, <1>5 DEF SpecializeNext, Specializing

LEMMA InitReads ==
  ASSUME Specializable, SpecializeInit
  PROVE  RewriteInv
<1>1. /\ def = orig /\ def \in Circuits /\ WellFormed(def) /\ FullyDriven(def) /\ specialized = {}
      /\ \A c \in CellId : frozen[c] = Fold!NotConst
  BY SimulatorAssumption DEF SpecializeInit, Init
<1>2. ins \in [Inputs(orig) -> Val]
  <2>1. X \in Val
    BY DEF X, Val
  <2> QED BY <2>1, OriginalOperators DEF SpecializeInit, Orig!Init
<1>3. \A w : ReadsAs(def, orig, w)
  <2>1. \A b \in InBits(def) : def.drivers[b].cell \in Cells(def)
    BY <1>1, InputIsReceived
  <2> QED BY <1>1, <2>1 DEF ReadsAs, Value
<1>4. \A c \in Registers(orig) : frozen[c] = Fold!NotConst
  BY <1>1 DEF Registers, Cells
<1> QED BY <1>1, <1>2, <1>3, <1>4 DEF RewriteInv, ReadsInv, FrozenLoads, FrozenAreGone, ResetsAreHeld, Unread

-----------------------------------------------------------------------------
(* The values.  Between the updates of a client no cell that is left is stale *)
(* and unqueued; while the definition is rewritten the values are those of   *)
(* the original, up to the ports that are specialized and the constants that *)
(* the store does not know of yet.                                           *)
KeptRegs == \A c \in Registers(orig) : frozen[c] \in {Fold!NotConst, reg[c]}

ConstantsShown == stage = "client" => \A c \in Constants : value[c] = InitialValue(def, c)

Agreed(w) ==
  /\ Possible(orig, specialized, ins, frozen, w)
  /\ \A c \in (Cells(def) \cap Cells(orig)) \ specialized : w[c] = value[c]
  /\ \A c \in Registers(orig) : w[c] = reg[c]

UpToDateUnlessConst ==
  \A c \in Evaluated(def) :
    \/ \E p \in Reads(Tp(def, c)) : Driver(def, c, p) \in Constants
    \/ value[c] = Eval(def, value, mem, c)

Rewriting == {"ports", "folding", "done", "none"} \cup Deleting

ValuesAreSound ==
  /\ stage = "client" => StaleCellsArePending
  /\ stage = "changed" => UpToDateUnlessConst
  /\ stage \in Rewriting => \E w : Agreed(w)

ValuesInv == ConstantsShown /\ (KeptRegs => ValuesAreSound)

\* Values of the original that agree with the simulator on its ports and registers agree
\* with it on all its cells, when nothing is queued.
LEMMA ShownCells ==
  ASSUME Specializable, Memoryless, SpecializeTypeInv, RewriteInv, stage = "client", ConstantsShown,
         StaleCellsArePending, combChanges = {}, reread = {},
         NEW w, Possible(orig, specialized, ins, frozen, w),
         \A c \in Registers(def) : w[c] = value[c],
         \A c \in Inputs(orig) \ specialized : w[c] = value[c]
  PROVE  /\ \A c \in Cells(def) \ specialized : value[c] = Value(def, orig, w, c)
         /\ \A b \in InBits(def) : value[def.drivers[b].cell] = w[orig.drivers[b].cell]
<1>1. /\ orig \in Circuits /\ Rewritten(def, orig) /\ WellFormed(def) /\ FullyDriven(def) /\ Acyclic(def)
      /\ Inputs(def) = Inputs(orig) /\ Registers(def) \subseteq Registers(orig)
      /\ \A c \in Cells(def) : IF c \in Cells(orig) THEN def.type[c] = orig.type[c] ELSE Tp(def, c) = "CONST"
  BY RewrittenFacts DEF SpecializeTypeInv, Rewritten, Remains
<1>2. ReadsAs(def, orig, w) /\ Solution(orig, w, Zeros) /\ Unread(def, specialized)
  BY DEF RewriteInv, ReadsInv, Possible
<1> DEFINE D == {c \in Evaluated(def) : value[c] # Value(def, orig, w, c)}
<1>3. ASSUME NEW x \in Cells(def) \ specialized, x \notin D
      PROVE  value[x] = Value(def, orig, w, x)
  <2>1. CASE x \in Evaluated(def)
    BY <1>3, <2>1
  <2>2. CASE x \in Registers(def) \cup Inputs(def)
    BY <1>1, <1>3, <2>2 DEF Value, Registers, Inputs
  <2>3. CASE Tp(def, x) = "CONST"
    <3>1. value[x] = InitialValue(def, x)
      BY <1>3, <2>3 DEF ConstantsShown, Constants
    <3>2. InitialValue(def, x) = def.type[x].init[1]
      BY <1>3, <2>3 DEF InitialValue, Memories
    <3>3. x \in Cells(orig) => w[x] = def.type[x].init[1]
      BY <1>1, <1>2, <1>3, <2>3 DEF Solution, Tp
    <3> QED BY <3>1, <3>2, <3>3 DEF Value
  <2> QED BY <1>3, <2>1, <2>2, <2>3 DEF Evaluated
<1>4. \A b \in InBits(def) : def.drivers[b].cell \in Cells(def) \ specialized
  BY <1>1, <1>2, InputIsReceived DEF Unread
<1>5. ASSUME NEW c \in D, \A p \in Reads(Tp(def, c)) : Driver(def, c, p) \notin D
      PROVE  FALSE
  <2>1. /\ c \in Evaluated(def) /\ c \in Evaluated(orig)
        /\ Tp(def, c) \in CombTypes \ {"MEM"} /\ Tp(orig, c) = Tp(def, c)
        /\ \A p \in Reads(Tp(def, c)) :
             /\ PinOf(c, p) \in InBits(def)
             /\ Driver(def, c, p) = def.drivers[PinOf(c, p)].cell
             /\ Driver(orig, c, p) = orig.drivers[PinOf(c, p)].cell
    BY <1>1, KeptGate
  <2>2. \A p \in Reads(Tp(def, c)) : In(def, value, c, p) = In(orig, w, c, p)
    <3> SUFFICES ASSUME NEW p \in Reads(Tp(def, c))
                 PROVE  value[Driver(def, c, p)] = w[Driver(orig, c, p)]
      BY DEF In
    <3>1. value[Driver(def, c, p)] = Value(def, orig, w, Driver(def, c, p))
      BY <1>3, <1>4, <1>5, <2>1
    <3> QED BY <1>2, <2>1, <3>1 DEF ReadsAs
  <2>3. Eval(def, value, mem, c) = Eval(orig, w, Zeros, c)
    BY <2>1, <2>2, SameGate
  <2>4. value[c] = Eval(def, value, mem, c)
    BY <2>1 DEF StaleCellsArePending
  <2>5. Value(def, orig, w, c) = w[c] /\ w[c] = Eval(orig, w, Zeros, c)
    BY <1>2, <2>1 DEF Value, Solution, Evaluated
  <2> QED BY <2>3, <2>4, <2>5
<1>6. D = {}
  <2>1. D \in SUBSET Evaluated(def)
    OBVIOUS
  <2> HIDE DEF D
  <2> QED BY <1>1, <1>5, <2>1 DEF Acyclic
<1>7. \A c \in Cells(def) \ specialized : value[c] = Value(def, orig, w, c)
  BY <1>3, <1>6
<1> QED BY <1>2, <1>4, <1>7 DEF ReadsAs

\* What the original shows, without memories.
LEMMA OriginalWires ==
  ASSUME Specializable, Memoryless, NEW o \in Circuits, NEW in \in [Inputs(o) -> Val], NEW r,
         \A c \in Registers(o) : r[c] \in Val, NEW m
  PROVE  /\ Solution(o, Wires(o, in, r, m), Zeros)
         /\ \A c \in Registers(o) : Wires(o, in, r, m)[c] = r[c]
         /\ \A c \in Inputs(o) : Wires(o, in, r, m)[c] = in[c]
<1> DEFINE R == [c \in Registers(o) |-> r[c]]
           v == Wires(o, in, R, Zeros)
<1>1. WellFormed(o) /\ FullyDriven(o) /\ Acyclic(o) /\ o \in Net
  BY SimulatorAssumption DEF Specializable, WellFormed
<1>2. R \in [Registers(o) -> Val] /\ \A c \in Registers(o) : R[c] = r[c]
  OBVIOUS
<1>3. Zeros \in [CellId -> [Addr -> Val]]
  BY DEF Zeros, Val
<1> HIDE DEF R
<1>4. Solution(o, v, Zeros) /\ \A c \in Registers(o) : v[c] = R[c]
  BY <1>1, <1>2, <1>3, WiresAreSolutions
<1>5. Agree(o, in, R, Zeros, v, CellId) /\ v = [c \in CellId |-> v[c]]
  BY <1>1, WiresSolve
<1> HIDE DEF v
<1>6. ASSUME NEW c \in CellId
      PROVE  WireValue(o, in, R, Zeros, v, c) = WireValue(o, in, r, m, v, c)
  <2>1. CASE c \in Evaluated(o)
    <3>1. Tp(o, c) \in CombTypes \ {"MEM"}
      BY <1>1, <2>1, EvaluatedTypes, NoMemories
    <3>2. Eval(o, v, Zeros, c) = Eval(o, v, m, c)
      BY <3>1, SameGate
    <3> QED BY <2>1, <3>2 DEF WireValue
  <2>2. CASE c \notin Evaluated(o)
    BY <1>2, <2>2 DEF WireValue
  <2> QED BY <2>1, <2>2
<1>7. Agree(o, in, r, m, v, CellId)
  BY <1>5, <1>6 DEF Agree
<1>8. Wires(o, in, r, m) = v
  BY <1>1, <1>5, <1>7, WiresAreUnique
<1>9. \A c \in Inputs(o) : v[c] = in[c]
  <2>1. \A c \in Inputs(o) : c \in CellId /\ c \notin Evaluated(o)
    BY DEF Inputs, Cells, Evaluated
  <2> QED BY <1>5, <2>1 DEF Agree, WireValue
<1> QED BY <1>2, <1>4, <1>8, <1>9

\* At rest a simulator shows what the original makes of the ports that are held and of the
\* values of the others.
LEMMA IdleIsAgreed ==
  ASSUME Specializable, Memoryless, SpecializeTypeInv, RewriteInv, ValuesInv, KeptRegs,
         stage = "client", phase = "idle"
  PROVE  StaleCellsArePending /\ combChanges = {} /\ reread = {} /\ \E w : Agreed(w)
<1>1. /\ StaleCellsArePending /\ combChanges = {} /\ reread = {} /\ ConstantsShown
      /\ RegistersShown /\ TypeOK /\ orig \in Circuits
      /\ specialized \subseteq Inputs(orig) /\ Inputs(def) = Inputs(orig)
      /\ Registers(def) \subseteq Registers(orig) /\ ins \in [Inputs(orig) -> Val]
  BY RewrittenFacts DEF ValuesInv, ValuesAreSound, SpecializeTypeInv, StoreInv, QueuesDrained, RewriteInv
<1> DEFINE held == [c \in Inputs(orig) |-> IF c \in specialized THEN ins[c] ELSE value[c]]
           w == Wires(orig, held, reg, mem)
<1>2. held \in [Inputs(orig) -> Val]
  BY <1>1 DEF TypeOK, Inputs, Cells
<1>3. \A c \in specialized : held[c] = ins[c]
  BY <1>1
<1>4. \A c \in Inputs(orig) \ specialized : held[c] = value[c]
  OBVIOUS
<1> HIDE DEF held
<1>5. \A c \in Registers(orig) : reg[c] \in Val
  BY <1>1 DEF TypeOK, Registers, Cells
<1>6. /\ Solution(orig, w, Zeros)
      /\ \A c \in Registers(orig) : w[c] = reg[c]
      /\ \A c \in Inputs(orig) : w[c] = held[c]
  BY <1>1, <1>2, <1>5, OriginalWires
<1> HIDE DEF w
<1>7. Possible(orig, specialized, ins, frozen, w)
  BY <1>1, <1>3, <1>6 DEF Possible, KeptRegs
<1>8. \A c \in Registers(def) : w[c] = value[c]
  BY <1>1, <1>6 DEF RegistersShown
<1>9. \A c \in Inputs(orig) \ specialized : w[c] = value[c]
  BY <1>4, <1>6
<1>10. \A c \in Cells(def) \ specialized : value[c] = Value(def, orig, w, c)
  BY <1>1, <1>7, <1>8, <1>9, ShownCells
<1>11. Agreed(w)
  BY <1>6, <1>7, <1>10 DEF Agreed, Value
<1> QED BY <1>1, <1>11

\* A gate then is up to date, but for the constants the store does not know of.
LEMMA AgreedUpToDate ==
  ASSUME Specializable, Memoryless, SpecializeTypeInv, RewriteInv, NEW w, Agreed(w)
  PROVE  UpToDateUnlessConst
<1>1. /\ orig \in Circuits /\ Rewritten(def, orig) /\ WellFormed(def) /\ FullyDriven(def)
      /\ Inputs(def) = Inputs(orig) /\ specialized \subseteq Inputs(orig)
      /\ \A c \in Cells(def) : IF c \in Cells(orig) THEN def.type[c] = orig.type[c] ELSE Tp(def, c) = "CONST"
  BY RewrittenFacts DEF SpecializeTypeInv, Rewritten, Remains
<1>2. ReadsAs(def, orig, w) /\ Solution(orig, w, Zeros) /\ Unread(def, specialized)
  BY DEF RewriteInv, ReadsInv, Possible, Agreed
<1> SUFFICES ASSUME NEW c \in Evaluated(def), \A p \in Reads(Tp(def, c)) : Driver(def, c, p) \notin Constants
             PROVE  value[c] = Eval(def, value, mem, c)
  BY DEF UpToDateUnlessConst
<1>3. /\ c \in Evaluated(orig) /\ Tp(def, c) \in CombTypes \ {"MEM"} /\ Tp(orig, c) = Tp(def, c)
      /\ \A p \in Reads(Tp(def, c)) :
           /\ PinOf(c, p) \in InBits(def) /\ Driver(def, c, p) \in Cells(def)
           /\ Driver(def, c, p) = def.drivers[PinOf(c, p)].cell
           /\ Driver(orig, c, p) = orig.drivers[PinOf(c, p)].cell
  BY <1>1, KeptGate
<1>4. \A p \in Reads(Tp(def, c)) : In(def, value, c, p) = In(orig, w, c, p)
  <2> SUFFICES ASSUME NEW p \in Reads(Tp(def, c))
               PROVE  value[Driver(def, c, p)] = w[Driver(orig, c, p)]
    BY DEF In
  <2>1. Driver(def, c, p) \in (Cells(def) \cap Cells(orig)) \ specialized
    BY <1>1, <1>2, <1>3 DEF Unread, Constants
  <2>2. w[Driver(def, c, p)] = value[Driver(def, c, p)]
    BY <2>1 DEF Agreed
  <2>3. Value(def, orig, w, Driver(def, c, p)) = w[Driver(orig, c, p)]
    BY <1>2, <1>3 DEF ReadsAs
  <2> QED BY <2>1, <2>2, <2>3 DEF Value
<1>5. Eval(def, value, mem, c) = Eval(orig, w, Zeros, c)
  BY <1>3, <1>4, SameGate
<1>6. w[c] = value[c]
  <2>1. c \in (Cells(def) \cap Cells(orig)) \ specialized
    BY <1>1, <1>3 DEF Evaluated
  <2> QED BY <2>1 DEF Agreed
<1> QED BY <1>2, <1>3, <1>5, <1>6 DEF Solution

\* A definition is rewritten under the values.
LEMMA AgreedStays ==
  ASSUME NEW w, Agreed(w), UNCHANGED <<value, reg, ins, specialized, orig>>, KeptRegs',
         Cells(def') \cap Cells(orig) \subseteq Cells(def)
  PROVE  Agreed(w)'
<1>1. Possible(orig, specialized, ins, frozen', w)
  BY DEF Agreed, Possible, KeptRegs
<1> QED BY <1>1 DEF Agreed

LEMMA SpecializePortValues ==
  ASSUME Specializable, Memoryless, SpecializeTypeInv, RewriteInv, ValuesInv, NEW c \in Inputs(def),
         NEW v \in Fresh \cup {value[c]}, SpecializePort(c, v)
  PROVE  ValuesInv'
<1>1. /\ c \in Inputs(orig) /\ c \in Cells(def) /\ c \notin specialized
      /\ phase = "idle" /\ UNCHANGED <<value, reg, mem, frozen, orig>>
      /\ stage \in {"client", "ports", "changed"}
      /\ stage' = IF stage # "changed" /\ v = value[c] THEN "ports" ELSE "changed"
      /\ specialized' = specialized \cup {c} /\ ins' = [ins EXCEPT ![c] = v]
      /\ HandedTo(def, c, def', def.next)
      /\ \A x \in Cells(def') \cap Cells(orig) : x \in Cells(def) /\ def'.type[x] = def.type[x]
  BY SpecializePortFacts DEF running, folding, store
<1>2. ins \in [Inputs(orig) -> Val] /\ specialized \subseteq Inputs(orig) /\ c \in Cells(orig)
  BY <1>1 DEF RewriteInv, SpecializeTypeInv, Inputs
<1>3. ConstantsShown'
  BY <1>1 DEF ConstantsShown
<1> SUFFICES ASSUME KeptRegs
             PROVE  ValuesAreSound'
  BY <1>1, <1>3 DEF ValuesInv, KeptRegs
<1>4. stage \in {"client", "ports"} => \E w : Agreed(w)
  BY <1>1, IdleIsAgreed DEF ValuesInv, ValuesAreSound, Rewriting
<1>5. CASE stage' = "ports"
  <2>1. PICK w : Agreed(w)
    BY <1>1, <1>4, <1>5
  <2>2. v = value[c] /\ w[c] = v
    BY <1>1, <1>2, <1>5, <2>1 DEF Agreed
  <2>3. Possible(orig, specialized \cup {c}, ins', frozen, w)
    BY <1>1, <1>2, <2>1, <2>2 DEF Agreed, Possible
  <2>4. Agreed(w)'
    BY <1>1, <2>1, <2>3 DEF Agreed
  <2> QED BY <1>5, <2>4 DEF ValuesAreSound
<1>6. CASE stage' = "changed"
  <2>1. UpToDateUnlessConst
    BY <1>1, <1>4, AgreedUpToDate DEF ValuesInv, ValuesAreSound
  <2>2. UpToDateUnlessConst'
    <3> SUFFICES ASSUME NEW x \in Evaluated(def'),
                        \A p \in Reads(Tp(def', x)) : Driver(def', x, p) \notin Constants'
                 PROVE  value[x] = Eval(def', value, mem, x)
      BY <1>1 DEF UpToDateUnlessConst
    <3>1. /\ WellFormed(def') /\ FullyDriven(def') /\ x \in Cells(def') /\ def'.type[def.next] = Fold!Const(v)
          /\ def' \in Net /\ Rewritten(def', orig) /\ orig \in Circuits
      BY <1>1, SpecializePortFacts DEF HandedTo, WellFormed, Constantly, SpecializeTypeInv, Evaluated
    <3>2. x \in Evaluated(def) /\ Tp(def, x) = Tp(def', x) /\ Tp(def', x) \in CombTypes \ {"MEM"}
      <4>1. x \in Evaluated(orig) /\ Tp(def', x) \in CombTypes \ {"MEM"}
        BY <3>1, KeptGate
      <4>2. x \in Cells(def) /\ def'.type[x] = def.type[x]
        BY <1>1, <3>1, <4>1 DEF Evaluated
      <4> QED BY <3>1, <4>1, <4>2 DEF Evaluated, Inputs, Registers, Tp
    <3>3. ASSUME NEW p \in Reads(Tp(def', x))
          PROVE  Driver(def', x, p) = Driver(def, x, p) /\ Driver(def, x, p) \notin Constants
      <4>1. PinOf(x, p) \in InBits(def')
        BY <3>1, ReadsCells
      <4>2. Driver(def', x, p) = IF Driver(def, x, p) = c THEN def.next ELSE Driver(def, x, p)
        BY <1>1, <4>1 DEF HandedTo, Driver
      <4>3. def.next \in Constants'
        BY <1>1, <3>1 DEF Constants, HandedTo, Tp, Fold!Const
      <4>4. Driver(def', x, p) = Driver(def, x, p) /\ Driver(def, x, p) # c
        BY <3>3, <4>2, <4>3
      <4>5. ASSUME NEW d \in Constants, d # c
            PROVE  d \in Constants'
        BY <1>1, <4>5 DEF Constants, HandedTo, Tp
      <4> QED BY <4>4, <4>5
    <3>4. value[x] = Eval(def, value, mem, x)
      BY <2>1, <3>2, <3>3 DEF UpToDateUnlessConst
    <3>5. \A p \in Reads(Tp(def', x)) : In(def', value, x, p) = In(def, value, x, p)
      BY <3>3 DEF In
    <3>6. Eval(def', value, mem, x) = Eval(def, value, mem, x)
      BY <3>2, <3>5, SameGate
    <3> QED BY <3>4, <3>6
  <2> QED BY <1>6, <2>2 DEF ValuesAreSound, Rewriting, Deleting
<1> QED BY <1>1, <1>5, <1>6

\* refreshConstants brings the values up to date, or queues whoever has to be.
LEMMA RefreshConstantsValues ==
  ASSUME Specializable, Memoryless, SpecializeTypeInv, RewriteInv, ValuesInv, RefreshConstants
  PROVE  ValuesInv'
<1>1. /\ stage \in {"ports", "changed", "none"} /\ stage' = "client"
      /\ UNCHANGED <<def, reg, mem, frozen, orig, reread>>
      /\ value' = [c \in CellId |-> IF c \in Constants THEN InitialValue(def, c) ELSE value[c]]
      /\ combChanges' = UNION {SeqReceivers(def, c) \cup CombReceivers(def, c) : c \in Constants}
  BY DEF RefreshConstants, folding
<1>2. Constants \subseteq CellId /\ Circuit
  BY DEF Constants, Cells, SpecializeTypeInv, StoreInv
<1>3. ConstantsShown'
  BY <1>1, <1>2 DEF ConstantsShown, Constants
<1> SUFFICES ASSUME KeptRegs
             PROVE  StaleCellsArePending'
  BY <1>1, <1>3 DEF ValuesInv, KeptRegs, ValuesAreSound, Rewriting, Deleting
<1>4. UpToDateUnlessConst
  BY <1>1, AgreedUpToDate DEF ValuesInv, ValuesAreSound, Rewriting
<1> SUFFICES ASSUME NEW c \in Evaluated(def), value'[c] # Eval(def, value', mem, c)
             PROVE  \E s \in combChanges' : s.cell = c
  BY <1>1 DEF StaleCellsArePending
<1>5. \A p \in Reads(Tp(def, c)) : /\ Driver(def, c, p) \in Cells(def)
                                   /\ PinOf(c, p) \in OutReceivers(def, Driver(def, c, p))
                                   /\ p \notin {"CLK", "ARST"}
  BY <1>2, ReadPorts
<1>6. c \in CellId /\ Tp(def, c) \in CombTypes /\ c \notin Constants
  BY <1>2, CircuitFacts, EvaluatedTypes DEF Constants, CombTypes, Unary, Binary, Comparator
<1>7. CASE \E p \in Reads(Tp(def, c)) : Driver(def, c, p) \in Constants
  <2>1. PICK p \in Reads(Tp(def, c)) : Driver(def, c, p) \in Constants
    BY <1>7
  <2>2. PinOf(c, p) \in {b \in OutReceivers(def, Driver(def, c, p)) : b.port \notin {"CLK", "ARST"}}
    BY <1>5, <2>1 DEF PinOf
  <2>3. SigPort(PinOf(c, p)) \in CombReceivers(def, Driver(def, c, p))
    BY <2>2 DEF CombReceivers
  <2>4. SigPort(PinOf(c, p)).cell = c
    BY DEF SigPort, PinOf
  <2> QED BY <1>1, <2>1, <2>3, <2>4
<1>8. CASE \A p \in Reads(Tp(def, c)) : Driver(def, c, p) \notin Constants
  <2>1. value[c] = Eval(def, value, mem, c) /\ value'[c] = value[c]
    BY <1>1, <1>4, <1>6, <1>8 DEF UpToDateUnlessConst
  <2>2. \A p \in Reads(Tp(def, c)) : In(def, value', c, p) = In(def, value, c, p)
    BY <1>1, <1>2, <1>5, <1>8, CircuitFacts DEF In
  <2>3. Eval(def, value', mem, c) = Eval(def, value, mem, c)
    BY <1>6, <2>2, EvalDependsOnReads
  <2> QED BY <2>1, <2>3
<1> QED BY <1>7, <1>8

\* The simulator leaves the constants, and the registers that are gone.
LEMMA SimulatorLeaves ==
  ASSUME StoreInv, Running \/ Update
  PROVE  /\ \A c \in Constants : value'[c] = value[c]
         /\ \A c \in CellId \ Registers(def) : reg'[c] = reg[c]
<1>1. \A c \in Constants : c \in CellId /\ c \notin Inputs(def) \cup Evaluated(def) \cup Registers(def)
  BY DEF Constants, Cells, Inputs, Evaluated, Registers
<1>2. TypeOK
  BY DEF StoreInv
<1>3. CASE Update
  BY <1>1, <1>3 DEF Update, Signal
<1>4. CASE CombStep
  <2> DEFINE s == First(combChanges)
  <2>1. CASE s.cell \in Evaluated(def)
    BY <1>1, <1>4, <2>1 DEF CombStep, UpdatePort, Signal
  <2>2. CASE s.cell \notin Evaluated(def)
    BY <1>4, <2>2 DEF CombStep
  <2> QED BY <2>1, <2>2
<1>5. CASE SeqStep
  <2> DEFINE loading == {c \in Registers(def) \cap Clocked : NextReg(c) # reg[c]}
  <2>1. /\ Signal(loading, value, reg', {}, {})
        /\ reg' = [c \in CellId |-> IF c \in loading THEN NextReg(c) ELSE reg[c]]
    BY <1>5 DEF SeqStep
  <2>2. loading \subseteq Registers(def)
    OBVIOUS
  <2> HIDE DEF loading
  <2> QED BY <1>1, <2>1, <2>2 DEF Signal
<1>6. CASE RereadStep
  <2>1. PICK m \in reread : UpdatePort(m, combChanges) /\ reg' = reg
    BY <1>6 DEF RereadStep
  <2>2. m \in Evaluated(def)
    BY <1>2, <2>1 DEF TypeOK, Memories, Evaluated, Inputs, Registers
  <2> QED BY <1>1, <2>1, <2>2 DEF UpdatePort, Signal
<1>7. CASE StoreAborts \/ LoopEnd
  BY <1>7 DEF StoreAborts, LoopEnd, store
<1> QED BY <1>3, <1>4, <1>5, <1>6, <1>7 DEF Running

\* A register that was folded is none of the definition's, and keeps its state.
LEMMA KeptBefore ==
  ASSUME SpecializeTypeInv, RewriteInv, Running \/ Update, UNCHANGED <<orig, frozen>>, KeptRegs'
  PROVE  KeptRegs
<1>1. ASSUME NEW c \in Registers(orig), frozen[c] # Fold!NotConst
      PROVE  frozen[c] = reg[c]
  <2>1. c \in CellId \ Registers(def)
    BY <1>1 DEF RewriteInv, FrozenAreGone, Registers, Cells
  <2>2. reg'[c] = reg[c]
    BY <2>1, SimulatorLeaves DEF SpecializeTypeInv
  <2> QED BY <1>1, <2>2 DEF KeptRegs
<1> QED BY <1>1 DEF KeptRegs

LEMMA SimulatorValues ==
  ASSUME Specializable, Memoryless, SpecializeTypeInv, RewriteInv, ValuesInv,
         CallUpdate \/ UpdateTurn \/ \E c \in CellId, v \in Fresh : CallSetFreshValue(c, v)
  PROVE  ValuesInv'
<1>1. CASE CallUpdate \/ UpdateTurn
  <2>1. /\ Running \/ Update
        /\ UNCHANGED <<orig, frozen>> /\ stage = "client" /\ stage' = "client"
    BY <1>1 DEF CallUpdate, UpdateTurn, folding
  <2>2. StoreInv /\ Keeps /\ def' = def
    BY <2>1, UpdateStep, RunningStep, SimulatorQueuesCells DEF SpecializeTypeInv
  <2>3. ConstantsShown'
    BY <2>1, <2>2, SimulatorLeaves DEF ValuesInv, ConstantsShown, Constants
  <2>4. KeptRegs' => KeptRegs
    BY <2>1, KeptBefore
  <2> QED BY <2>1, <2>2, <2>3, <2>4 DEF ValuesInv, ValuesAreSound, Keeps, Rewriting, Deleting
<1>2. CASE \E c \in CellId, v \in Fresh : CallSetFreshValue(c, v)
  <2>1. /\ UNCHANGED <<def, value, reg, mem, combChanges, reread, frozen, orig, ins, specialized, stage>>
        /\ \E c \in CellId, v \in Fresh : SetFreshValue(c, v)
    BY <1>2 DEF CallSetFreshValue, SetFreshValue, store, folding, twin
  <2>2. KeptRegs' = KeptRegs /\ ConstantsShown' = ConstantsShown
    BY <2>1 DEF KeptRegs, ConstantsShown, Constants
  <2>3. StaleCellsArePending' = StaleCellsArePending /\ UpToDateUnlessConst' = UpToDateUnlessConst
    BY <2>1 DEF StaleCellsArePending, UpToDateUnlessConst, Constants
  <2>4. \A w : Agreed(w) => Agreed(w)'
    BY <2>1 DEF Agreed
  <2> QED BY <2>1, <2>2, <2>3, <2>4 DEF ValuesInv, ValuesAreSound
<1> QED BY <1>1, <1>2

LEMMA NextKeepsValues ==
  ASSUME Specializable, Memoryless, SpecializeTypeInv, NothingStops, NothingStops', RewriteInv,
         ValuesInv, [SpecializeNext]_allVars
  PROVE  ValuesInv'
<1>1. CASE UNCHANGED allVars
  <2>1. UNCHANGED <<def, value, reg, mem, combChanges, reread, frozen, orig, ins, specialized, stage>>
    BY <1>1 DEF allVars, running, store, folding, twin
  <2>2. KeptRegs' = KeptRegs /\ ConstantsShown' = ConstantsShown
    BY <2>1 DEF KeptRegs, ConstantsShown, Constants
  <2>3. StaleCellsArePending' = StaleCellsArePending /\ UpToDateUnlessConst' = UpToDateUnlessConst
    BY <2>1 DEF StaleCellsArePending, UpToDateUnlessConst, Constants
  <2>4. \A w : Agreed(w) => Agreed(w)'
    BY <2>1 DEF Agreed
  <2> QED BY <2>1, <2>2, <2>3, <2>4 DEF ValuesInv, ValuesAreSound
<1>2. CASE CallUpdate \/ UpdateTurn \/ \E c \in CellId, v \in Fresh : CallSetFreshValue(c, v)
  BY <1>2, SimulatorValues
<1>3. CASE PastIsMissing
  BY <1>3 DEF PastIsMissing, ValuesInv, ConstantsShown, ValuesAreSound, Rewriting, Deleting
<1>4. CASE \E c \in Inputs(def) : \E v \in Fresh \cup {value[c]} : SpecializePort(c, v)
  BY <1>4, SpecializePortValues
<1>5. CASE RefreshConstants
  BY <1>5, RefreshConstantsValues
<1>6. CASE BeginFolding \/ FoldTurn \/ BeginDeleting \/ CleanTurn
  <2>1. /\ UNCHANGED <<value, reg, ins, specialized, orig>>
        /\ stage \in {"client", "ports", "folding", "done"} \cup Deleting /\ phase = "idle"
        /\ stage' \in {"folding", "done", "none"} \cup Deleting
    <3>1. CASE BeginFolding \/ BeginDeleting
      BY <3>1 DEF BeginFolding, BeginDeleting, SpecializeTypeInv, RewritesBetweenUpdates, running, store,
         twin, Deleting
    <3>2. CASE FoldTurn
      <4>1. stage' # "unfolded"
        BY DEF NothingStops, FoldingLosesNone
      <4> QED BY <3>2, <4>1, FoldTurnFacts DEF running, store, twin
    <3>3. CASE CleanTurn
      BY <3>3, CleanTurnFacts DEF running, store, twin
    <3> QED BY <1>6, <3>1, <3>2, <3>3
  <2>2. Cells(def') \cap Cells(orig) \subseteq Cells(def) /\ (KeptRegs' => KeptRegs)
    <3>1. CASE BeginFolding \/ BeginDeleting
      BY <3>1 DEF BeginFolding, BeginDeleting, running, store, folding, KeptRegs
    <3>2. CASE FoldTurn
      <4>1. CASE UNCHANGED <<def, frozen>>
        BY <2>1, <4>1 DEF KeptRegs
      <4>2. ASSUME NEW c \in Cells(def), NEW e, FoldedCell(def, orig, frozen, c, e, def', frozen')
            PROVE  Cells(def') \cap Cells(orig) \subseteq Cells(def) /\ (KeptRegs' => KeptRegs)
        <5>1. Cells(def') \cap Cells(orig) \subseteq Cells(def)
          BY <4>2 DEF FoldedCell, FoldedInto, HandedTo
        <5>2. ASSUME NEW d \in Registers(orig), frozen[d] # Fold!NotConst
              PROVE  frozen'[d] = frozen[d]
          <6>1. d \in CellId /\ d # c
            BY <5>2 DEF RewriteInv, FrozenAreGone, Registers, Cells
          <6> QED BY <4>2, <6>1 DEF FoldedCell, SpecializeTypeInv
        <5> QED BY <2>1, <5>1, <5>2 DEF KeptRegs
      <4> QED BY <3>2, <4>1, <4>2, FoldTurnFolds
    <3>3. CASE CleanTurn
      BY <3>3, CleanTurnFacts, RemovalLeaves DEF running, store, folding, KeptRegs
    <3> QED BY <1>6, <3>1, <3>2, <3>3
  <2>3. ConstantsShown'
    BY <2>1 DEF ConstantsShown, Deleting
  <2>4. ASSUME KeptRegs'
        PROVE  \E w : Agreed(w)'
    <3>1. \E w : Agreed(w)
      BY <2>1, <2>2, <2>4, IdleIsAgreed DEF ValuesInv, ValuesAreSound, Rewriting
    <3> QED BY <2>1, <2>2, <2>4, <3>1, AgreedStays
  <2> QED BY <2>1, <2>3, <2>4 DEF ValuesInv, ValuesAreSound, Rewriting, Deleting
<1> QED BY <1>1, <1>2, <1>3, <1>4, <1>5, <1>6 DEF SpecializeNext, Specializing

LEMMA InitValues ==
  ASSUME Specializable, SpecializeInit
  PROVE  ValuesInv
<1>1. /\ StaleCellsArePending /\ stage = "client"
      /\ value = [c \in CellId |-> InitialValue(def, c)]
  BY InitIInv DEF SpecializeInit, Init, IInv
<1> QED BY <1>1 DEF ValuesInv, ValuesAreSound, ConstantsShown, Constants, Cells, Rewriting, Deleting

-----------------------------------------------------------------------------
(* The run of the original beside the simulator, where clocks are ports.      *)
LEMMA MoreOriginalOperators ==
  /\ Orig!Addr = Addr
  /\ \A n : Orig!Registers(n) = Registers(n) /\ Orig!Memories(n) = Memories(n)
  /\ \A n, c : Orig!InitialValue(n, c) = InitialValue(n, c)
  /\ \A n, c, p : Orig!Driver(n, c, p) = Driver(n, c, p)
  /\ \A n, v, c, p : Orig!In(n, v, c, p) = In(n, v, c, p)
  /\ \A p, o, w : Orig!Edge(p, o, w) = Edge(p, o, w)
BY DEF Orig!CellId, CellId, Orig!Addr, Addr, Orig!Val, Val, Orig!X, X,
       Orig!Registers, Registers, Orig!Memories, Memories, Orig!Cells, Cells, Orig!NoType, NoType,
       Orig!Tp, Tp, Orig!PinOf, PinOf, Orig!InitialValue, InitialValue, Orig!Driver, Driver,
       Orig!In, In, Orig!Edge, Edge

LEMMA OriginalHasTheWires ==
  \A n, in, r, m : Orig!Wires(n, in, r, m) = Wires(n, in, r, m)
BY DEF Orig!Wires, Wires, Orig!WireValue, WireValue, Orig!Evaluated, Evaluated,
       Orig!Inputs, Inputs, Orig!Registers, Registers, Orig!Memories, Memories,
       Orig!CellId, CellId, Orig!Cells, Cells, Orig!NoType, NoType, Orig!Tp, Tp,
       Orig!InitialValue, InitialValue, Orig!X, X, Orig!Eval, Eval, Orig!In, In,
       Orig!Driver, Driver, Orig!PinOf, PinOf, Orig!QNot, QNot, Orig!QAnd, QAnd, Orig!QOr, QOr,
       Orig!QXor, QXor, Orig!QEquals, QEquals, Orig!QLess, QLess, Orig!Bool, Bool,
       Orig!IsBinary, IsBinary

ClockPorts(n) == {c \in Inputs(n) : SeqReceivers(n, c) # {}}

LEMMA OriginalClockPorts == \A n : Orig!Clocks(n) = ClockPorts(n)
BY OriginalOperators DEF Orig!Clocks, ClockPorts

\* The ports that are not specialized are what they are in the original.
InputsFollowed == \A c \in Inputs(orig) \ specialized : ins[c] = value[c]

\* A clock of the original moved where one of the simulator did, whose receivers are queued.
ClocksFollowed ==
  pc = "clocked" =>
    \A c \in ClockPorts(orig) :
      IF c \in specialized THEN old[c] = ins[c]
      ELSE /\ SeqReceivers(def, c) # {} => old[c] = past[c]
           /\ SeqReceivers(def, c) \subseteq seqChanges \/ old[c] = ins[c]

\* The states that are left, and those that are folded, are those of the original.
RegistersFollowed ==
  KeptRegs => \A c \in Registers(orig) :
                c \in Cells(def) \/ frozen[c] # Fold!NotConst => origReg[c] = reg[c]

TwinInv ==
  /\ InputsFollowed /\ ClocksFollowed /\ RegistersFollowed
  /\ \A c \in Registers(orig) : origReg[c] \in Val
  /\ pc \in {"rest", "clocked"}
  /\ pc = "rest" => seqChanges = {}
  /\ pc = "clocked" => stage = "client" /\ phase = "comb"

\* What clocks something in what is left, and is a port, is a clock of the original.
LEMMA LiveClock ==
  ASSUME Specializable, SpecializeTypeInv, ClockedAlike(def, orig, specialized, ins),
         NEW c \in Inputs(def), SeqReceivers(def, c) # {}
  PROVE  c \in ClockPorts(orig) \ specialized
<1>1. /\ Inputs(def) = Inputs(orig) /\ WellFormed(def) /\ c \in CellId /\ c \in Cells(orig)
      /\ Tp(def, c) = "PORT"
  BY RewrittenFacts DEF SpecializeTypeInv, Inputs, Cells
<1>2. c \in ClockPorts(orig)
  BY <1>1, ClockedAlikeIsQuiet DEF ClockPorts, Constants
<1>3. PICK b \in ClockBits(def) : def.drivers[b].cell = c
  BY <1>1, ClocksDrive
<1>4. orig.drivers[b].cell \notin specialized /\ orig.drivers[b].cell = c
  BY <1>1, <1>3 DEF ClockedAlike
<1> QED BY <1>2, <1>4

\* The values of the original, when the simulator has nothing to evaluate.
LEMMA TwinWires ==
  ASSUME Specializable, Memoryless, SpecializeTypeInv, RewriteInv, ValuesInv, TwinInv, KeptRegs,
         stage = "client", combChanges = {}, reread = {}
  PROVE  LET w == Wires(orig, ins, origReg, origMem)
         IN  /\ Possible(orig, specialized, ins, frozen, w)
             /\ \A c \in Cells(def) \ specialized : value[c] = Value(def, orig, w, c)
             /\ \A b \in InBits(def) : value[def.drivers[b].cell] = w[orig.drivers[b].cell]
<1> DEFINE w == Wires(orig, ins, origReg, origMem)
<1>1. /\ StaleCellsArePending /\ ConstantsShown /\ RegistersShown /\ orig \in Circuits
      /\ specialized \subseteq Inputs(orig) /\ Registers(def) \subseteq Registers(orig)
      /\ ins \in [Inputs(orig) -> Val]
  BY RewrittenFacts DEF ValuesInv, ValuesAreSound, SpecializeTypeInv, StoreInv, RewriteInv
<1>2. \A c \in Registers(orig) : origReg[c] \in Val
  BY DEF TwinInv
<1>3. /\ Solution(orig, w, Zeros)
      /\ \A c \in Registers(orig) : w[c] = origReg[c]
      /\ \A c \in Inputs(orig) : w[c] = ins[c]
  BY <1>1, <1>2, OriginalWires
<1> HIDE DEF w
<1>4. \A c \in Registers(orig) : c \in Cells(def) \/ frozen[c] # Fold!NotConst => origReg[c] = reg[c]
  BY DEF TwinInv, RegistersFollowed
<1>5. Possible(orig, specialized, ins, frozen, w)
  BY <1>1, <1>3, <1>4 DEF Possible, KeptRegs
<1>6. \A c \in Registers(def) : w[c] = value[c]
  BY <1>1, <1>3, <1>4 DEF RegistersShown, Registers
<1>7. \A c \in Inputs(orig) \ specialized : w[c] = value[c]
  BY <1>3 DEF TwinInv, InputsFollowed
<1>8. /\ \A c \in Cells(def) \ specialized : value[c] = Value(def, orig, w, c)
      /\ \A b \in InBits(def) : value[def.drivers[b].cell] = w[orig.drivers[b].cell]
  BY <1>1, <1>5, <1>6, <1>7, ShownCells
<1> QED BY <1>5, <1>8 DEF w

\* The edges of the original are those of what is left, and queued.
LEMMA TwinEdges ==
  ASSUME Specializable, SpecializeTypeInv, ClocksInv, ConstantsShown, TwinInv, pc = "clocked",
         NEW c \in Registers(def), NEW p, p = "CLK" \/ (p = "ARST" /\ Tp(def, c) = "REG_ARST"),
         NEW positive
  PROVE  /\ Edge(positive, old[Driver(orig, c, p)], ins[Driver(orig, c, p)]) = EdgeOn(c, p, positive)
         /\ c \notin Clocked => ~EdgeOn(c, p, positive)
<1> DEFINE b == PinOf(c, p)
           k == Driver(orig, c, p)
           d == Driver(def, c, p)
<1>1. /\ WellFormed(def) /\ FullyDriven(def) /\ WellFormed(orig) /\ FullyDriven(orig)
      /\ Inputs(def) = Inputs(orig) /\ orig \in Circuits /\ Rewritten(def, orig)
      /\ \A x \in Cells(def) : x \notin Cells(orig) => Tp(def, x) = "CONST"
  BY RewrittenFacts DEF SpecializeTypeInv, Rewritten, Remains
<1>2. c \in Cells(def) /\ Tp(def, c) \in {"REG", "REG_ARST"}
  BY DEF Registers
<1>3. p \in DOMAIN PortWidths(def.type[c])
  BY <1>2 DEF Tp, PortWidths, Comparator, Binop, ReduceOp, Unop
<1>4. b \in InBits(def)
  BY <1>1, <1>2, <1>3, PortIsDriven
<1>5. b \in ClockBits(def) /\ b \in ClockBits(orig)
  BY <1>1, <1>4, KeptBits DEF ClockBits, PinOf
<1>6. /\ d = def.drivers[b].cell /\ k = orig.drivers[b].cell
      /\ d \in Cells(def) /\ SeqReceivers(def, d) # {} /\ SigPort(b) \in SeqReceivers(def, d)
      /\ SeqReceivers(orig, k) # {} /\ (SigPort(b)).cell = c
  BY <1>1, <1>5, ClockIsDriven DEF Driver, SigPort, PinOf
<1>7. /\ k \in Inputs(orig)
      /\ IF k \in specialized THEN d \in Cells(def) \ Cells(orig) ELSE d = k
  BY <1>5, <1>6 DEF ClocksInv, ClockedAlike
<1>8. k \in ClockPorts(orig)
  BY <1>6, <1>7 DEF ClockPorts
<1>9. EdgeOn(c, p, positive) = Edge(positive, past[d], value[d])
  BY DEF EdgeOn, In
<1> HIDE DEF b, k, d
<1>10. CASE k \in specialized
  <2>1. old[k] = ins[k]
    BY <1>8, <1>10 DEF TwinInv, ClocksFollowed
  <2>2. d \in Constants
    BY <1>1, <1>7, <1>10 DEF Constants
  <2>3. past[d] = value[d]
    BY <1>6, <2>2 DEF ClocksInv, ConstantsPast, ConstantsShown, TwinInv
  <2>4. Edge(positive, old[k], ins[k]) = FALSE /\ Edge(positive, past[d], value[d]) = FALSE
    BY <2>1, <2>3 DEF Edge
  <2> QED BY <1>9, <2>4 DEF k
<1>11. CASE k \notin specialized
  <2>1. d = k /\ old[k] = past[d] /\ ins[k] = value[d]
    BY <1>6, <1>7, <1>8, <1>11 DEF TwinInv, ClocksFollowed, InputsFollowed
  <2>2. c \notin Clocked => old[k] = ins[k]
    BY <1>6, <1>8, <1>11, <2>1 DEF TwinInv, ClocksFollowed, Clocked
  <2>3. c \notin Clocked => ~Edge(positive, past[d], value[d])
    BY <2>1, <2>2 DEF Edge
  <2> QED BY <1>9, <2>1, <2>3 DEF k
<1> QED BY <1>10, <1>11

LEMMA TwinInit ==
  ASSUME Specializable, SpecializeInit, ClocksArePorts(orig)
  PROVE  TwinInv
<1>1. /\ def = orig /\ def \in Circuits /\ specialized = {} /\ def \in Net /\ seqChanges = {}
      /\ \A c \in CellId : value[c] = InitialValue(def, c) /\ frozen[c] = Fold!NotConst
      /\ \A c \in CellId : reg[c] = IF c \in Registers(def) THEN InitialValue(def, c) ELSE X
  BY SimulatorAssumption DEF SpecializeInit, Init, WellFormed
<1>2. /\ \A c \in Inputs(orig) : ins[c] = X /\ pc = "rest"
      /\ \A c \in CellId : origReg[c] = IF c \in Registers(orig) THEN InitialValue(orig, c) ELSE X
      /\ pc = "rest"
  BY OriginalOperators, MoreOriginalOperators DEF SpecializeInit, Orig!Init
<1>3. \A c \in Registers(orig) : c \in CellId /\ InitialValue(orig, c) \in Val
  <2>1. \A c \in Registers(orig) : c \in CellId
    BY DEF Registers, Cells
  <2> QED BY <1>1, <2>1, InitialVal
<1>4. \A c \in Inputs(orig) : c \in CellId /\ InitialValue(orig, c) = X
  BY DEF InitialValue, Inputs, Memories, Tp, Cells
<1>5. InputsFollowed
  BY <1>1, <1>2, <1>4 DEF InputsFollowed
<1>6. RegistersFollowed
  BY <1>1, <1>2, <1>3 DEF RegistersFollowed
<1> QED BY <1>1, <1>2, <1>3, <1>5, <1>6 DEF TwinInv, ClocksFollowed

\* update sets the ports of both.
LEMMA CallUpdateTwin ==
  ASSUME Specializable, SpecializeTypeInv, RewriteInv, ClocksInv, TwinInv, CallUpdate,
         ClocksArePorts(orig)
  PROVE  TwinInv'
<1>1. /\ Update /\ TwinChanges /\ stage = "client" /\ stage' = "client"
      /\ UNCHANGED <<specialized, frozen, orig>>
  BY DEF CallUpdate, folding
<1>2. /\ pc = "rest" /\ UNCHANGED <<origReg, origMem>> /\ pc' \in {"rest", "clocked"}
      /\ \A c \in Inputs(orig) : ins'[c] = HeldOr(c, PortLast(c))
      /\ \A c \in ClockPorts(orig) : old'[c] = HeldOr(c, PortMid(c))
      /\ pc' = "rest" <=> \A c \in ClockPorts(orig) : old'[c] = ins[c] /\ ins'[c] = ins[c]
  BY <1>1, OriginalClockPorts DEF TwinChanges, Orig!Change
<1>3. /\ TypeOK /\ seqChanges = {} /\ Inputs(def) = Inputs(orig) /\ Inputs(orig) \subseteq CellId
      /\ ClockedAlike(def, orig, specialized, ins) /\ specialized \subseteq Inputs(orig)
  BY <1>2, RewrittenFacts DEF TwinInv, SpecializeTypeInv, StoreInv, ClocksInv, Inputs, Cells
<1>4. /\ def' = def /\ reg' = reg /\ phase' = "comb"
      /\ \A c \in Inputs(def) : value'[c] = PortLast(c)
      /\ \A c \in CellId : past'[c] = IF c \in Inputs(def) /\ SeqReceivers(def, c) # {}
                                     THEN PortMid(c) ELSE past[c]
      /\ seqChanges' = UNION {SeqReceivers(def, c) :
             c \in {i \in Inputs(def) : PortMid(i) # value[i] \/ PortLast(i) # PortMid(i)}}
  BY <1>1, <1>3, PortsSignalled
<1>5. InputsFollowed'
  BY <1>1, <1>2, <1>3, <1>4 DEF InputsFollowed, HeldOr
<1>6. \A c \in ClockPorts(orig) : c \in Inputs(orig)
  BY DEF ClockPorts
<1>7. ClocksFollowed'
  <2> SUFFICES ASSUME NEW c \in ClockPorts(orig)
               PROVE  IF c \in specialized THEN old'[c] = ins'[c]
                      ELSE /\ SeqReceivers(def, c) # {} => old'[c] = past'[c]
                           /\ SeqReceivers(def, c) \subseteq seqChanges' \/ old'[c] = ins'[c]
    BY <1>1, <1>4 DEF ClocksFollowed
  <2>1. CASE c \in specialized
    BY <1>2, <1>6, <2>1 DEF HeldOr
  <2>2. CASE c \notin specialized
    <3>1. old'[c] = PortMid(c) /\ ins'[c] = PortLast(c) /\ c \in Inputs(def) /\ c \in CellId
      BY <1>2, <1>3, <1>6, <2>2 DEF HeldOr
    <3>2. CASE PortLast(c) # PortMid(c)
      BY <1>4, <2>2, <3>1, <3>2
    <3>3. CASE PortLast(c) = PortMid(c)
      BY <1>4, <2>2, <3>1, <3>3
    <3> QED BY <3>2, <3>3
  <2> QED BY <2>1, <2>2
<1>8. pc' = "rest" => seqChanges' = {}
  <2> SUFFICES ASSUME pc' = "rest", NEW c \in Inputs(def), SeqReceivers(def, c) # {}
               PROVE  PortMid(c) = value[c] /\ PortLast(c) = PortMid(c)
    BY <1>4
  <2>1. c \in ClockPorts(orig) \ specialized
    BY <1>3, LiveClock
  <2>2. old'[c] = PortMid(c) /\ ins'[c] = PortLast(c) /\ ins[c] = value[c]
    BY <1>2, <1>6, <2>1 DEF HeldOr, TwinInv, InputsFollowed
  <2> QED BY <1>2, <2>1, <2>2
<1>9. RegistersFollowed' /\ (\A c \in Registers(orig) : origReg[c] \in Val)'
  BY <1>1, <1>2, <1>4 DEF TwinInv, RegistersFollowed, KeptRegs
<1> QED BY <1>1, <1>2, <1>4, <1>5, <1>7, <1>8, <1>9 DEF TwinInv

\* A turn of update that loads no register, and a step that is not of update, are none of
\* the original.
LEMMA TwinStays ==
  ASSUME TwinInv, UNCHANGED <<def, reg, past, seqChanges, specialized, frozen, orig, twin>>,
         pc = "clocked" => stage' = "client" /\ phase' = "comb",
         \A c \in Inputs(orig) \ specialized : value'[c] = value[c]
  PROVE  TwinInv'
<1>1. UNCHANGED <<ins, old, origReg, pc>>
  BY DEF twin
<1>2. InputsFollowed' /\ ClocksFollowed' /\ RegistersFollowed'
  BY <1>1 DEF TwinInv, InputsFollowed, ClocksFollowed, RegistersFollowed, KeptRegs
<1> QED BY <1>1, <1>2 DEF TwinInv

\* The registers load what they do in the original.
LEMMA TwinLoads ==
  ASSUME Specializable, Memoryless, SpecializeTypeInv, RewriteInv, ClocksInv, ValuesInv, TwinInv,
         ClocksArePorts(orig), pc = "clocked", SeqStep, KeptRegs, stage = "client",
         NEW w, Possible(orig, specialized, ins, frozen, w),
         \A b \in InBits(def) : value[def.drivers[b].cell] = w[orig.drivers[b].cell],
         NEW c \in Registers(orig), c \in Cells(def) \/ frozen[c] # Fold!NotConst
  PROVE  Orig!Loaded(w, c) = reg'[c]
<1>1. /\ c \in CellId /\ c \in Cells(orig) /\ Tp(orig, c) \in {"REG", "REG_ARST"} /\ origReg[c] = reg[c]
      /\ WellFormed(def) /\ FullyDriven(def) /\ WellFormed(orig) /\ FullyDriven(orig)
      /\ \A x \in Cells(def) \cap Cells(orig) : def.type[x] = orig.type[x]
  BY RewrittenFacts DEF SpecializeTypeInv, Rewritten, Remains, Registers, Cells, TwinInv, RegistersFollowed
<1> DEFINE E(p, q) == Edge(q, old[Driver(orig, c, p)], ins[Driver(orig, c, p)])
<1>2. Orig!Loaded(w, c) = IF Tp(orig, c) = "REG_ARST" /\ E("ARST", orig.type[c].rstPos)
                          THEN orig.type[c].init[1]
                          ELSE IF E("CLK", orig.type[c].clkPos) THEN In(orig, w, c, "IN") ELSE reg[c]
  BY <1>1, MoreOriginalOperators DEF Orig!Loaded, Orig!EdgeAt, Tp
<1>3. CASE c \in Cells(def)
  <2>1. c \in Registers(def) /\ def.type[c] = orig.type[c] /\ Tp(def, c) = Tp(orig, c)
    BY <1>1, <1>3 DEF Registers, Tp
  <2>2. /\ \A q : E("CLK", q) = EdgeOn(c, "CLK", q) /\ (c \notin Clocked => ~EdgeOn(c, "CLK", q))
        /\ Tp(def, c) = "REG_ARST" =>
             \A q : E("ARST", q) = EdgeOn(c, "ARST", q) /\ (c \notin Clocked => ~EdgeOn(c, "ARST", q))
    BY <2>1, TwinEdges DEF ValuesInv
  <2>3. In(orig, w, c, "IN") = In(def, value, c, "IN")
    <3>1. "IN" \in DOMAIN PortWidths(def.type[c])
      BY <1>1, <2>1 DEF Tp, PortWidths, Comparator, Binop, ReduceOp, Unop
    <3>2. PinOf(c, "IN") \in InBits(def)
      BY <1>1, <1>3, <3>1, PortIsDriven
    <3> QED BY <3>2 DEF In, Driver
  <2> HIDE DEF E
  <2>4. Orig!Loaded(w, c) = NextReg(c)
    BY <1>2, <2>1, <2>2, <2>3 DEF NextReg, Resets
  <2>5. CASE c \in Clocked
    BY <1>1, <2>1, <2>4, <2>5 DEF SeqStep
  <2>6. CASE c \notin Clocked
    <3>1. NextReg(c) = reg[c]
      BY <2>2, <2>6 DEF NextReg, Resets
    <3> QED BY <1>1, <2>1, <2>4, <2>6, <3>1 DEF SeqStep
  <2> QED BY <2>5, <2>6
<1>4. CASE c \notin Cells(def)
  <2>1. reg'[c] = reg[c] /\ frozen[c] = reg[c] /\ frozen[c] # Fold!NotConst
    <3>1. c \in CellId \ Registers(def)
      BY <1>1, <1>4 DEF Registers
    <3>2. reg'[c] = reg[c]
      BY <3>1, SimulatorLeaves DEF Running, SpecializeTypeInv
    <3> QED BY <1>4, <3>2 DEF KeptRegs
  <2>2. In(orig, w, c, "IN") = frozen[c]
    BY <2>1 DEF RewriteInv, ReadsInv, FrozenLoads
  <2>3. Tp(orig, c) = "REG_ARST" => ~E("ARST", orig.type[c].rstPos)
    <3> SUFFICES ASSUME Tp(orig, c) = "REG_ARST"
                 PROVE  ~E("ARST", orig.type[c].rstPos)
      OBVIOUS
    <3>1. Driver(orig, c, "ARST") \in specialized
      BY <2>1 DEF RewriteInv, ResetsAreHeld
    <3>2. "ARST" \in DOMAIN PortWidths(orig.type[c])
      BY <1>1 DEF Tp, PortWidths, Comparator, Binop, ReduceOp, Unop
    <3>3. PinOf(c, "ARST") \in ClockBits(orig)
      BY <1>1, <3>2, PortIsDriven DEF ClockBits, PinOf
    <3>4. Driver(orig, c, "ARST") \in ClockPorts(orig)
      <4>1. orig \in Circuits
        BY DEF SpecializeTypeInv
      <4> QED BY <1>1, <3>3, <4>1, ClockIsDriven, OriginalClocks DEF ClockPorts, Driver
    <3>5. old[Driver(orig, c, "ARST")] = ins[Driver(orig, c, "ARST")]
      BY <3>1, <3>4 DEF TwinInv, ClocksFollowed
    <3> QED BY <3>5 DEF Edge
  <2> HIDE DEF E
  <2> QED BY <1>2, <2>1, <2>2, <2>3
<1> QED BY <1>3, <1>4

\* What a register of the original loads is a value.
LEMMA LoadsValue ==
  ASSUME NEW w, orig \in Circuits, NEW m, Solution(orig, w, m), NEW c \in Registers(orig), origReg[c] \in Val
  PROVE  Orig!Loaded(w, c) \in Val
<1>1. /\ c \in Cells(orig) /\ Tp(orig, c) \in {"REG", "REG_ARST"} /\ orig \in Net
      /\ WellFormed(orig) /\ FullyDriven(orig)
  BY SimulatorAssumption DEF Registers, WellFormed
<1>2. orig.type[c].init[1] \in Val
  <2>1. orig.type[c] \in Kind
    BY <1>1, NetFields DEF Cells
  <2> QED BY <1>1, <2>1, SemanticsAssumption DEF Tp
<1>3. In(orig, w, c, "IN") \in Val
  <2>1. "IN" \in DOMAIN PortWidths(orig.type[c])
    BY <1>1 DEF Tp, PortWidths, Comparator, Binop, ReduceOp, Unop
  <2>2. Driver(orig, c, "IN") \in Cells(orig)
    BY <1>1, <2>1, PortIsDriven
  <2> QED BY <2>2 DEF In, Solution
<1>4. Orig!In(orig, w, c, "IN") = In(orig, w, c, "IN")
  BY MoreOriginalOperators
<1> QED BY <1>2, <1>3, <1>4 DEF Orig!Loaded

LEMMA ClockTwin ==
  ASSUME Specializable, Memoryless, SpecializeTypeInv, RewriteInv, ClocksInv, ValuesInv, TwinInv,
         ClocksArePorts(orig), pc = "clocked", SeqStep, Orig!Clock,
         UNCHANGED <<specialized, frozen, orig>>
  PROVE  TwinInv'
<1>1. /\ stage = "client" /\ combChanges = {} /\ reread = {} /\ StoreInv /\ orig \in Circuits
      /\ ins \in [Inputs(orig) -> Val] /\ Inputs(def) = Inputs(orig)
  BY RewrittenFacts DEF TwinInv, SeqStep, SpecializeTypeInv, StoreInv, QueuesDrained, RewriteInv
<1>2. Quiet
  BY ClockedAlikeIsQuiet DEF ClocksInv
<1>3. /\ def' = def /\ seqChanges' = {} /\ \A c \in Inputs(def) : value'[c] = value[c]
  BY <1>1, <1>2, SeqStepSignal
<1> DEFINE w == Wires(orig, ins, origReg, origMem)
<1>4. /\ pc' = "rest" /\ ins' = ins
      /\ \A c \in Registers(orig) : origReg'[c] = Orig!Loaded(w, c)
  <2>1. \A c \in Registers(orig) : c \in CellId
    BY DEF Registers, Cells
  <2> QED BY <2>1, OriginalHasTheWires, MoreOriginalOperators, OriginalOperators DEF Orig!Clock
<1>5. InputsFollowed' /\ ClocksFollowed'
  BY <1>1, <1>3, <1>4 DEF TwinInv, InputsFollowed, ClocksFollowed
<1>6. Solution(orig, w, Zeros)
  BY <1>1, OriginalWires DEF TwinInv
<1>7. (\A c \in Registers(orig) : origReg[c] \in Val)'
  BY <1>1, <1>4, <1>6, LoadsValue DEF TwinInv
<1>8. RegistersFollowed'
  <2> SUFFICES ASSUME KeptRegs', NEW c \in Registers(orig), c \in Cells(def) \/ frozen[c] # Fold!NotConst
               PROVE  Orig!Loaded(w, c) = reg'[c]
    BY <1>3, <1>4 DEF RegistersFollowed
  <2>1. KeptRegs
    BY KeptBefore DEF Running
  <2>2. /\ Possible(orig, specialized, ins, frozen, w)
        /\ \A b \in InBits(def) : value[def.drivers[b].cell] = w[orig.drivers[b].cell]
    BY <1>1, <2>1, TwinWires
  <2> HIDE DEF w
  <2> QED BY <1>1, <2>1, <2>2, TwinLoads
<1> QED BY <1>3, <1>4, <1>5, <1>7, <1>8 DEF TwinInv

LEMMA SimulatorTwin ==
  ASSUME Specializable, Memoryless, SpecializeTypeInv, RewriteInv, ClocksInv, ValuesInv, TwinInv,
         ClocksArePorts(orig),
         CallUpdate \/ UpdateTurn \/ \E c \in CellId, v \in Fresh : CallSetFreshValue(c, v)
  PROVE  TwinInv'
<1>1. /\ StoreInv /\ Quiet /\ TypeOK /\ orig \in Circuits /\ def \in Net
      /\ Inputs(def) = Inputs(orig) /\ Inputs(def) \subseteq CellId
      /\ \A c \in Inputs(def) : c \notin Evaluated(def)
  BY ClockedAlikeIsQuiet, RewrittenFacts DEF ClocksInv, SpecializeTypeInv, StoreInv, Inputs, Cells, Evaluated
<1>2. CASE CallUpdate
  BY <1>2, CallUpdateTwin
<1>3. CASE \E c \in CellId, v \in Fresh : CallSetFreshValue(c, v)
  <2>1. /\ UNCHANGED <<def, value, reg, past, seqChanges, specialized, frozen, orig, twin, stage, phase>>
    BY <1>3 DEF CallSetFreshValue, SetFreshValue, store, folding
  <2> QED BY <2>1, TwinStays DEF TwinInv
<1>4. CASE UpdateTurn
  <2>1. /\ Running /\ UNCHANGED <<specialized, frozen, orig>> /\ stage = "client" /\ stage' = "client"
        /\ IF pc = "clocked" /\ phase = "comb" /\ phase' = "reread" THEN Orig!Clock ELSE UNCHANGED twin
    BY <1>4 DEF UpdateTurn, folding
  <2>2. CASE CombStep
    <3>1. Outside /\ phase' = "comb"
      BY <1>1, <2>2, CombStepOutside
    <3>2. UNCHANGED twin
      BY <2>1, <3>1
    <3> QED BY <1>1, <2>1, <3>1, <3>2, TwinStays DEF Outside
  <2>3. CASE StoreAborts
    <3>1. Memories(def) = {}
      BY <1>1, NoMemories
    <3> QED BY <2>3, <3>1 DEF StoreAborts
  <2>4. CASE RereadStep
    <3>1. Outside /\ phase' = "reread" /\ phase = "reread"
      BY <1>1, <2>4, RereadStepOutside
    <3>2. UNCHANGED twin /\ pc # "clocked"
      BY <2>1, <3>1 DEF TwinInv
    <3> QED BY <1>1, <2>1, <3>1, <3>2, TwinStays DEF Outside
  <2>5. CASE LoopEnd
    <3>1. phase = "reread" /\ UNCHANGED <<def, store, seqChanges>>
      BY <2>5 DEF LoopEnd
    <3>2. UNCHANGED twin /\ pc # "clocked"
      BY <2>1, <3>1 DEF TwinInv
    <3> QED BY <2>1, <3>1, <3>2, TwinStays DEF store
  <2>6. CASE SeqStep
    <3>1. /\ def' = def /\ past' = past /\ seqChanges' = {} /\ phase = "comb" /\ phase' = "reread"
          /\ \A c \in Inputs(def) : value'[c] = value[c]
      BY <1>1, <2>6, SeqStepSignal
    <3>2. CASE pc = "clocked"
      BY <2>1, <2>6, <3>1, <3>2, ClockTwin
    <3>3. CASE pc # "clocked"
      <4>1. seqChanges = {} /\ Clocked = {}
        BY <3>3 DEF TwinInv, Clocked
      <4>2. reg' = reg
        <5>1. reg' = [c \in CellId |-> reg[c]]
          BY <2>6, <4>1 DEF SeqStep
        <5> QED BY <1>1, <5>1 DEF TypeOK
      <4> QED BY <1>1, <2>1, <3>1, <3>3, <4>1, <4>2, TwinStays
    <3> QED BY <3>2, <3>3
  <2> QED BY <2>1, <2>2, <2>3, <2>4, <2>5, <2>6 DEF Running
<1> QED BY <1>2, <1>3, <1>4

\* While the definition is rewritten the original rests.
LEMMA RewritingTwin ==
  ASSUME SpecializeTypeInv, TwinInv, stage # "client" \/ phase = "idle",
         UNCHANGED <<reg, seqChanges, orig, old, origReg, pc>>,
         specialized \subseteq specialized', KeptRegs' => KeptRegs,
         \A c \in Inputs(orig) \ specialized' : ins'[c] = ins[c] /\ value'[c] = value[c],
         Cells(def') \cap Cells(orig) \subseteq Cells(def),
         \A c \in Registers(orig) : frozen'[c] = frozen[c] \/ c \in Cells(def)
  PROVE  TwinInv'
<1>1. pc = "rest"
  BY DEF TwinInv
<1>2. InputsFollowed' /\ ClocksFollowed'
  BY <1>1 DEF TwinInv, InputsFollowed, ClocksFollowed
<1>3. RegistersFollowed'
  BY DEF TwinInv, RegistersFollowed, Registers
<1> QED BY <1>1, <1>2, <1>3 DEF TwinInv

LEMMA SpecializingTwin ==
  ASSUME Specializable, Memoryless, SpecializeTypeInv, RewriteInv, TwinInv,
         Specializing \/ \E c \in Inputs(def) : \E v \in Fresh \cup {value[c]} : SpecializePort(c, v)
  PROVE  TwinInv'
<1>1. CASE BeginFolding \/ BeginDeleting
  <2>1. /\ UNCHANGED <<def, value, reg, seqChanges, specialized, frozen, orig, ins, old, origReg, pc>>
        /\ stage # "client" \/ phase = "idle"
    BY <1>1 DEF BeginFolding, BeginDeleting, running, store, folding, twin
  <2>2. KeptRegs' => KeptRegs
    BY <2>1 DEF KeptRegs
  <2> QED BY <2>1, <2>2, RewritingTwin
<1>2. CASE FoldTurn
  <2>1. /\ UNCHANGED <<value, reg, seqChanges, specialized, orig, ins, old, origReg, pc>>
        /\ stage # "client"
    BY <1>2, FoldTurnFacts DEF running, store, twin
  <2>2. CASE UNCHANGED <<def, frozen>>
    <3>1. KeptRegs' => KeptRegs
      BY <2>1, <2>2 DEF KeptRegs
    <3> QED BY <2>1, <2>2, <3>1, RewritingTwin
  <2>3. ASSUME NEW c \in Cells(def), NEW e, FoldedCell(def, orig, frozen, c, e, def', frozen')
        PROVE  TwinInv'
    <3>1. Cells(def') \cap Cells(orig) \subseteq Cells(def)
      BY <2>3 DEF FoldedCell, FoldedInto, HandedTo
    <3>2. \A d \in Registers(orig) : frozen'[d] = frozen[d] \/ d = c
      BY <2>3 DEF FoldedCell, SpecializeTypeInv, Registers, Cells
    <3>3. \A d \in Registers(orig) : frozen[d] # Fold!NotConst => frozen'[d] = frozen[d]
      BY <3>2 DEF RewriteInv, FrozenAreGone
    <3>4. KeptRegs' => KeptRegs
      BY <2>1, <3>3 DEF KeptRegs
    <3>5. \A d \in Registers(orig) : frozen'[d] = frozen[d] \/ d \in Cells(def)
      BY <3>2
    <3> QED BY <2>1, <3>1, <3>4, <3>5, RewritingTwin
  <2> QED BY <1>2, <2>2, <2>3, FoldTurnFolds
<1>3. CASE CleanTurn
  <2>1. /\ UNCHANGED <<value, reg, seqChanges, specialized, frozen, orig, ins, old, origReg, pc>>
        /\ stage # "client" /\ Cells(def') \subseteq Cells(def)
    BY <1>3, CleanTurnFacts, RemovalLeaves DEF running, store, folding, twin, Deleting
  <2>2. KeptRegs' => KeptRegs
    BY <2>1 DEF KeptRegs
  <2> QED BY <2>1, <2>2, RewritingTwin
<1>4. CASE RefreshConstants
  <2>1. /\ UNCHANGED <<def, reg, seqChanges, specialized, frozen, orig, ins, old, origReg, pc>>
        /\ stage # "client" /\ stage' = "client"
        /\ value' = [c \in CellId |-> IF c \in Constants THEN InitialValue(def, c) ELSE value[c]]
    BY <1>4 DEF RefreshConstants, folding, twin
  <2>2. KeptRegs' => KeptRegs
    BY <2>1 DEF KeptRegs
  <2>3. \A c \in Inputs(orig) : c \in CellId /\ c \notin Constants
    <3>1. Inputs(def) = Inputs(orig)
      BY RewrittenFacts DEF SpecializeTypeInv
    <3> QED BY <3>1 DEF Inputs, Constants, Cells
  <2>4. \A c \in Inputs(orig) : value'[c] = value[c]
    BY <2>1, <2>3
  <2> QED BY <2>1, <2>2, <2>4, RewritingTwin
<1>5. ASSUME NEW c \in Inputs(def), NEW v \in Fresh \cup {value[c]}, SpecializePort(c, v)
      PROVE  TwinInv'
  <2>1. /\ UNCHANGED <<value, reg, seqChanges, frozen, orig, old, origReg, pc>> /\ phase = "idle"
        /\ specialized' = specialized \cup {c} /\ ins' = [ins EXCEPT ![c] = v]
        /\ Cells(def') \cap Cells(orig) \subseteq Cells(def)
    BY <1>5, SpecializePortFacts DEF running, store, folding
  <2>2. KeptRegs' => KeptRegs
    BY <2>1 DEF KeptRegs
  <2>3. \A d \in Inputs(orig) \ specialized' : ins'[d] = ins[d]
    BY <2>1 DEF RewriteInv
  <2> QED BY <2>1, <2>2, <2>3, RewritingTwin
<1> QED BY <1>1, <1>2, <1>3, <1>4, <1>5 DEF Specializing

LEMMA NextKeepsTwin ==
  ASSUME Specializable, Memoryless, SpecializeTypeInv, RewriteInv, ClocksInv, ValuesInv, TwinInv,
         ClocksArePorts(orig), [SpecializeNext]_allVars
  PROVE  TwinInv'
<1>1. CASE UNCHANGED allVars
  <2>1. UNCHANGED <<def, value, reg, past, seqChanges, specialized, frozen, orig, twin, stage, phase>>
    BY <1>1 DEF allVars, running, store, folding
  <2> QED BY <2>1, TwinStays DEF TwinInv
<1>2. ~PastIsMissing
  BY PastFound DEF PastIsMissing, ClocksInv
<1> QED BY <1>1, <1>2, SimulatorTwin, SpecializingTwin DEF SpecializeNext

-----------------------------------------------------------------------------
\* All that is needed for what a client sees; the third part does not ask what clocks
\* the original, the fourth does.
ShownInv ==
  /\ SpecializeTypeInv /\ NothingStops
  /\ RewriteInv /\ ValuesInv
  /\ ClocksArePorts(orig) => TwinInv

LEMMA InitShownInv ==
  ASSUME Specializable, SpecializeInit
  PROVE  ShownInv
BY SpecializeInitTyped, InitNothingStops, InitReads, InitValues, TwinInit DEF ShownInv

LEMMA NextShownInv ==
  ASSUME Specializable, Memoryless, ShownInv, [SpecializeNext]_allVars
  PROVE  ShownInv'
<1>1. SpecializeTypeInv' /\ NothingStops'
  BY SpecializeNextTyped, NextNothingStops DEF ShownInv
<1>2. RewriteInv' /\ ValuesInv'
  BY <1>1, NextKeepsReads, NextKeepsValues DEF ShownInv
<1>3. orig' = orig
  BY NextKeepsOriginal DEF ShownInv
<1>4. (ClocksArePorts(orig) => TwinInv)'
  <2>1. ClocksArePorts(orig) => ClocksInv
    BY DEF ShownInv, NothingStops
  <2> QED BY <1>3, <2>1, NextKeepsTwin DEF ShownInv
<1> QED BY <1>1, <1>2, <1>4 DEF ShownInv

LEMMA ShownToClients ==
  ASSUME Specializable, Memoryless, ShownInv
  PROVE  ShowsTheOriginal
<1> SUFFICES ASSUME stage = "client", phase = "idle", Kept
             PROVE  /\ SettlesAgain
                    /\ ClocksArePorts(orig) =>
                         LET wire == Wires(orig, ins, origReg, origMem)
                         IN  /\ \A c \in (Cells(orig) \cap Cells(def)) \ Inputs(orig) : value[c] = wire[c]
                             /\ \A c \in Registers(orig) \cap Cells(def) : reg[c] = origReg[c]
                             /\ \A c \in Memories(orig) \cap Cells(def) : mem[c] = origMem[c]
  BY DEF ShowsTheOriginal
<1>1. KeptRegs
  BY DEF Kept, KeptRegs
<1>2. /\ SpecializeTypeInv /\ RewriteInv /\ ValuesInv /\ orig \in Circuits /\ orig \in Net
      /\ specialized \subseteq Inputs(orig) /\ RegistersShown
  BY SimulatorAssumption DEF ShownInv, SpecializeTypeInv, StoreInv, WellFormed
<1>3. StaleCellsArePending /\ combChanges = {} /\ reread = {}
  BY <1>1, <1>2, IdleIsAgreed
<1>4. SettlesAgain
  BY <1>2, <1>3 DEF SettlesAgain, Settled, StaleCellsArePending, RegistersShown
<1>5. ASSUME ClocksArePorts(orig)
      PROVE  LET wire == Wires(orig, ins, origReg, origMem)
             IN  /\ \A c \in (Cells(orig) \cap Cells(def)) \ Inputs(orig) : value[c] = wire[c]
                 /\ \A c \in Registers(orig) \cap Cells(def) : reg[c] = origReg[c]
                 /\ \A c \in Memories(orig) \cap Cells(def) : mem[c] = origMem[c]
  <2> DEFINE w == Wires(orig, ins, origReg, origMem)
  <2>1. TwinInv
    BY <1>5 DEF ShownInv
  <2>2. \A c \in Cells(def) \ specialized : value[c] = Value(def, orig, w, c)
    BY <1>1, <1>2, <1>3, <2>1, TwinWires
  <2> HIDE DEF w
  <2>3. \A c \in (Cells(orig) \cap Cells(def)) \ Inputs(orig) : value[c] = w[c]
    BY <1>2, <2>2 DEF Value
  <2>4. \A c \in Registers(orig) \cap Cells(def) : reg[c] = origReg[c]
    BY <1>1, <2>1 DEF TwinInv, RegistersFollowed
  <2>5. Memories(orig) = {}
    BY <1>2, NoMemories
  <2> QED BY <2>3, <2>4, <2>5 DEF w
<1> QED BY <1>4, <1>5

\* Between two updates no client can tell that ports were specialized, and the circuit folded,
\* deleted and merged under the simulator: it is settled, and each cell that is left shows
\* what it shows in the circuit as it was, with those ports held, as long as what folded
\* registers held is kept.
THEOREM SpecializedShowsTheOriginal ==
  ASSUME Specializable, Memoryless
  PROVE  SpecializeSpec => []ShowsTheOriginal
<1>1. SpecializeInit => ShownInv
  BY InitShownInv
<1>2. ShownInv /\ [SpecializeNext]_allVars => ShownInv'
  BY NextShownInv
<1>3. ShownInv => ShowsTheOriginal
  BY ShownToClients
<1> QED BY <1>1, <1>2, <1>3, PTL DEF SpecializeSpec
=============================================================================
